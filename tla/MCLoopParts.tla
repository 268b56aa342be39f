------------------------------ MODULE MCLoopParts ------------------------------
(* Small instances of the parts: a registry with a tool of every kind, messages *)
(* that open, continue, read and delegate work, and a catalogue that shrinks; a *)
(* server call that may write, one that only reads, and one the client          *)
(* executes; a stage of four units of output, a quarter of it for the retry     *)
(* (RETRY_MIN_OUTPUT of RETRY_SPLIT_MIN_OUTPUT), a lower fallback profile.      *)
EXTENDS LoopParts

MCRole == [file |-> "read", save |-> "write", sql |-> "write", find |-> "core",
           run |-> "executor", mail |-> "connector", codex |-> "codex", team |-> "service",
           drop |-> "known_write"]
MCTools == DOMAIN MCRole
MCDomain == [t \in MCTools |-> CASE t \in {"file", "save"} -> "files" [] t = "sql" -> "supabase"
                                 [] t = "run" -> "pressable" [] OTHER -> "none"]
MCOrder == [find |-> 1, codex |-> 2, run |-> 3, file |-> 4, save |-> 5, sql |-> 6,
            mail |-> 7, team |-> 8, drop |-> 9]
MCAlphabet == [codex |-> 1, file |-> 2, find |-> 3, mail |-> 4, run |-> 5, save |-> 6,
               sql |-> 7, team |-> 8, drop |-> 9]

Said(verb, short, domains) ==
    [verb |-> verb, short |-> short, wide |-> FALSE, question |-> FALSE, domains |-> domains,
     names |-> {}, brings |-> {}, near |-> {}, raises |-> "none"]
MCTexts == {Said("mutate", TRUE, {}),                                  \* "go on"
            [Said("mutate", FALSE, {"files"}) EXCEPT !.near = {"mail"}],
            [Said("mutate", FALSE, {"files"}) EXCEPT !.wide = TRUE],
            [Said("read", FALSE, {"pressable", "files"}) EXCEPT !.near = {"find", "mail"}],
            [Said("explain", FALSE, {}) EXCEPT !.names = {"sql"}],
            [Said("none", FALSE, {}) EXCEPT !.question = TRUE]}
MCCatalogs == {MCTools, MCTools \ {"save", "mail"}}

CONSTANTS edit, read, remote

MCCalls == {edit, read, remote}
MCExternal == {remote}
MCIdempotent == {read}
===============================================================================
