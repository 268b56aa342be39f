--------------------------- MODULE CandidateInbox ---------------------------
(***************************************************************************)
(* tools/import_compactions.py: the owner's inbox of memory candidates.    *)
(* Importers read the summaries that other applications keep, and stage    *)
(* each one as a file in `pending/`; the owner's window lists that folder  *)
(* and moves a reviewed file to `reviewed/<decision>/`. Nothing locks the  *)
(* folders: every existence test, exclusive creation, write and rename is  *)
(* an action of its own, and an importer may die between any two.          *)
(***************************************************************************)
EXTENDS Integers, Sequences

CONSTANTS Importers,    \* processes that stage summaries
          Reviewers,    \* calls of --resolve-pending that may be under way
          Texts,        \* summaries, told apart by their digests
          MaxRecords    \* bound: records in the source

\* An importer is told apart from what a file may hold without one.
ASSUME InboxAssumption == /\ MaxRecords \in Nat
                          /\ {"absent", "torn", "whole"} \cap Importers = {}

Kinds == {"braindesk", "kimi", "claude", "openwebui", "prepared"}
Decisions == {"written", "rejected"}
Places == {"pending"} \cup Decisions

\* `kept` says that a record is a summary of the right shape and size in which the
\* adapter finds nothing that looks like a secret.
Records == [id : 1..MaxRecords, text : Texts, kept : BOOLEAN]

\* A file is named by the digest of its source, its id there and its text.
Names == Kinds \X (1..MaxRecords) \X Texts

\* What a file holds: while importer i writes it, i; "torn" if i never finished.
Contents == {"absent", "torn", "whole"} \cup Importers

VARIABLES kind,     \* the kind of the source
          log,      \* its records, in order
          inbox,    \* what each place holds under each name
          stager,   \* what each importer is doing
          listed,   \* names the owner has been shown
          reviewer, \* what each resolve call is doing
          contested \* history: names that two imports were about to stage at once

inboxVars == <<kind, log, inbox, stager, listed, reviewer, contested>>

NoName == <<>>
Resting == [at |-> 0, todo |-> {}, name |-> NoName, dry |-> FALSE]
Idle == [name |-> NoName, decision |-> "none"]
Exists(place, n) == inbox[place][n] # "absent"

InboxInit ==
    /\ kind \in Kinds
    /\ log = <<>>
    /\ inbox = [p \in Places |-> [n \in Names |-> "absent"]]
    /\ stager = [i \in Importers |-> Resting]
    /\ listed = {}
    /\ reviewer = [r \in Reviewers |-> Idle]
    /\ contested = {}

-----------------------------------------------------------------------------
(* The adapters: the candidates of a source. *)

Kept == {k \in DOMAIN log : log[k].kept}

\* Records with an id of their own: messages of a chat, rows, prepared files.
ById(source) == {<<source, log[k].id, log[k].text>> : k \in Kept}
\* Session logs, whose records are known by their line.
ByLine(source) == {<<source, k, log[k].text>> : k \in Kept}

FromBrainDesk == ById("braindesk")
FromKimi == ByLine("kimi")
FromClaude == ByLine("claude")
FromOpenWebUI == ById("openwebui")
FromPrepared == ById("prepared")

\* What one pass may find. A chat or a session that cannot be read at the moment gives
\* nothing; a database that breaks off gives the rows read so far; of the prepared
\* files each one is read or skipped.
Found ==
    CASE kind = "braindesk" -> {{}, FromBrainDesk}
      [] kind = "kimi"      -> {{}, FromKimi}
      [] kind = "claude"    -> {{}, FromClaude}
      [] kind = "openwebui" -> SUBSET FromOpenWebUI
      [] kind = "prepared"  -> SUBSET FromPrepared

\* The application adds a record to its source.
SourceGrows ==
    /\ Len(log) < MaxRecords
    /\ \E r \in Records : log' = Append(log, r)
    /\ UNCHANGED <<kind, inbox, stager, listed, reviewer, contested>>

-----------------------------------------------------------------------------
(* One importer. `at` counts the places it has looked at for the present name. *)

\* Mutant: the reviewed folders are looked at first.
ReviewedFirst == <<"written", "rejected", "pending">>

Lookups == <<"pending", "written", "rejected">>
Looked == Len(Lookups) + 1

StartImport(i) ==
    /\ stager[i] = Resting
    /\ \E todo \in Found \ {{}}, dry \in BOOLEAN :
          stager' = [stager EXCEPT ![i] = [Resting EXCEPT !.todo = todo, !.dry = dry]]
    /\ UNCHANGED <<kind, log, inbox, listed, reviewer, contested>>

\* Importer i has found nothing so far under this name, and would stage it.
Staging(i, n) == stager[i].at \in 1..Looked /\ stager[i].name = n /\ ~stager[i].dry

TakeCandidate(i) ==
    /\ stager[i].at = 0
    /\ \E n \in stager[i].todo :
          /\ stager' = [stager EXCEPT ![i].at = 1, ![i].name = n, ![i].todo = @ \ {n}]
          /\ contested' = IF ~stager[i].dry /\ \E j \in Importers : Staging(j, n)
                          THEN contested \cup {n} ELSE contested
    /\ UNCHANGED <<kind, log, inbox, listed, reviewer>>

\* The importer with its present candidate dealt with.
Done(i) ==
    IF stager[i].todo = {} THEN Resting ELSE [stager[i] EXCEPT !.at = 0, !.name = NoName]

\* _already_seen looks at one place after the other.
Look(i) ==
    LET s == stager[i] IN
    /\ s.at \in 1..Len(Lookups)
    /\ stager' = [stager EXCEPT ![i] =
          IF Exists(Lookups[s.at], s.name) THEN Done(i) ELSE [s EXCEPT !.at = s.at + 1]]
    /\ UNCHANGED <<kind, log, inbox, listed, reviewer, contested>>

\* Creation is exclusive: a file that appeared in the meantime stays as it is.
Create(i) ==
    LET s == stager[i] IN
    /\ s.at = Looked
    /\ IF s.dry \/ Exists("pending", s.name)
         THEN stager' = [stager EXCEPT ![i] = Done(i)] /\ UNCHANGED inbox
         ELSE /\ inbox' = [inbox EXCEPT !["pending"][s.name] = i]
              /\ stager' = [stager EXCEPT ![i].at = Looked + 1]
    /\ UNCHANGED <<kind, log, listed, reviewer, contested>>

\* The open file is written wherever it has been moved to.
Settle(i, content) ==
    [p \in Places |-> [n \in Names |-> IF inbox[p][n] = i THEN content ELSE inbox[p][n]]]

WriteOut(i) ==
    /\ stager[i].at = Looked + 1
    /\ inbox' = Settle(i, "whole")
    /\ stager' = [stager EXCEPT ![i] = Done(i)]
    /\ UNCHANGED <<kind, log, listed, reviewer, contested>>

\* The process dies, or a system call raises: the pass is over.
ImporterDies(i) ==
    /\ stager[i] # Resting
    /\ inbox' = Settle(i, "torn")
    /\ stager' = [stager EXCEPT ![i] = Resting]
    /\ UNCHANGED <<kind, log, listed, reviewer, contested>>

-----------------------------------------------------------------------------
(* The owner's window. *)

\* A file that does not parse is left out of the listing.
ListPending ==
    /\ listed' = {n \in Names : inbox["pending"][n] = "whole"}
    /\ listed' # listed
    /\ UNCHANGED <<kind, log, inbox, stager, reviewer, contested>>

\* resolve_pending sees the file ...
StartResolve(r) ==
    /\ reviewer[r] = Idle
    /\ \E n \in listed, d \in Decisions :
          /\ Exists("pending", n)
          /\ reviewer' = [reviewer EXCEPT ![r] = [name |-> n, decision |-> d]]
    /\ UNCHANGED <<kind, log, inbox, stager, listed, contested>>

\* ... and renames it, unless another call has done so first.
MoveReviewed(r) ==
    LET n == reviewer[r].name IN
    /\ reviewer[r] # Idle
    /\ inbox' = IF Exists("pending", n)
                  THEN [inbox EXCEPT ![reviewer[r].decision][n] = inbox["pending"][n],
                                     !["pending"][n] = "absent"]
                  ELSE inbox
    /\ reviewer' = [reviewer EXCEPT ![r] = Idle]
    /\ UNCHANGED <<kind, log, stager, listed, contested>>

InboxNext ==
    \/ SourceGrows
    \/ \E i \in Importers :
          \/ StartImport(i) \/ TakeCandidate(i) \/ Look(i)
          \/ Create(i) \/ WriteOut(i) \/ ImporterDies(i)
    \/ ListPending
    \/ \E r \in Reviewers : StartResolve(r) \/ MoveReviewed(r)

InboxSpec == InboxInit /\ [][InboxNext]_inboxVars

-----------------------------------------------------------------------------

InboxTypeOK ==
    /\ kind \in Kinds
    /\ log \in Seq(Records) /\ Len(log) <= MaxRecords
    /\ inbox \in [Places -> [Names -> Contents]]
    /\ stager \in [Importers -> [at : 0..(Looked + 1), todo : SUBSET Names,
                                 name : Names \cup {NoName}, dry : BOOLEAN]]
    /\ listed \subseteq Names
    /\ reviewer \in [Reviewers -> [name : Names \cup {NoName},
                                   decision : Decisions \cup {"none"}]]
    /\ contested \subseteq Names

OnlyIn(p, n) == \A q \in Places : Exists(q, n) => q = p

\* A reviewed candidate is never in the queue again, and never under both decisions
\* (_already_seen: "this run must not recreate it in the pending queue").
InOnePlace ==
    \A n \in Names, p \in Places : Exists(p, n) => OnlyIn(p, n)

\* Only two imports that look for the same new candidate at the same time can bring it back:
\* whatever one import does, wherever it dies and whatever is resolved meanwhile, no name
\* that was not contested is in two places.
InOnePlaceUnlessContested ==
    \A n \in Names \ contested, p \in Places : Exists(p, n) => OnlyIn(p, n)

=============================================================================
