------------------------------- MODULE MCServices -------------------------------
(* Small instances of the parts; the batches a delegated model asks for hold  *)
(* every kind of call, in the scratch and outside of it; a swarm of three      *)
(* workers, each with a deadline of one tick.                                 *)
EXTENDS Services

Asked(tool, root) == [tool |-> tool, at |-> root]
MCBatches == {<<Asked("read", "memory"), Asked("read", "memory")>>,
              <<Asked("write", "scratch"), Asked("read", "scratch")>>,
              <<Asked("write", "memory"), Asked("edit", "memory")>>,
              <<Asked("edit", "scratch")>>,
              <<Asked("list", "outside"), Asked("list", "scratch")>>,
              <<Asked("todos", "outside"), Asked("recommend", "delegated")>>,
              <<Asked("recommend", "memory")>>,
              <<Asked("delegate", "outside"), Asked("other", "outside")>>}

MCSubtasks == 1..3
===============================================================================
