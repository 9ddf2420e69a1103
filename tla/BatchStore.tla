------------------------------ MODULE BatchStore ------------------------------
(***************************************************************************)
(* What the history promises of the rows given to it.  They wait in memory *)
(* in the order they came; those at the front leave together, a call's     *)
(* rows never apart, for the table or - when storing fails or the process  *)
(* dies - for nowhere.  The table gives them ids in that order and is rid  *)
(* of those that have expired, of no others.  HistoryLogger keeps this     *)
(* with two threads, transactions and a database that may refuse anything. *)
(***************************************************************************)
EXTENDS Naturals, Sequences

CONSTANTS Sizes,     \* how many rows a call may bring
          Retention  \* days a row is kept

VARIABLES queue,          \* rows that wait, oldest first
          table, lastId,  \* rows by id; the last id given
          day,
          calls           \* how many calls there were

vars == <<queue, table, lastId, day, calls>>

Init == queue = <<>> /\ table = <<>> /\ lastId = 0 /\ day = 0 /\ calls = 0

Accept ==
  /\ \E size \in Sizes :
       queue' = queue \o [n \in 1 .. size |->
                            [call |-> calls + 1, row |-> n, size |-> size, day |-> day]]
  /\ calls' = calls + 1
  /\ UNCHANGED <<table, lastId, day>>

\* No call has rows both among the first n and behind them.
EndsCall(n) == n = Len(queue) \/ queue[n].call # queue[n + 1].call

Leave(n) ==
  /\ EndsCall(n)
  /\ queue' = [i \in 1 .. Len(queue) - n |-> queue[n + i]]
  /\ UNCHANGED <<day, calls>>

StoreFront ==
  \E n \in 1 .. Len(queue) :
    /\ Leave(n)
    /\ table' = [id \in DOMAIN table \cup (lastId + 1 .. lastId + n) |->
                   IF id <= lastId THEN table[id] ELSE queue[id - lastId]]
    /\ lastId' = lastId + n

LoseFront == \E n \in 1 .. Len(queue) : Leave(n) /\ UNCHANGED <<table, lastId>>

Expire ==
  /\ table' = [id \in {i \in DOMAIN table : table[i].day + Retention >= day} |-> table[id]]
  /\ UNCHANGED <<queue, lastId, day, calls>>

DayPasses == day' = day + 1 /\ UNCHANGED <<queue, table, lastId, calls>>

Next == Accept \/ StoreFront \/ LoseFront \/ Expire \/ DayPasses

Spec == Init /\ [][Next]_vars
=============================================================================
