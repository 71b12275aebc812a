---------------------------- MODULE TxgAbstract ----------------------------
(***************************************************************************)
(* What the transaction-group pipeline promises, without threads, locks or *)
(* slots.  Transactions join the open group.  Groups are closed one after  *)
(* the other, the next one only when every earlier one has lost its last   *)
(* member; a closed group gains no member.  A group becomes durable in its *)
(* turn, once it is closed and empty.  Never more than MaxActive groups    *)
(* are not yet durable, the open one included.                             *)
(***************************************************************************)
EXTENDS Naturals

CONSTANTS Txs, InitTxg, MaxActive

VARIABLES open,     \* the group transactions join now
          durable,  \* the last group on disk
          member    \* member[t]: the group t is in, 0 when in none

vars == <<open, durable, member>>

Init ==
    /\ open = InitTxg
    /\ durable = InitTxg - 1
    /\ member = [t \in Txs |-> 0]

Join(t) ==
    /\ member[t] = 0
    /\ member' = [member EXCEPT ![t] = open]
    /\ UNCHANGED <<open, durable>>

Leave(t) ==
    /\ member[t] # 0
    /\ member' = [member EXCEPT ![t] = 0]
    /\ UNCHANGED <<open, durable>>

Close ==
    /\ open - durable < MaxActive
    /\ \A t \in Txs : member[t] \in {0, open}
    /\ open' = open + 1
    /\ UNCHANGED <<durable, member>>

MakeDurable ==
    /\ durable + 1 < open
    /\ \A t \in Txs : member[t] # durable + 1
    /\ durable' = durable + 1
    /\ UNCHANGED <<open, member>>

Next == (\E t \in Txs : Join(t) \/ Leave(t)) \/ Close \/ MakeDurable

Spec == Init /\ [][Next]_vars
=============================================================================
