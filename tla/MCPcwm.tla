------------------------------- MODULE MCPcwm -------------------------------
(***************************************************************************)
(* Model checking of Pcwm. The protocol only compares clock values, and    *)
(* every value it writes is a copy of another or the newest one, so two    *)
(* states that differ in the values but not in their order, or in local    *)
(* variables nobody reads again, behave alike: PcwmView replaces the       *)
(* values by their ranks and the dead variables by constants.              *)
(***************************************************************************)
EXTENDS Pcwm, FiniteSets

RcvLive(t) == cpc[t] \notin {"idle", "body"}
OldLive(t) == cpc[t] \in {"loop", "cas"}
WaitLive(t) == cpc[t] \in {"scan", "isupd", "wait"}

Values == {0, clock, lastSafe, pLastSafe} \cup {ts[t].v : t \in Threads}
          \cup {flushed[t] : t \in Threads} \cup {x.v : x \in hist}
          \cup {rcv[t] : t \in {u \in Threads : RcvLive(u)}}
          \cup {oldVal[t] : t \in {u \in Threads : OldLive(u)}}

PcwmView ==
    LET vals == Values
        rank(v) == Cardinality({w \in vals : w < v})
    IN  <<hpc, cpc, budget, sgl, begun, isUpdate,
          rank(clock), rank(lastSafe), rank(pLastSafe),
          [t \in Threads |->
             <<rank(ts[t].v), ts[t].done, rank(flushed[t]),
               IF RcvLive(t) THEN <<rank(rcv[t]), size[t]>> ELSE <<>>,
               IF OldLive(t) THEN <<rank(oldVal[t]), success[t]>> ELSE <<>>,
               IF WaitLive(t) THEN <<scan[t], waiting[t], jump[t]>> ELSE <<>>,
               {<<x.t, rank(x.v)>> : x \in need[t]}>>],
          {<<x.t, rank(x.v), x.size, x \in marked, x \in entries,
             x \in durable, x \in acked>> : x \in hist}>>
=============================================================================
