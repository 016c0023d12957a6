----------------------------- MODULE AtLeastOnce -----------------------------
(***************************************************************************)
(* What the outbox promises to the consumers of the stream, with no        *)
(* tables, workers or processes in it.  Events have a current version that *)
(* their source replaces at any time; consumers receive versions, any      *)
(* number of times; a sink may record an event as delivered only when its  *)
(* consumer received the version that is current, and only a new version   *)
(* takes that record back.                                                 *)
(***************************************************************************)
CONSTANTS Events, Payloads, Sinks, None

VARIABLES
  version,  \* the current version of each event
  got,      \* the versions each consumer received
  acked     \* acked[s][e]: sink s records e as delivered

Init ==
  /\ version = [e \in Events |-> None]
  /\ got = [s \in Sinks |-> [e \in Events |-> {}]]
  /\ acked = [s \in Sinks |-> [e \in Events |-> FALSE]]

(* The source replaces the versions of some events, all at once. *)
Publish ==
  \E new \in [Events -> Payloads \cup {None}] :
    /\ \A e \in Events : new[e] = None => version[e] = None
    /\ version' = new
    /\ acked' = [s \in Sinks |-> [e \in Events |-> acked[s][e] /\ new[e] = version[e]]]
    /\ UNCHANGED got

Deliver(s, e, v) ==
  /\ got' = [got EXCEPT ![s][e] = @ \cup {v}]
  /\ UNCHANGED <<version, acked>>

Ack(s, e) ==
  /\ version[e] \in got[s][e]
  /\ acked' = [acked EXCEPT ![s][e] = TRUE]
  /\ UNCHANGED <<version, got>>

Next ==
  \/ Publish
  \/ \E s \in Sinks, e \in Events :
       \/ \E v \in Payloads : Deliver(s, e, v)
       \/ Ack(s, e)

Spec == Init /\ [][Next]_<<version, got, acked>>
=============================================================================
