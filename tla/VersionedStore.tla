--------------------------- MODULE VersionedStore ---------------------------
(***************************************************************************)
(* What one series of a segment store promises: a map from timestamps to   *)
(* values, in which each batch lands as a whole, at most once, over the    *)
(* batches that landed before it; and a batch whose seal returned stays.   *)
(* Segments, frames, maintenance, crashes and recovery do not show.        *)
(***************************************************************************)
CONSTANTS
  Batches,  \* the batches handed to a seal
  Times,    \* the timestamps
  Values,   \* the values, Null among them
  Missing,  \* what a timestamp without a row has
  Content   \* batch -> timestamp -> value, a function on some of Times

VARIABLES
  store,   \* timestamp -> the newest row's value
  landed,  \* the batches that are in the store
  acked    \* the batches whose seal returned their descriptor

storeVars == <<store, landed, acked>>

StoreInit ==
  /\ store = [t \in Times |-> Missing]
  /\ landed = {}
  /\ acked = {}

\* The batch lands; its caller may or may not come to know.
Land(b) ==
  /\ b \notin landed
  /\ landed' = landed \cup {b}
  /\ store' = [t \in Times |-> IF t \in DOMAIN Content[b] THEN Content[b][t] ELSE store[t]]
  /\ acked' \in {acked, acked \cup {b}}

StoreSpec == StoreInit /\ [][\E b \in Batches : Land(b)]_storeVars
=============================================================================
