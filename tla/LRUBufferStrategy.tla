-------------------------- MODULE LRUBufferStrategy --------------------------
(***************************************************************************)
(* LRUBufferStrategy (storage/lru_buffer_strategy.cpp): access_order_ is a *)
(* list of frame numbers, most recently accessed first.  The operators     *)
(* take the list and return the list the call leaves (and, for Evict, the  *)
(* frame it returns); the buffer pool that calls them owns the variable.   *)
(***************************************************************************)
EXTENDS Sequences, SequencesExt

\* Mutant: Access puts the frame in front without removing its old entry.
AccessNoRemove(order, frame_no) == <<frame_no>> \o order

\* Mutant: Access appends the frame at the back (emplace_back).
AccessBack(order, frame_no) == SelectSeq(order, LAMBDA g : g # frame_no) \o <<frame_no>>

\* Access (5-10): remove every entry of frame_no, then emplace_front.
Access(order, frame_no) == <<frame_no>> \o SelectSeq(order, LAMBDA g : g # frame_no)

\* Evict (12-18): the frame at the back, which pop_back removes.  back() of
\* an empty list is undefined; the caller evicts only from a full pool.
EvictVictim(order) == Last(order)
Evict(order) == Front(order)
=============================================================================
