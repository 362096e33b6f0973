---------------------------- MODULE EventStream ----------------------------
(***************************************************************************)
(* What a stream of events promises the command that reads it: the events  *)
(* of a file come one at a time and in their order, none before no byte    *)
(* to come can change it, and only a stream that could not be read, or was *)
(* left, withholds one.  A stream that can yield no more is over when it   *)
(* is asked for more.  LineReader implements it.                           *)
(***************************************************************************)
EXTENDS Naturals, SequencesExt

CONSTANTS
  Settled(_, _),   \* the events that no byte after these can change
  Whole(_, _)      \* the events there are if these are all the bytes

VARIABLES
  format,    \* how the file is read; it never changes
  read,      \* the bytes read so far
  yielded,   \* the events the consumer was given
  ended      \* "no"; "last", when no event is left; "whole", at the end or at
             \* what is no event; "broken", when reading failed; "left", by the
             \* consumer

streamVars == <<format, read, yielded, ended>>

Init == read = << >> /\ yielded = << >> /\ ended = "no"

Read ==
  /\ ended = "no"
  /\ IsPrefix(read, read')
  /\ UNCHANGED <<format, yielded, ended>>

Yield ==
  /\ ended = "no"
  /\ Len(yielded) < Len(Settled(format, read))
  /\ yielded' = Append(yielded, Settled(format, read)[Len(yielded) + 1])
  /\ UNCHANGED <<format, read, ended>>

(* The end of the bytes settles what is left: one event at most. *)
Final ==
  /\ ended = "no"
  /\ ended' = "last"
  /\ yielded' = Whole(format, read)
  /\ Len(yielded') <= Len(yielded) + 1
  /\ UNCHANGED <<format, read>>

End ==
  /\ ended \in {"no", "last"}
  /\ yielded = Whole(format, read)
  /\ ended' = "whole"
  /\ UNCHANGED <<format, read, yielded>>

Break ==
  /\ ended = "no"
  /\ ended' = "broken"
  /\ IsPrefix(read, read')
  /\ UNCHANGED <<format, yielded>>

(* The consumer leaves while it has an event. *)
Leave ==
  /\ ended \in {"no", "last"}
  /\ yielded # << >>
  /\ ended' = "left"
  /\ UNCHANGED <<format, read, yielded>>

Next == Read \/ Yield \/ Final \/ End \/ Break \/ Leave

Spec == Init /\ [][Next]_streamVars
=============================================================================
