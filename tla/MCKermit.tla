------------------------------ MODULE MCKermit ------------------------------
(***************************************************************************)
(* The Kermit transfers TLC explores: a batch between classic Kermits, one   *)
(* file in a sliding window whose numbers wrap, the rest of a file kept from  *)
(* an earlier attempt, a stream in a window of one, and a batch too long for  *)
(* the receiver.  Streams in a larger window, which fail, have a run of their *)
(* own.                                                                     *)
(***************************************************************************)
EXTENDS Kermit

Windowed == [window |-> 2, chk |-> 3, attrs |-> TRUE, stream |-> FALSE, resend |-> TRUE]
Streaming == [Windowed EXCEPT !.window = 1, !.stream = TRUE]
NoAttrs == [Windowed EXCEPT !.attrs = FALSE, !.chk = 2]

Xfer(files, chunks, ours, theirs, partial, poke) ==
  [files |-> files, chunks |-> chunks, ours |-> ours, theirs |-> theirs,
   partial |-> partial, poke |-> poke]

MCTransfers ==
  {Xfer(3, 1, Windowed, Classic, 0, TRUE),
   Xfer(1, 6, NoAttrs, Windowed, 0, FALSE),
   Xfer(2, 2, Windowed, Windowed, 1, FALSE),
   Xfer(1, 3, Streaming, Streaming, 0, FALSE)}

\* What two gateways with their default settings agree on, with a small window.
WindowedStreams ==
  LET c == [Streaming EXCEPT !.window = 3] IN {Xfer(1, 2, c, c, 0, FALSE)}
=============================================================================
