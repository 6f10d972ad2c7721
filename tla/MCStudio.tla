----------------------------- MODULE MCStudio ------------------------------
(***************************************************************************)
(* Two presses of START; and the sound that is sent, of devices of the     *)
(* wire's rate and of one and a half, two and three times that (16, 24, 32 *)
(* and 48 kHz), in blocks of every size.                                   *)
(***************************************************************************)
EXTENDS Studio, Frames, FiniteSetsExt

Rates == {<<1, 1>>, <<3, 2>>, <<2, 1>>, <<1, 2>>}

\* Blocks of the given sizes, of a stream that is numbered from 0.
Blocks(sizes) ==
  LET before(n) == FoldLeft(LAMBDA a, b : a + b, 0, SubSeq(sizes, 1, n - 1))
  IN  [n \in 1..Len(sizes) |-> [i \in 1..sizes[n] |-> before(n) + i - 1]]

Sampled(sizes, num, den) ==
  FoldLeft(LAMBDA kept, block : Process(kept, block, num, den, 4), Opened, Blocks(sizes))

Total(sizes) == FoldLeft(LAMBDA a, b : a + b, 0, sizes)

\* Up to twice the wire's rate, where the device's blocks end does not matter: the samples
\* are those of the stream in one piece, evenly apart, and whole frames are sent
\* (worklet.ts:4-11, 36-61).
ASSUME SeamsAreSilent ==
  \A rate \in Rates, sizes \in BoundedSeq({0, 1, 2, 3, 5}, 4) :
    LET run == Sampled(sizes, rate[1], rate[2])
    IN  /\ run.made = Sampled(<<Total(sizes)>>, rate[1], rate[2]).made
        /\ \A i \in 1..Len(run.made) : run.made[i] = (i - 1) * rate[1]
        /\ 4 * run.sent + run.filled = Len(run.made)

\* Above twice the rate the place of the next sample may lie past the block, and what it
\* has over is forgotten: of blocks of 128 samples at 48 kHz every one is begun at its first
\* sample, and 43 samples are sent for 42 and two thirds (worklet.ts:59-61, where 41-57 end).
ASSUME FastDevicesRunAhead ==
  LET run == Sampled([n \in 1..6 |-> 128], 3, 1)
  IN  /\ Len(run.made) = 6 * 43
      /\ \A n \in 0..5 : run.made[43 * n + 1] = 128 * n

\* What a studio has encoded the relay reads, and an empty frame is none
\* (audio.ts:24-40, mic.ts:57-63).
ASSUME FramesAreRead ==
  \A seq \in {0, 1, 255, 256, 65535, 65536, 2147483647}, pcm \in BoundedSeq({0, 1, 255}, 3) :
    DecodeAudioFrame(EncodeAudioFrame(seq, pcm)) =
      IF pcm = <<>> THEN {} ELSE {[seq |-> seq, pcm |-> pcm]}
=============================================================================
