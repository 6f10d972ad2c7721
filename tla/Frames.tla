------------------------------- MODULE Frames -------------------------------
(***************************************************************************)
(* From the microphone to the wire: the resampler of the audio worklet     *)
(* (apps/web/lib/studio/worklet.ts) and the binary frames its samples      *)
(* travel in (packages/contracts/src/audio.ts, lib/studio/mic.ts).         *)
(*                                                                         *)
(* There is no state here: Process is one call of the worklet, from what   *)
(* it has kept to what it keeps, and Frame one frame.  A sample is its     *)
(* place in the stream; the device's rate over the wire's is Num / Den,    *)
(* and places are counted in parts of 1/Den, so that a sample between two  *)
(* of the device's is a whole number.  Amplitudes are left out.            *)
(***************************************************************************)
EXTENDS Integers, Sequences, SequencesExt

-----------------------------------------------------------------------------
(* The worklet                                                             *)

\* The samples made of `given` samples of which the first is read at `cursor`: as long as
\* there is one more to interpolate with.
Made(given, cursor, num, den) ==
  LET room == (given - 1) * den - cursor
  IN  IF room <= 0 THEN 0 ELSE (room + num - 1) \div num

\* Where the next sample would be.
EndsAt(given, cursor, num, den) == cursor + Made(given, cursor, num, den) * num

\* Pcm16Downsampler, as constructed.
Opened == [tail |-> <<>>, cursor |-> 0, filled |-> 0, made |-> <<>>, sent |-> 0]

\* process(): `made` are the places of the samples made, `sent` the frames posted.
Process(kept, block, num, den, frameSamples) ==
  LET merged == kept.tail \o block
      n      == Made(Len(merged), kept.cursor, num, den)
      place(i) == LET pos == kept.cursor + (i - 1) * num
                  IN  merged[pos \div den + 1] * den + (pos % den)
      pos    == EndsAt(Len(merged), kept.cursor, num, den)
      consumed == pos \div den
  IN  IF block = <<>> THEN kept
      ELSE [tail   |-> SubSeq(merged, consumed + 1, Len(merged)),
            cursor |-> pos - consumed * den,
            filled |-> (kept.filled + n) % frameSamples,
            made   |-> kept.made \o [i \in 1..n |-> place(i)],
            sent   |-> kept.sent + (kept.filled + n) \div frameSamples]

-----------------------------------------------------------------------------
(* The wire: bytes, the first of which is the least of a number            *)

Byte == 256
HeaderBytes == 5   \* AUDIO_FRAME_HEADER_BYTES
Kind == 1          \* AUDIO_FRAME_KIND

\* encodeAudioFrame()
EncodeAudioFrame(seq, pcm) ==
  <<Kind, seq % Byte, (seq \div Byte) % Byte, (seq \div 65536) % Byte,
    (seq \div 16777216) % Byte>> \o pcm

\* decodeAudioFrame(): a set of at most one frame.
DecodeAudioFrame(buf) ==
  IF Len(buf) <= HeaderBytes \/ buf[1] # Kind THEN {}
  ELSE {[seq |-> buf[2] + Byte * (buf[3] + Byte * (buf[4] + Byte * buf[5])),
         pcm |-> SubSeq(buf, HeaderBytes + 1, Len(buf))]}
=============================================================================
