---------------------------- MODULE FrameCursor ----------------------------
(***************************************************************************)
(* The frame position of a cross-pool WebSocket tunnel                     *)
(* (pool-server/websocket-frame-cursor.ts).  A cursor watches the          *)
(* client-bound bytes a tunnel relays and answers whether the client is    *)
(* between two frames.  Bytes are naturals below 256; MaxSafeInteger       *)
(* stands for Number.MAX_SAFE_INTEGER.                                     *)
(***************************************************************************)
EXTENDS Naturals, Sequences, SequencesExt

CONSTANT MaxSafeInteger

Byte == 0..255

Fresh == [trackable |-> TRUE, remaining |-> 0, header |-> << >>,
          closeRelayed |-> FALSE, relayStopped |-> FALSE]

(***************************************************************************)
(* The 64-bit length, counted as far as a JavaScript number can: 0 upwards *)
(* or MaxSafeInteger + 1 for "too long".                                   *)
(***************************************************************************)
ExtendedLength(bytes) ==
  FoldLeft(LAMBDA acc, b: IF acc > MaxSafeInteger THEN acc
                          ELSE IF acc * 256 + b > MaxSafeInteger
                               THEN MaxSafeInteger + 1 ELSE acc * 256 + b,
           0, bytes)

(***************************************************************************)
(* parseFrameHeader: the length the header promises and whether it opens a *)
(* close frame; a set mask bit or an uncountable length is untrackable.    *)
(***************************************************************************)
ParseFrameHeader(h) ==
  LET close == h[1] % 16 = 8
      len7 == h[2] % 128
      done(n) == [kind |-> "frame", length |-> n, close |-> close]
  IN IF Len(h) < 2 THEN [kind |-> "incomplete"]
     ELSE IF h[2] >= 128 THEN [kind |-> "untrackable"]
     ELSE IF len7 < 126 THEN done(len7)
     ELSE IF len7 = 126
          THEN IF Len(h) < 4 THEN [kind |-> "incomplete"] ELSE done(h[3] * 256 + h[4])
     ELSE IF Len(h) < 10 THEN [kind |-> "incomplete"]
     ELSE LET n == ExtendedLength(SubSeq(h, 3, 10))
          IN IF n > MaxSafeInteger THEN [kind |-> "untrackable"] ELSE done(n)

(***************************************************************************)
(* observe: payload bytes are skipped (the bulk skip, byte by byte), other *)
(* bytes are collected until they make a header.                           *)
(***************************************************************************)
ObserveByte(c, b) ==
  IF ~c.trackable THEN c
  ELSE IF c.remaining > 0 THEN [c EXCEPT !.remaining = @ - 1]
  ELSE LET h == Append(c.header, b)
           p == ParseFrameHeader(h)
       IN CASE p.kind = "incomplete"  -> [c EXCEPT !.header = h]
            [] p.kind = "untrackable" -> [c EXCEPT !.trackable = FALSE]
            [] p.kind = "frame"       -> [c EXCEPT !.remaining = p.length, !.header = << >>,
                                                   !.closeRelayed = @ \/ p.close]

Observe(c, chunk) == FoldLeft(ObserveByte, c, chunk)

AtFrameBoundary(c) ==
  /\ c.trackable
  /\ ~c.relayStopped
  /\ ~c.closeRelayed
  /\ c.remaining = 0
  /\ c.header = << >>

StopRelay(c) == [c EXCEPT !.relayStopped = TRUE]
=============================================================================
