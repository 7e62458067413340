------------------------------- MODULE IrCodec -------------------------------
(***************************************************************************)
(* The infrared codecs (stark_ir/ir_nec.c, ir_sirc.c, ir_rc5.c, ir_rc6.c,  *)
(* the dispatch of ir_codec.c), the RMT symbol words (ir_symbols.c) and    *)
(* the .ir files (ir_raw.c) as functions.  Timings are sequences of        *)
(* microseconds, mark first; << >> stands for a refused encoding.  A .ir   *)
(* file is its lines, a line its tokens: the spelling is left out.         *)
(***************************************************************************)
EXTENDS Integers, Sequences, SequencesExt

MaxTimings == 256

Bit(w, i) == (w \div 2^i) % 2
FromMsb(bits) == FoldLeft(LAMBDA v, b : 2 * v + b, 0, bits)
FromLsb(bits) == FromMsb(Reverse(bits))
Bits(w, n) == [i \in 1 .. n |-> Bit(w, i - 1)]

\* ir_match(): within 25 %, or within 60 us where that is more.
Matches(us, nominal) ==
  LET pct == (nominal * 25) \div 100
      tol == IF pct < 60 THEN 60 ELSE pct
  IN us >= (IF nominal > tol THEN nominal - tol ELSE 0) /\ us <= nominal + tol

IrFrame(p, a, c) == [protocol |-> p, address |-> a, command |-> c, repeat |-> FALSE, toggle |-> 0]
RawFrame == IrFrame("UNKNOWN", 0, 0)
NecRepeat == [IrFrame("NEC", 0, 0) EXCEPT !.repeat = TRUE]

------------------------------------------------------------------------------
(* NEC and NEC extended: four bytes, least significant bit first.                *)

NecBytes(f) ==
  <<f.address % 256, IF f.protocol = "NEC" THEN 255 - f.address ELSE f.address \div 256,
    f.command, 255 - f.command>>

NecEncode(f) ==
  IF f.repeat THEN <<9000, 2250, 560>>
  ELSE IF f.command > 255 \/ (f.protocol = "NEC" /\ f.address > 255) THEN << >>
  ELSE LET bits == FlattenSeq([b \in 1 .. 4 |-> Bits(NecBytes(f)[b], 8)])
       IN <<9000, 4500>> \o FlattenSeq([i \in 1 .. 32 |-> <<560, IF bits[i] = 1 THEN 1690 ELSE 560>>])
          \o <<560>>

NecDecode(t) ==
  LET bit(i) == IF Matches(t[2 * i + 2], 1690) THEN 1 ELSE 0
      byte(b) == FromLsb([i \in 1 .. 8 |-> bit(8 * b + i)])
      good == /\ Len(t) = 67
              /\ Matches(t[1], 9000) /\ Matches(t[2], 4500) /\ Matches(t[67], 560)
              /\ \A i \in 1 .. 32 : /\ Matches(t[2 * i + 1], 560)
                                    /\ Matches(t[2 * i + 2], 1690) \/ Matches(t[2 * i + 2], 560)
              /\ byte(2) + byte(3) = 255
  IN IF Len(t) = 3 /\ Matches(t[1], 9000) /\ Matches(t[2], 2250) /\ Matches(t[3], 560) THEN NecRepeat
     ELSE IF ~good THEN RawFrame
     ELSE IF byte(0) + byte(1) = 255 THEN IrFrame("NEC", byte(0), byte(2))
     ELSE IrFrame("NECX", byte(0) + 256 * byte(1), byte(2))

------------------------------------------------------------------------------
(* Sony SIRC: the number of bits is the variant.                                 *)

SircBits == [p \in {"SIRC12", "SIRC15", "SIRC20"} |->
               CASE p = "SIRC12" -> 12 [] p = "SIRC15" -> 15 [] p = "SIRC20" -> 20]

SircEncode(f) ==
  LET n == SircBits[f.protocol]
      bits == Bits(f.command + 128 * f.address, n)
  IN IF f.command > 127 \/ f.address >= 2^(n - 7) THEN << >>
     ELSE <<2400>> \o FlattenSeq([i \in 1 .. n |-> <<600, IF bits[i] = 1 THEN 1200 ELSE 600>>])

SircDecode(t) ==
  LET kinds == {p \in DOMAIN SircBits : Len(t) = 1 + 2 * SircBits[p]}
      good(n) == /\ Matches(t[1], 2400)
                 /\ \A i \in 1 .. n : /\ Matches(t[2 * i], 600)
                                      /\ Matches(t[2 * i + 1], 1200) \/ Matches(t[2 * i + 1], 600)
      word(n) == FromLsb([i \in 1 .. n |-> IF Matches(t[2 * i + 1], 1200) THEN 1 ELSE 0])
  IN IF kinds = {} THEN RawFrame
     ELSE LET p == CHOOSE k \in kinds : TRUE
              n == SircBits[p]
          IN IF good(n) THEN IrFrame(p, word(n) \div 128, word(n) % 128) ELSE RawFrame

------------------------------------------------------------------------------
(* The bi-phase codes: half bits, 1 for mark; a space at either end is not seen. *)

\* ir_biphase_emit(): runs of equal halves, without the spaces at the ends.
Emit(halves, unit) ==
  LET add(runs, h) == IF runs = << >> /\ h = 0 THEN runs
                      ELSE IF runs # << >> /\ Last(runs).level = h
                        THEN [runs EXCEPT ![Len(runs)].n = @ + 1]
                      ELSE Append(runs, [level |-> h, n |-> 1])
      runs == FoldLeft(add, << >>, halves)
      seen == IF runs # << >> /\ Last(runs).level = 0 THEN Front(runs) ELSE runs
  IN [i \in DOMAIN seen |-> seen[i].n * unit]

\* ir_biphase_expand(): the halves of the timings from an offset, a mark first; << >>
\* when one is no multiple of the unit, or there are too many.
Expand(t, from, unit, maxRun, most) ==
  LET run(i) == (t[i] + unit \div 2) \div unit
      all == FlattenSeq([i \in 1 .. Len(t) - from |->
                           [j \in 1 .. run(from + i) |-> i % 2]])
  IN IF \A i \in from + 1 .. Len(t) : run(i) \in 1 .. maxRun /\ Matches(t[i], run(i) * unit)
     THEN IF Len(all) <= most THEN all ELSE << >>
     ELSE << >>

Pairs(halves) == [i \in 1 .. Len(halves) \div 2 |-> <<halves[2 * i - 1], halves[2 * i]>>]

Rc5Encode(f) ==
  LET field == IF f.command >= 64 THEN 0 ELSE 1
      bits == <<1, field, f.toggle>> \o Reverse(Bits(f.address, 5)) \o Reverse(Bits(f.command % 64, 6))
  IN IF f.address > 31 \/ f.command > 127 \/ f.toggle > 1 THEN << >>
     ELSE Emit(FlattenSeq([i \in 1 .. 14 |-> <<1 - bits[i], bits[i]>>]), 889)

Rc5Decode(t) ==
  LET seen == IF t = << >> THEN << >> ELSE Expand(t, 0, 889, 2, 28)
      halves == <<0>> \o seen \o (IF Len(seen) = 26 THEN <<0>> ELSE << >>)
      bits == [i \in 1 .. 14 |-> Pairs(halves)[i][2]]
  IN IF seen = << >> \/ Len(halves) # 28 \/ \E i \in 1 .. 14 : Pairs(halves)[i][1] = Pairs(halves)[i][2]
     THEN RawFrame
     ELSE [IrFrame("RC5", FromMsb(SubSeq(bits, 4, 8)),
                   FromMsb(SubSeq(bits, 9, 14)) + IF bits[2] = 1 THEN 0 ELSE 64)
             EXCEPT !.toggle = bits[3]]

\* Start bit, mode 000, the double-length toggle, 16 bits.
Rc6Encode(f) ==
  LET bits == Reverse(Bits(f.address, 8)) \o Reverse(Bits(f.command, 8))
      trailer == <<f.toggle, f.toggle, 1 - f.toggle, 1 - f.toggle>>
  IN IF f.address > 255 \/ f.command > 255 \/ f.toggle > 1 THEN << >>
     ELSE <<2666, 889>>
          \o Emit(<<1, 0, 0, 1, 0, 1, 0, 1>> \o trailer
                  \o FlattenSeq([i \in 1 .. 16 |-> <<bits[i], 1 - bits[i]>>]), 444)

Rc6Parse(t, unit) ==
  LET seen == Expand(t, 2, unit, 3, 44)
      h == seen \o (IF Len(seen) = 43 THEN <<0>> ELSE << >>)
      bits == [i \in 1 .. 16 |-> h[2 * i + 11]]
      good == /\ Len(h) = 44 /\ SubSeq(h, 1, 8) = <<1, 0, 0, 1, 0, 1, 0, 1>>
              /\ h[9] = h[10] /\ h[11] = h[12] /\ h[9] # h[11]
              /\ \A i \in 7 .. 22 : h[2 * i - 1] # h[2 * i]
  IN IF ~good THEN RawFrame
     ELSE [IrFrame("RC6", FromMsb(SubSeq(bits, 1, 8)), FromMsb(SubSeq(bits, 9, 16)))
             EXCEPT !.toggle = h[9]]

\* Slip: the unit is always the nominal one.
Rc6DecodeSlip(t) ==
  IF Len(t) >= 3 /\ Matches(t[1], 2666) /\ Matches(t[2], 889) THEN Rc6Parse(t, 444) ELSE RawFrame

\* The nominal unit first; then the one both parts of the leader agree on.
Rc6Decode(t) ==
  LET nominal == IF Matches(t[1], 2666) /\ Matches(t[2], 889) THEN Rc6Parse(t, 444) ELSE RawFrame
      mark == t[1] \div 6
      space == t[2] \div 2
      unit == (t[1] + t[2]) \div 8
      apart == IF mark > space THEN mark - space ELSE space - mark
  IN IF Len(t) < 3 THEN RawFrame
     ELSE IF nominal # RawFrame THEN nominal
     ELSE IF apart * 10 > unit \/ ~Matches(unit, 444) THEN RawFrame
     ELSE Rc6Parse(t, unit)

------------------------------------------------------------------------------
\* ir_encode() and ir_decode(): the leaders that cannot be mistaken first, RC5 last.
IrEncode(f) ==
  CASE f.protocol \in {"NEC", "NECX"} -> NecEncode(f)
    [] f.protocol = "RC5"             -> Rc5Encode(f)
    [] f.protocol = "RC6"             -> Rc6Encode(f)
    [] f.protocol \in DOMAIN SircBits -> SircEncode(f)
    [] OTHER                          -> << >>

IrDecode(t) ==
  LET tries == SelectSeq(<<NecDecode(t), Rc6Decode(t), SircDecode(t), Rc5Decode(t)>>,
                         LAMBDA f : f # RawFrame)
  IN IF tries = << >> THEN RawFrame ELSE Head(tries)

CarrierOf(p) ==
  CASE p \in {"RC5", "RC6"}      -> 36000
    [] p \in DOMAIN SircBits     -> 40000
    [] OTHER                     -> 38000

------------------------------------------------------------------------------
(* RMT symbols: halves of at most 32767 us with their level, two to a word.      *)

MaxHalf == 32767

HalvesOf(us, level) ==
  LET n == (us + MaxHalf - 1) \div MaxHalf
  IN [i \in 1 .. n |-> [level |-> level, us |-> IF i < n THEN MaxHalf ELSE us - (n - 1) * MaxHalf]]

\* ir_timings_to_symbols(): << >> when the words do not suffice.
ToSymbols(t, words) ==
  LET halves == FlattenSeq([i \in DOMAIN t |-> HalvesOf(t[i], i % 2)])
  IN IF (Len(halves) + 1) \div 2 <= words THEN halves ELSE << >>

\* ir_symbols_to_timings(): up to the end marker, runs of one level summed.
FromSymbols(halves) ==
  LET ends == {i \in DOMAIN halves : halves[i].us = 0}
      upto == IF ends = {} THEN Len(halves) ELSE (CHOOSE i \in ends : \A j \in ends : i <= j) - 1
      add(runs, h) == IF runs # << >> /\ Last(runs).level = h.level
                      THEN [runs EXCEPT ![Len(runs)].us = @ + h.us] ELSE Append(runs, h)
      runs == FoldLeft(add, << >>, SubSeq(halves, 1, upto))
  IN IF Len(runs) > MaxTimings \/ \E i \in DOMAIN runs : runs[i].us > 65535 THEN << >>
     ELSE [i \in DOMAIN runs |-> runs[i].us]

------------------------------------------------------------------------------
(* The .ir file.                                                                 *)

Signal(t, hz) == [timings |-> t, carrier |-> hz, frame |-> IrDecode(t)]
NoSignal == [timings |-> << >>, carrier |-> 0, frame |-> RawFrame]

\* ir_raw_format()
RawFormat(s) ==
  <<<<"stark-ir", 1>>, <<"protocol", s.frame.protocol>>, <<"address", s.frame.address>>,
    <<"command", s.frame.command>>>>
  \o (IF s.frame.toggle = 1 THEN <<<<"toggle", 1>>>> ELSE << >>)
  \o (IF s.frame.repeat THEN <<<<"repeat", 1>>>> ELSE << >>)
  \o <<<<"carrier", s.carrier>>, <<"timings">> \o s.timings>>

\* One line of ir_raw_parse(): what it makes of the file so far; "bad" ends it.
RawLine(st, line) ==
  LET key == Head(line)
      nums == Tail(line)
  IN IF st.at = "bad" \/ line = << >> THEN st
     ELSE IF st.at = "start"
       THEN [st EXCEPT !.at = IF key = "stark-ir" /\ nums # << >> /\ nums[1] = 1 THEN "body" ELSE "bad"]
     ELSE IF key = "timings"
       THEN IF Len(nums) <= MaxTimings /\ \A i \in DOMAIN nums : nums[i] \in 1 .. 65535
            THEN [st EXCEPT !.timings = nums] ELSE [st EXCEPT !.at = "bad"]
     ELSE IF key = "carrier"
       THEN IF nums # << >> /\ nums[1] \in 20000 .. 60000 THEN [st EXCEPT !.carrier = nums[1]]
            ELSE [st EXCEPT !.at = "bad"]
     ELSE st

\* ir_raw_parse(): the frame is derived from the timings, never read.
RawParse(lines) ==
  LET st == FoldLeft(RawLine, [at |-> "start", timings |-> << >>, carrier |-> 0], lines)
      s == Signal(st.timings, st.carrier)
  IN IF st.at # "body" \/ st.timings = << >> THEN NoSignal
     ELSE IF st.carrier = 0 THEN [s EXCEPT !.carrier = CarrierOf(s.frame.protocol)] ELSE s

==============================================================================
