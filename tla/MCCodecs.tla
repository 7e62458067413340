------------------------------ MODULE MCCodecs ------------------------------
(***************************************************************************)
(* The codecs over bounded inputs.  A state is one input: the first step   *)
(* picks it, and the two properties say that what is encoded is decoded    *)
(* again, at the lengths and the distortions where a codec could go wrong. *)
(***************************************************************************)
EXTENDS IrCodec, NfcCodec

VARIABLE pick

------------------------------------------------------------------------------
(* The infrared inputs.                                                          *)

Bytes == {0, 1, 42, 127, 128, 170, 255}

FramesToSend ==
       {IrFrame(p, a, c) : p \in {"NEC", "RC6"}, a \in Bytes, c \in Bytes}
  \cup {IrFrame("NECX", a, c) : a \in {0, 1, 255, 256, 43605, 65280, 65535}, c \in Bytes}
  \cup {[IrFrame("RC6", a, c) EXCEPT !.toggle = 1] : a \in Bytes, c \in Bytes}
  \cup {[IrFrame("RC5", a, c) EXCEPT !.toggle = b] : a \in {0, 1, 10, 21, 31},
                                                     c \in {0, 1, 42, 63, 64, 85, 127}, b \in 0 .. 1}
  \cup {IrFrame(p, a, c) : p \in DOMAIN SircBits, a \in {0, 1, 21, 31, 85, 255, 2730, 8191},
                           c \in {0, 1, 42, 64, 85, 127}}
  \cup {NecRepeat}

\* How far a receiver may be off, in percent of every mark and space.
Scales == {80, 90, 100, 110, 120}
Scaled(t, percent) == [i \in DOMAIN t |-> (t[i] * percent) \div 100]

\* The durations around one and two halves of a symbol.
Durations == {1, 32766, 32767, 32768, 65534, 65535}

\* An extended address whose bytes are complements is the same frame as a plain one.
Canonical(f) ==
  IF f.protocol = "NECX" /\ (f.address % 256) + (f.address \div 256) = 255
  THEN IrFrame("NEC", f.address % 256, f.command) ELSE f

------------------------------------------------------------------------------
(* The NFC inputs.                                                               *)

Same(b, n) == [i \in 1 .. n |-> b]

RecordsToSend ==
  {Record(tnf, type, id, Same(7, n)) :
     tnf \in {0, 1, 5, 6}, type \in {<< >>, <<84>>}, id \in {<< >>, <<9>>}, n \in {0, 1, 255, 256}}

Messages == {<<r>> : r \in RecordsToSend}
  \cup {<<r, s>> : r, s \in {x \in RecordsToSend : x.tnf = 1 /\ Len(x.payload) \in {1, 256}}}
  \cup {[i \in 1 .. n |-> Record(1, <<84>>, << >>, <<i>>)] : n \in {8, 9}}

\* What the abbreviations of addresses look like, one number standing for a part of a scheme.
Abbreviations == <<<< >>, <<1, 2>>, <<1, 3>>, <<1>>, <<5, 6>>, <<5>>, <<8>>, <<8, 9, 10>>, <<8, 9>>>>
Addresses == UNION {[1 .. n -> {1, 2, 5, 8, 9, 10}] : n \in 1 .. 3}

\* Areas of TLVs, cut to what the tag says it holds: padding, a lock control TLV, a
\* proprietary one with a long length, a message of some length, the end.
Tlvs == {<<0>>, <<1, 3, 160, 12, 52>>, <<253, 255, 0, 2, 9, 9>>, <<254>>}
        \cup {<<3, n>> \o Same(7, n) : n \in {0, 1, 9, 20}} \cup {<<3, 255, 1, 0>> \o Same(7, 256)}
Areas == {Slice(all \o Same(0, total), 0, total) :
            all \in {a \o b \o c : a \in Tlvs, b \in Tlvs, c \in Tlvs}, total \in {8, 16, 40}}

\* The capability container of a tag of so many bytes.
Container(bytes) == <<225, 16, bytes \div 8, 0>>

Chip(n) == <<213, 75>> \o [i \in 1 .. n |-> (37 * i) % 256]
Bodies == {<<213, 3>>, <<213, 0>>, Chip(1), Chip(9), Chip(60)}

\* Where a frame of n bytes is damaged: around its head and at its end.
Edges(n) == {i \in 1 .. n : i <= 8 \/ i > n - 3}

Dumps == {[uid |-> Same(4, n), atqa |-> 68, sak |-> 0, tech |-> tech,
           mem |-> [i \in 1 .. pages |-> <<i, 0, 255, 1>>]] :
            n \in {4, 7, 10}, tech \in {"NTAG216", "CLASSIC_MINI"}, pages \in {0, 1, 11, 45}}

Pick ==
  \/ \E f \in FramesToSend, s \in Scales : pick' = <<"frame", f, s>>
  \/ \E n \in 1 .. 3 : \E t \in [1 .. n -> Durations] : pick' = <<"symbols", t>>
  \/ \E m \in Messages : pick' = <<"ndef", m>>
  \/ \E l \in {1, 2, 63, 64}, n \in {0, 1, 255, 807, 808, 872} : pick' = <<"text", Same(101, l), Same(120, n)>>
  \/ \E u \in Addresses : pick' = <<"uri", u>>
  \/ \E a \in Areas : pick' = <<"area", a>>
  \/ \E k \in {1, 2, 5, 31, 32, 33, 34, 109}, over \in -1 .. 1 : pick' = <<"message", 8 * k, over>>
  \/ \E b \in Bodies : \E i \in Edges(Len(FrameBuild(b))), add \in {0, 1, 128, 255} : pick' = <<"damage", b, i, add>>
  \/ \E d \in Dumps, cap \in {32, 256} : pick' = <<"dump", d, cap>>

Init == pick = <<"none">>
Next == pick = <<"none">> /\ Pick

------------------------------------------------------------------------------
(* The properties.                                                               *)

\* Every frame that can be encoded is decoded as itself, by the whole dispatch and with every
\* duration off by up to a fifth; as symbols and as a .ir file it comes back the same.
FrameInverts(f, scale) ==
  LET t == Scaled(IrEncode(f), scale)
  IN t # << >> => /\ IrDecode(t) = Canonical(f)
                  /\ FromSymbols(ToSymbols(t, 64)) = t
                  /\ RawParse(RawFormat(Signal(t, CarrierOf(f.protocol)))) = Signal(t, CarrierOf(f.protocol))

\* The infrared codecs invert one another (ir_encode/ir_decode, the symbols of the RMT, the
\* files of the remote), for the frames, durations and distortions listed above.
IrCodecsInvert ==
  CASE pick[1] = "frame"   -> FrameInverts(pick[2], pick[3])
    [] pick[1] = "symbols" -> FromSymbols(ToSymbols(pick[2], 64)) = pick[2]
    [] OTHER               -> TRUE

\* A message is parsed as what was encoded, and cut short anywhere it is refused.
NdefInverts(m) ==
  LET buf == NdefEncode(m, NdefMax)
      cuts == (0 .. 8 \cup {Len(buf) - 1, Len(buf) - 2}) \cap (0 .. Len(buf) - 1)
  IN buf # << >> => /\ NdefParse(buf) = m
                    /\ \A n \in cuts : NdefParse(Slice(buf, 0, n)) = << >>

\* Reading as the pages come in finds what the whole area holds, and always asks for more than
\* it has.
ReadingAgrees(area) ==
  LET whole == NdefTlv(area, Len(area), Len(area))
      read == NdefRead(Container(Len(area)), area)
  IN /\ read.is = whole.is
     /\ whole.is = "found" => read.msg = Slice(area, whole.off, whole.len)

\* The capacity told for a tag is exact: a message of so many bytes fits and is read again,
\* one of one more does not.
CapacityIsExact(bytes, over) ==
  LET msg == Same(7, NdefCapacity(bytes) + over)
      all == TlvBytes(msg)
  IN NdefCapacity(bytes) + over >= 0 =>
       IF over > 0 THEN Len(all) > bytes
       ELSE /\ Len(all) <= bytes
            /\ NdefRead(Container(bytes), all \o Fill(3, bytes - Len(all))) = [is |-> "found", msg |-> msg]

\* A frame with one byte changed is never taken for an answer; one that is not is taken.
DamageIsSeen(body, i, add) ==
  LET frame == FrameBuild(body)
      got == FrameParse([frame EXCEPT ![i] = (@ + add) % 256])
  IN IF add = 0 THEN got = [is |-> "data", body |-> body] ELSE got.is \notin {"data", "ack", "nack"}

\* Chunk by chunk a dump is written whole, no chunk too long or empty, and parsed as itself.
DumpInverts(d, cap) ==
  LET chunks == DumpChunks(d, cap)
      size(c) == FoldLeft(LAMBDA n, line : n + LineLen(line), 0, c)
  IN /\ \A i \in DOMAIN chunks : chunks[i] # << >> /\ size(chunks[i]) < cap
     /\ DumpParse(FlattenSeq(chunks)) = d

TextInverts(lang, text) ==
  LET r == TextMake(lang, text) IN r = NdefBad \/ TextGet(r) = <<lang, text>>

\* What the NFC codecs write they read back, and what was cut or damaged they refuse (ndef.c,
\* nfc_type2.c, pn532_frame.c, nfc_dump.c), for the inputs listed above.
NfcCodecsInvert ==
  CASE pick[1] = "ndef"    -> NdefInverts(pick[2])
    [] pick[1] = "text"    -> TextInverts(pick[2], pick[3])
    [] pick[1] = "uri"     -> UriGet(UriMake(pick[2], Abbreviations), Abbreviations) = pick[2]
    [] pick[1] = "area"    -> ReadingAgrees(pick[2])
    [] pick[1] = "message" -> CapacityIsExact(pick[2], pick[3])
    [] pick[1] = "damage"  -> DamageIsSeen(pick[2], pick[3], pick[4])
    [] pick[1] = "dump"    -> DumpInverts(pick[2], pick[3])
    [] OTHER               -> TRUE

==============================================================================
