------------------------------- MODULE NfcCodec ------------------------------
(***************************************************************************)
(* The NFC data formats as functions on sequences of bytes: NDEF messages  *)
(* (stark_nfc/ndef.c), the TLVs of a Type 2 tag (nfc_type2.c), the frames  *)
(* of the PN532 (pn532_frame.c) and the text of a dump (nfc_dump.c; a line *)
(* is its tokens, with the length of its text).  Positions count from 0,   *)
(* as in the code; << >> stands for a refused encoding or parse.           *)
(***************************************************************************)
EXTENDS Integers, Sequences, SequencesExt

At(buf, i) == buf[i + 1]
Slice(buf, from, n) == SubSeq(buf, from + 1, from + n)
Fill(b, n) == [i \in 1 .. n |-> b]
Sum8(buf) == FoldLeft(LAMBDA a, b : (a + b) % 256, 0, buf)

------------------------------------------------------------------------------
(* NDEF records.                                                                 *)

NdefMax == 872
NdefMaxRecords == 8

Flag(hdr, bit) == (hdr \div bit) % 2 = 1
MB == 128
ME == 64
CF == 32
SR == 16
IL == 8

\* lengths_ok(): what each TNF allows.
LengthsOk(tnf, type, id, payload) ==
  CASE tnf = 0 -> type = 0 /\ id = 0 /\ payload = 0
    [] tnf = 5 -> type = 0
    [] OTHER   -> type > 0

Record(tnf, type, id, payload) == [tnf |-> tnf, type |-> type, id |-> id, payload |-> payload]

NdefHeader(r, first, last) ==
  r.tnf + (IF first THEN MB ELSE 0) + (IF last THEN ME ELSE 0)
  + (IF Len(r.payload) <= 255 THEN SR ELSE 0) + (IF r.id # << >> THEN IL ELSE 0)

\* ndef_encode(); << >> when a record is not allowed or the buffer too small.
NdefEncode(recs, cap) ==
  LET one(i) == LET r == recs[i] IN
        <<NdefHeader(r, i = 1, i = Len(recs)), Len(r.type)>>
        \o (IF Len(r.payload) <= 255 THEN <<Len(r.payload)>>
            ELSE <<0, 0, Len(r.payload) \div 256, Len(r.payload) % 256>>)
        \o (IF r.id # << >> THEN <<Len(r.id)>> ELSE << >>) \o r.type \o r.id \o r.payload
      all == FlattenSeq([i \in DOMAIN recs |-> one(i)])
      good == \A i \in DOMAIN recs :
                LET r == recs[i] IN r.tnf < 6 /\ Len(r.payload) <= NdefMax
                                    /\ LengthsOk(r.tnf, Len(r.type), Len(r.id), Len(r.payload))
  IN IF Len(recs) \in 1 .. NdefMaxRecords /\ good /\ Len(all) <= cap THEN all ELSE << >>

\* The record of ndef_parse() at pos, as its parts' places: [ok, next, last, rec].
NdefBad == [ok |-> FALSE]

NdefRecordAt(buf, pos, first) ==
  LET hdr == At(buf, pos)
      tnf == hdr % 8
      lens == IF Flag(hdr, SR) THEN 1 ELSE 4
      afterLen == pos + 2 + lens
      idByte == IF Flag(hdr, IL) THEN 1 ELSE 0
      body == afterLen + idByte
      typeLen == At(buf, pos + 1)
      idLen == IF idByte = 1 THEN At(buf, afterLen) ELSE 0
      \* A long length of which a high byte is set is over the limit whatever the rest is.
      payload == IF lens = 1 THEN At(buf, pos + 2)
                 ELSE IF At(buf, pos + 2) # 0 \/ At(buf, pos + 3) # 0 THEN NdefMax + 1
                 ELSE 256 * At(buf, pos + 4) + At(buf, pos + 5)
  IN IF \/ Len(buf) - pos < 2 \/ Flag(hdr, MB) # first \/ tnf \in {6, 7} \/ Flag(hdr, CF)
        \/ Len(buf) < afterLen \/ payload > NdefMax \/ Len(buf) < body
        \/ ~LengthsOk(tnf, typeLen, idLen, payload) \/ Len(buf) - body < typeLen + idLen + payload
     THEN NdefBad
     ELSE [ok |-> TRUE, next |-> body + typeLen + idLen + payload, last |-> Flag(hdr, ME),
           rec |-> Record(tnf, Slice(buf, body, typeLen), Slice(buf, body + typeLen, idLen),
                          Slice(buf, body + typeLen + idLen, payload))]

\* ndef_parse(): the records, or << >> when the message is malformed, chunked or too long.
NdefParse(buf) ==
  LET step(st, i) ==
        IF st.at # "more" THEN st
        ELSE LET r == NdefRecordAt(buf, st.pos, i = 1)
             IN IF ~r.ok \/ i > NdefMaxRecords THEN [st EXCEPT !.at = "bad"]
                ELSE [at |-> IF ~r.last THEN "more" ELSE IF r.next = Len(buf) THEN "end" ELSE "bad",
                      pos |-> r.next, recs |-> Append(st.recs, r.rec)]
      st == FoldLeft(step, [at |-> "more", pos |-> 0, recs |-> << >>],
                     [i \in 1 .. NdefMaxRecords + 1 |-> i])
  IN IF st.at = "end" THEN st.recs ELSE << >>

\* ndef_text_make() and ndef_text_get(): language and text of a payload.
TextMake(lang, text) ==
  IF Len(lang) \in 1 .. 63 /\ 1 + Len(lang) + Len(text) <= NdefMax
  THEN Record(1, <<84>>, << >>, <<Len(lang)>> \o lang \o text) ELSE NdefBad

TextGet(r) ==
  LET n == Head(r.payload) % 64
  IN IF r.tnf # 1 \/ r.type # <<84>> \/ r.payload = << >> THEN << >>
     ELSE IF Head(r.payload) >= 64 \/ n = 0 \/ n > Len(r.payload) - 1 THEN << >>
     ELSE IF 0 \in ToSet(Tail(r.payload)) THEN << >>
     ELSE <<Slice(r.payload, 1, n), Slice(r.payload, 1 + n, Len(r.payload) - 1 - n)>>

\* ndef_uri_make() and ndef_uri_get() over the table of abbreviations, the empty one first;
\* of those the address starts with, the longest is taken.
UriMake(uri, prefixes) ==
  LET fits == {i \in DOMAIN prefixes : IsPrefix(prefixes[i], uri)}
      best == CHOOSE i \in fits : \A j \in fits : Len(prefixes[j]) <= Len(prefixes[i])
      rest == SubSeq(uri, Len(prefixes[best]) + 1, Len(uri))
  IN IF uri = << >> \/ Len(rest) + 1 > NdefMax THEN NdefBad
     ELSE Record(1, <<85>>, << >>, <<best - 1>> \o rest)

UriGet(r, prefixes) ==
  IF r.tnf # 1 \/ r.type # <<85>> \/ r.payload = << >> THEN << >>
  ELSE IF Head(r.payload) >= Len(prefixes) \/ 0 \in ToSet(Tail(r.payload)) THEN << >>
  ELSE prefixes[Head(r.payload) + 1] \o Tail(r.payload)

------------------------------------------------------------------------------
(* Type 2 memory.                                                                *)

TlvNull == 0
TlvNdef == 3
TlvEnd == 254
TlvLong == 255

\* nfc_t2_cc(): the capability container.
CcValid(cc) == cc[1] = 225 /\ cc[2] \div 16 = 1 /\ cc[3] # 0 /\ cc[4] < 16
CcDataBytes(cc) == IF CcValid(cc) THEN cc[3] * 8 ELSE 0

\* nfc_t2_ndef_capacity()
NdefCapacity(bytes) == IF bytes < 3 THEN 0 ELSE IF bytes - 3 < 255 THEN bytes - 3 ELSE bytes - 5

\* What one TLV at pos comes to, with avail bytes of total read: "more" and how many are
\* needed, "bad", "end", or where the next one is and what this one is.
TlvAt(area, avail, total, pos) ==
  LET short == At(area, pos + 1)
      hdr == IF short = TlvLong THEN 4 ELSE 2
      value == IF hdr = 2 THEN short ELSE 256 * At(area, pos + 2) + At(area, pos + 3)
      need(n) == [is |-> "more", need |-> pos + n]
  IN IF pos >= avail THEN need(1)
     ELSE IF At(area, pos) = TlvNull THEN [is |-> "next", pos |-> pos + 1]
     ELSE IF At(area, pos) = TlvEnd THEN [is |-> "none"]
     ELSE IF pos + 2 > total THEN [is |-> "bad"]
     ELSE IF pos + 2 > avail THEN need(2)
     ELSE IF hdr = 4 /\ pos + 4 > total THEN [is |-> "bad"]
     ELSE IF hdr = 4 /\ pos + 4 > avail THEN need(4)
     ELSE IF pos + hdr + value > total THEN [is |-> "bad"]
     ELSE IF At(area, pos) = TlvNdef THEN [is |-> "found", off |-> pos + hdr, len |-> value]
     ELSE [is |-> "next", pos |-> pos + hdr + value]

\* nfc_t2_tlv(): the first NDEF TLV, from as much of the area as has been read.
NdefTlv(area, avail, total) ==
  LET scan[pos \in 0 .. total] ==
        IF pos >= total THEN [is |-> "none"]
        ELSE LET t == TlvAt(area, avail, total, pos) IN IF t.is = "next" THEN scan[t.pos] ELSE t
  IN scan[0]

\* read_type2() and fill() around it: page 3's READ brings the container and the area's first
\* 12 bytes, then 16 are read at a time up to what is asked for; a message found is read to
\* its end.
NdefRead(cc, area) ==
  LET total == CcDataBytes(cc)
      smaller(a, b) == IF a < b THEN a ELSE b
      fill[have \in 0 .. total, want \in 0 .. total] ==
        IF have >= want THEN have ELSE fill[smaller(have + 16, total), want]
      read[have \in 0 .. total] ==
        LET t == NdefTlv(Slice(area, 0, have), have, total)
        IN CASE t.is = "more"  -> IF t.need <= have THEN [is |-> "stuck"] ELSE read[fill[have, t.need]]
             [] t.is = "found" -> [is |-> "found", msg |-> Slice(Slice(area, 0, fill[have, t.off + t.len]),
                                                                  t.off, t.len)]
             [] OTHER          -> t
  IN IF ~CcValid(cc) THEN [is |-> "none"]
     ELSE IF total > NdefMax THEN [is |-> "unsupported"] ELSE read[smaller(12, total)]

\* nfc_t2_tlv_size() and nfc_t2_tlv_page(): what is written for a message, in whole pages.
TlvBytes(msg) ==
  LET head == IF Len(msg) < TlvLong THEN <<TlvNdef, Len(msg)>>
              ELSE <<TlvNdef, TlvLong, Len(msg) \div 256, Len(msg) % 256>>
      all == head \o msg \o <<TlvEnd>>
  IN all \o Fill(0, (4 - (Len(all) % 4)) % 4)

------------------------------------------------------------------------------
(* PN532 frames.                                                                 *)

Ack == <<0, 0, 255, 0, 255, 0>>
NackFrame == <<0, 0, 255, 255, 0, 0>>

\* pn532_frame_build(), of a body that starts with the host's or the chip's TFI.
FrameBuild(body) ==
  <<0, 0, 255, Len(body), (256 - Len(body)) % 256>> \o body \o <<(256 - Sum8(body)) % 256, 0>>

\* Slip: the checksum of the length is not looked at.
FrameParseSlip(buf) ==
  LET n == At(buf, 3) IN
  IF Len(buf) < 6 \/ SubSeq(buf, 1, 3) # <<0, 0, 255>> THEN [is |-> "malformed"]
  ELSE IF SubSeq(buf, 1, 6) = Ack THEN [is |-> "ack"]
  ELSE IF SubSeq(buf, 1, 6) = NackFrame THEN [is |-> "nack"]
  ELSE IF n = 255 /\ At(buf, 4) = 255 THEN [is |-> "extended"]
  ELSE IF n = 0 THEN [is |-> "damaged"]
  ELSE IF Len(buf) < n + 7 THEN [is |-> "malformed"]
  ELSE IF Sum8(Slice(buf, 5, n + 1)) # 0 THEN [is |-> "damaged"]
  ELSE [is |-> "data", body |-> Slice(buf, 5, n)]

\* pn532_frame_parse()
FrameParse(buf) ==
  LET n == At(buf, 3) IN
  IF Len(buf) < 6 \/ SubSeq(buf, 1, 3) # <<0, 0, 255>> THEN [is |-> "malformed"]
  ELSE IF SubSeq(buf, 1, 6) = Ack THEN [is |-> "ack"]
  ELSE IF SubSeq(buf, 1, 6) = NackFrame THEN [is |-> "nack"]
  ELSE IF n = 255 /\ At(buf, 4) = 255 THEN [is |-> "extended"]
  ELSE IF (n + At(buf, 4)) % 256 # 0 \/ n = 0 THEN [is |-> "damaged"]
  ELSE IF Len(buf) < n + 7 THEN [is |-> "malformed"]
  ELSE IF Sum8(Slice(buf, 5, n + 1)) # 0 THEN [is |-> "damaged"]
  ELSE IF At(buf, n + 6) # 0 THEN [is |-> "malformed"]
  ELSE IF n = 1 /\ At(buf, 5) = 127 THEN [is |-> "error"]
  ELSE [is |-> "data", body |-> Slice(buf, 5, n)]

------------------------------------------------------------------------------
(* Dumps: a tag and its pages of memory.                                         *)

MaxPages == 231
DumpLineMax == 32

Digits(n) == IF n < 10 THEN 1 ELSE IF n < 100 THEN 2 ELSE IF n < 1000 THEN 3 ELSE 4

\* line_at(): the lines of a dump, and how long the text of one is.
DumpLines(d) ==
  <<<<"stark-nfc", 1>>, <<"uid", d.uid>>, <<"atqa", d.atqa>>, <<"sak", d.sak>>, <<"tech", d.tech>>,
    <<"pages", Len(d.mem)>>>>
  \o [i \in DOMAIN d.mem |-> <<"page", i - 1, d.mem[i]>>]

TechLen(tech) == CASE tech = "CLASSIC_MINI" -> 12 [] tech = "NTAG216" -> 7 [] OTHER -> 5

LineLen(line) ==
  CASE line[1] = "stark-nfc" -> 12
    [] line[1] = "uid"       -> 5 + 2 * Len(line[2])
    [] line[1] = "atqa"      -> 10
    [] line[1] = "sak"       -> 7
    [] line[1] = "tech"      -> 6 + TechLen(line[2])
    [] line[1] = "pages"     -> 7 + Digits(line[2])
    [] OTHER                 -> 7 + Digits(line[2]) + 2 * Len(line[3])

\* nfc_dump_format(), called until it has nothing to say: the lines of each call.
DumpChunks(d, cap) ==
  LET add(st, line) ==
        IF st.used + LineLen(line) + 1 > cap
        THEN [chunks |-> Append(st.chunks, <<line>>), used |-> LineLen(line)]
        ELSE [chunks |-> [st.chunks EXCEPT ![Len(st.chunks)] = Append(@, line)], used |-> st.used + LineLen(line)]
  IN IF cap < DumpLineMax THEN << >>
     ELSE FoldLeft(add, [chunks |-> <<<< >>>>, used |-> 0], DumpLines(d)).chunks

\* nfc_dump_parse(): the fields in their order, as many pages as said, numbered, nothing after.
DumpParse(lines) ==
  LET field(i, key) == i \in DOMAIN lines /\ lines[i][1] = key
      n == lines[6][2]
      good == /\ field(1, "stark-nfc") /\ lines[1][2] = 1
              /\ field(2, "uid") /\ Len(lines[2][2]) \in {4, 7, 10}
              /\ field(3, "atqa") /\ field(4, "sak") /\ field(5, "tech")
              /\ field(6, "pages") /\ n <= MaxPages
              /\ \A i \in 1 .. n : field(6 + i, "page") /\ lines[6 + i][2] = i - 1
              /\ Len(lines) = 6 + n
  IN IF ~good THEN << >>
     ELSE [uid |-> lines[2][2], atqa |-> lines[3][2], sak |-> lines[4][2], tech |-> lines[5][2],
           mem |-> [i \in 1 .. n |-> lines[6 + i][3]]]

==============================================================================
