------------------------------- MODULE QREncode -------------------------------
(***************************************************************************)
(* The library's calls (qrencode.c): from a text, bytes or a list of       *)
(* entries to a symbol, a Micro symbol or a structured set of symbols.     *)
(* The stages of a call are the functions it goes through, and an action   *)
(* is one round of a loop.  What the library keeps between calls, initial  *)
(* frames and Reed-Solomon generators, is kept between the calls of a      *)
(* script.  Memory is always granted.                                      *)
(*                                                                         *)
(* A call is a record: op is "string" (text, kanji, casesensitive, see     *)
(* QRcode_encodeString), "data" (text, QRcode_encodeData), "input" (parts, *)
(* a list of entries that a caller of QRinput_append and the like makes),  *)
(* "set" (inputs, some lists of parts for QRinput_Struct_appendInput) with *)
(* version, level, mqr and structured; "frame" (version, mqr), or "clear". *)
(***************************************************************************)
EXTENDS QRSymbol, RSCode, TLC

CONSTANT Scripts      \* sequences of calls that processes make

Byte == 0..255
PartOK(part) ==
  CASE part.op = "append" -> part.mode \in SplittableMode /\ part.data \in Seq(Byte)
    [] part.op = "eci" -> part.num \in Nat
    [] part.op = "fnc1" -> TRUE
    [] part.op = "fnc2" -> part.appid \in Byte
    [] OTHER -> FALSE
PartsOK(parts) == parts \in Seq(Range(parts)) /\ \A i \in DOMAIN parts : PartOK(parts[i])
\* The types of the arguments, and a level that is one of the enumeration's.
CallOK(c) ==
  /\ c.op \in {"string", "data", "input", "set", "frame", "clear"}
  /\ c.op \in {"string", "data", "input", "set"} =>
       /\ c.version \in Int /\ c.level \in Level /\ c.mqr \in BOOLEAN /\ c.structured \in BOOLEAN
  /\ c.op \in {"string", "data"} => c.text \in Seq(Byte)
  /\ c.op = "string" => c.kanji \in BOOLEAN /\ c.casesensitive \in BOOLEAN
  /\ c.op = "input" => PartsOK(c.parts)
  /\ c.op = "set" => c.inputs \in Seq(Range(c.inputs)) /\ \A i \in DOMAIN c.inputs : PartsOK(c.inputs[i])

ASSUME ScriptsAssumption ==
  \A calls \in Scripts : calls \in Seq(Range(calls)) /\ \A i \in DOMAIN calls : CallOK(calls[i])

VARIABLES
  script,     \* the calls to come
  call,       \* the last call that began
  stage,      \* where it is
  errno,
  rest,       \* what the loop over the text, the parts or the inputs has left
  input,      \* the QRinput at work
  at, used,   \* the entry a cut is at, and the bits of those before it
  struct,     \* the inputs of a structured set, as far as they are not at work
  bits,       \* the merged bit stream
  rslist,     \* the generators made so far
  blocks,     \* RSblocks: data, generator, how much is fed to it, check bytes
  frames,     \* the initial frames made so far
  frame,      \* the copy that is filled
  seat,       \* the FrameFiller
  count,      \* codes placed
  mask,       \* the mask that is tried
  masked,     \* the buffer it is tried in
  symbol,     \* the best so far
  best,       \* and how good it is
  codes       \* the symbols the call returns

cacheVars == <<rslist, frames>>
inputVars == <<rest, input, at, used, struct>>
codeVars == <<bits, blocks>>
fillVars == <<frame, seat, count>>
maskVars == <<mask, masked, symbol, best>>
callVars == <<script, call, errno, codes>>
vars == <<stage, callVars, inputVars, codeVars, fillVars, maskVars, cacheVars>>

INT_MAX == 2147483647
EINVAL == "EINVAL"
ERANGE == "ERANGE"
NoFrame == << >>

-----------------------------------------------------------------------------
Fresh ==
  /\ bits' = <<>> /\ blocks' = <<>> /\ frame' = NoFrame /\ seat' = FirstSeat(0) /\ count' = 0
  /\ mask' = 0 /\ masked' = NoFrame /\ symbol' = NoFrame /\ best' = 0

Init ==
  /\ script \in Scripts /\ call = [op |-> "none"] /\ stage = "idle" /\ errno = "" /\ codes = <<>>
  /\ rest = <<>> /\ input = NewInput(0, 0, FALSE) /\ at = 1 /\ used = 0 /\ struct = <<>>
  /\ bits = <<>> /\ blocks = <<>> /\ rslist = {}
  /\ frames = <<>> /\ frame = NoFrame /\ seat = FirstSeat(0) /\ count = 0
  /\ mask = 0 /\ masked = NoFrame /\ symbol = NoFrame /\ best = 0

Idle == stage \in {"idle", "done", "failed"}

(* The next call of the script, which goes on at the given stage if valid. *)
Begin(op, valid, next, left, new) ==
  /\ Idle /\ script # <<>> /\ Head(script).op = op
  /\ script' = Tail(script) /\ call' = Head(script)
  /\ codes' = <<>> /\ struct' = <<>> /\ at' = 1 /\ used' = 0
  /\ rest' = left /\ input' = new
  /\ IF valid THEN stage' = next /\ errno' = "" ELSE stage' = "failed" /\ errno' = EINVAL
  /\ Fresh

(* QRcode_encodeStringReal and, if structured, QRcode_encodeDataStructuredReal,
   whose version must be known. *)
QRcode_encodeString ==
  LET c == Head(script)
  IN  /\ Begin("string", /\ c.text # <<>>
                         /\ ValidInput(c.version, c.level, c.mqr)
                         /\ c.structured => c.version > 0,
               "split",
               IF c.casesensitive THEN c.text ELSE DupAndToUpper(c.text, c.kanji),
               NewInput(c.version, c.level, c.mqr))
      /\ UNCHANGED cacheVars

\* QRcode_encodeDataReal: one entry of bytes.
QRcode_encodeData ==
  LET c == Head(script)
  IN  /\ Begin("data", /\ c.text # <<>>
                       /\ ValidInput(c.version, c.level, c.mqr)
                       /\ c.structured => c.version > 0,
               IF c.structured THEN "cut" ELSE "merge",
               <<>>,
               [NewInput(c.version, c.level, c.mqr) EXCEPT !.entries = <<Entry("8", c.text)>>])
      /\ UNCHANGED cacheVars

\* A caller with entries of its own, and one that makes a structured set.
MakeInput ==
  LET c == Head(script)
  IN  /\ Begin("input", ValidInput(c.version, c.level, c.mqr), "parts", c.parts,
               NewInput(c.version, c.level, c.mqr))
      /\ UNCHANGED cacheVars
MakeStruct ==
  LET c == Head(script)
  IN  /\ Begin("set", ValidInput(c.version, c.level, FALSE), "inputs", c.inputs,
               NewInput(c.version, c.level, FALSE))
      /\ UNCHANGED cacheVars

(* QRcode_clearCache. *)
ClearCache ==
  /\ Begin("clear", TRUE, "done", <<>>, NewInput(0, 0, FALSE))
  /\ rslist' = {} /\ frames' = <<>>

Fail(e) == stage' = "failed" /\ errno' = e

-----------------------------------------------------------------------------
(* A round of Split_splitString. *)
SplitString ==
  LET s == Eat(rest, call.kanji, input.version)
      data == SubSeq(rest, 1, s.size)
  IN  /\ stage = "split"
      /\ IF rest = <<>>
         THEN stage' = (IF call.structured THEN "cut" ELSE "merge") /\ UNCHANGED <<errno, rest, input>>
         ELSE IF Acceptable(s.mode, data)
         THEN /\ rest' = SubSeq(rest, s.size + 1, Len(rest))
              /\ input' = [input EXCEPT !.entries = Append(@, Entry(s.mode, data))]
              /\ UNCHANGED <<stage, errno>>
         ELSE Fail(EINVAL) /\ UNCHANGED <<rest, input>>
      /\ UNCHANGED <<script, call, codes, at, used, struct, codeVars, fillVars, maskVars, cacheVars>>

(* QRinput_append, QRinput_appendECIheader, QRinput_setFNC1First and
   QRinput_setFNC1Second: what a part adds to an input, or nothing if refused. *)
With(i, part) ==
  CASE part.op = "append" -> IF Acceptable(part.mode, part.data)
                             THEN {[i EXCEPT !.entries = Append(@, Entry(part.mode, part.data))]} ELSE {}
    [] part.op = "eci" -> IF part.num > 999999 THEN {}
                          ELSE {[i EXCEPT !.entries = Append(@, EciEntry(part.num))]}
    [] part.op = "fnc1" -> IF i.mqr THEN {} ELSE {[i EXCEPT !.fnc1 = 1]}
    [] part.op = "fnc2" -> IF i.mqr THEN {} ELSE {[i EXCEPT !.fnc1 = 2, !.appid = part.appid]}

(* After the last one the input is encoded, or duplicated and cut: QRinput_dup
   leaves FNC1 behind, and QRinput_splitQRinputToStruct takes no Micro symbol and
   gives up, without an errno, where a version's symbol holds nothing. *)
AppendPart ==
  /\ stage = "parts"
  /\ IF rest = <<>>
     THEN /\ IF ~call.structured THEN stage' = "merge" /\ UNCHANGED errno
             ELSE IF input.mqr THEN Fail(EINVAL)
             ELSE IF input.version = 0 THEN Fail(errno)
             ELSE stage' = "cut" /\ UNCHANGED errno
          /\ input' = IF call.structured THEN [input EXCEPT !.fnc1 = 0] ELSE input
          /\ UNCHANGED rest
     ELSE \/ /\ input' \in With(input, Head(rest))
             /\ rest' = Tail(rest)
             /\ UNCHANGED <<stage, errno>>
          \/ With(input, Head(rest)) = {} /\ Fail(EINVAL) /\ UNCHANGED <<rest, input>>
  /\ UNCHANGED <<script, call, codes, at, used, struct, codeVars, fillVars, maskVars, cacheVars>>

-----------------------------------------------------------------------------
(* QRinput_calcParity over some inputs: the exclusive or of all their bytes, so
   that a bit of it says if an odd number of them have it. *)
Parity(inputs) ==
  LET bytes == UNION {UNION {{<<n, i, j>> : j \in DOMAIN inputs[n].entries[i].data} :
                             i \in {k \in DOMAIN inputs[n].entries : inputs[n].entries[k].mode # "STRUCTURE"}} :
                      n \in DOMAIN inputs}
      Has(b, k) == (inputs[b[1]].entries[b[2]].data[b[3]] \div 2^k) % 2 = 1
  IN  MapThenSumSet(LAMBDA k : 2^k * (Cardinality({b \in bytes : Has(b, k)}) % 2), 0..7)

\* QRinput_Struct_insertStructuredAppendHeaders.
WithHeaders(inputs, parity) ==
  [i \in DOMAIN inputs |->
     [inputs[i] EXCEPT !.entries = <<Entry("STRUCTURE", <<Len(inputs), i, parity>>)>> \o @]]

(* The set begins with its first input; the parity was computed before, from
   the input that is cut.  A set of nothing gives no symbol and no errno. *)
BeginSet(inputs, parity) ==
  LET all == WithHeaders(inputs, parity)
  IN  IF inputs = <<>> THEN Fail(errno) /\ UNCHANGED <<input, struct>>
      ELSE IF Len(inputs) > MaxStructuredSymbols
      THEN Fail(IF call.op = "set" THEN EINVAL ELSE ERANGE) /\ UNCHANGED <<input, struct>>
      ELSE stage' = "merge" /\ input' = Head(all) /\ struct' = Tail(all) /\ UNCHANGED errno

(* A round of QRinput_splitQRinputToStruct that begins the next input: with the
   rest of a segment that fits in part, or with a whole one.  A segment that was
   estimated as too long and yet fits has no rest, which is refused as an entry. *)
CutEntry ==
  LET e == input.entries[at]
      maxbits == 8 * DataLength(input.version, input.level) - StructureHeaderSize
      bytes == LengthOfCode(e.mode, input.version, maxbits - used)
      tail == SubSeq(input.entries, at + 1, Len(input.entries))
      New(entries) == [NewInput(input.version, input.level, FALSE) EXCEPT !.entries = entries]
  IN  /\ stage = "cut" /\ at <= Len(input.entries)
      /\ used + EstimateEntry(e, input.version) > maxbits
      /\ IF bytes < Len(e.data)
         THEN /\ struct' = Append(struct, [input EXCEPT !.entries =
                   SubSeq(@, 1, at - 1) \o IF bytes = 0 THEN <<>> ELSE <<Entry(e.mode, SubSeq(e.data, 1, bytes))>>])
              /\ input' = New(<<Entry(e.mode, SubSeq(e.data, bytes + 1, Len(e.data)))>> \o tail)
              /\ at' = 1 /\ used' = 0
              /\ UNCHANGED <<stage, errno>>
         ELSE Fail(EINVAL) /\ UNCHANGED <<struct, input, at, used>>
      /\ UNCHANGED <<script, call, codes, rest, codeVars, fillVars, maskVars, cacheVars>>

\* A round of it that keeps a segment.
KeepEntry ==
  LET e == input.entries[at]
      maxbits == 8 * DataLength(input.version, input.level) - StructureHeaderSize
  IN  /\ stage = "cut" /\ at <= Len(input.entries)
      /\ used + EstimateEntry(e, input.version) <= maxbits
      /\ used' = used + Len(EncodeBitStream(e, input.version, FALSE))
      /\ at' = at + 1
      /\ UNCHANGED <<stage, callVars, rest, input, struct, codeVars, fillVars, maskVars, cacheVars>>

(* Mutant of EndCut: the parity is that of the last piece. *)
EndCutLateParity ==
  /\ stage = "cut" /\ at > Len(input.entries)
  /\ BeginSet(Append(struct, input), Parity(<<input>>))
  /\ UNCHANGED <<script, call, codes, rest, at, used, codeVars, fillVars, maskVars, cacheVars>>

\* Its end.  The pieces hold what the input held, whose parity they get.
EndCut ==
  LET inputs == Append(struct, input)
  IN  /\ stage = "cut" /\ at > Len(input.entries)
      /\ BeginSet(inputs, Parity(inputs))
      /\ UNCHANGED <<script, call, codes, rest, at, used, codeVars, fillVars, maskVars, cacheVars>>

(* QRinput_Struct_appendInput for each list of parts, and then the headers. *)
AppendInput ==
  LET made[k \in 0..Len(Head(rest))] ==
        IF k = 0 THEN {NewInput(call.version, call.level, FALSE)}
        ELSE UNION {With(i, Head(rest)[k]) : i \in made[k - 1]}
  IN  /\ stage = "inputs"
      /\ IF rest = <<>> THEN BeginSet(struct, Parity(struct)) /\ UNCHANGED rest
         ELSE \/ /\ \E i \in made[Len(Head(rest))] : struct' = Append(struct, i)
                 /\ rest' = Tail(rest)
                 /\ UNCHANGED <<stage, errno, input>>
              \/ /\ made[Len(Head(rest))] = {}
                 /\ Fail(EINVAL) /\ UNCHANGED <<rest, input, struct>>
      /\ UNCHANGED <<script, call, codes, at, used, codeVars, fillVars, maskVars, cacheVars>>

-----------------------------------------------------------------------------
(* QRinput_mergeBitStream.  The header FNC1 goes before everything else. *)
MergeBitStream ==
  LET fnc1 == IF input.fnc1 = 2 THEN <<Entry("FNC1SECOND", <<input.appid>>)>> ELSE <<>>
      entries == fnc1 \o input.entries
      v == EstimateVersion(entries, input.level)
  IN  /\ stage = "merge"
      /\ IF input.mqr
         THEN IF \A i \in DOMAIN input.entries : HasMode(input.entries[i].mode, input.version, TRUE)
              THEN bits' = CreateBitStream(input) /\ stage' = "pad" /\ UNCHANGED <<errno, input>>
              ELSE Fail(EINVAL) /\ UNCHANGED <<bits, input>>
         ELSE IF input.fnc1 = 1 THEN Fail(EINVAL) /\ UNCHANGED <<bits, input>>
         ELSE /\ input' = [input EXCEPT !.entries = entries,
                                        !.version = IF v > @ THEN v ELSE @]
              /\ stage' = "write"
              /\ UNCHANGED <<bits, errno>>
      /\ UNCHANGED <<script, call, codes, rest, at, used, struct, blocks, fillVars, maskVars, cacheVars>>

(* A round of QRinput_convertData's loop: write all segments, and again if they
   need a larger version. *)
ConvertData ==
  LET stream == CreateBitStream(input)
      v == MinimumVersion((Len(stream) + 7) \div 8, input.level)
  IN  /\ stage = "write"
      /\ bits' = stream
      /\ IF v < 0 THEN Fail(ERANGE) /\ UNCHANGED input
         ELSE /\ stage' = IF v > input.version THEN "write" ELSE "pad"
              /\ input' = [input EXCEPT !.version = IF v > @ THEN v ELSE @]
              /\ UNCHANGED errno
      /\ UNCHANGED <<script, call, codes, rest, at, used, struct, blocks, fillVars, maskVars, cacheVars>>

-----------------------------------------------------------------------------
NoRS == [pad |-> 0, nroots |-> 0, genpoly |-> <<1>>]
Block(data, nroots) == [data |-> data, rs |-> NoRS, fed |-> 0, ecc |-> [i \in 1..nroots |-> 0]]

(* QRinput_getByteStream's end, and QRraw_new or MQRraw_new: consecutive parts of
   the data, each with check bytes of its own. *)
InitBlocks ==
  LET v == input.version
      spec == EccSpec(v, input.level)
      dl(b) == IF b <= spec.blocks1 THEN spec.data1 ELSE spec.data2
      before(b) == spec.data1 * (b - 1) + IF b > spec.blocks1 THEN b - 1 - spec.blocks1 ELSE 0
      capacity == IF input.mqr THEN MicroDataLengthBit(v, input.level) ELSE 8 * DataLength(v, input.level)
      padded == IF input.mqr THEN AppendPaddingBitMQR(bits, v, input.level)
                ELSE AppendPaddingBit(bits, v, input.level)
      datacode == ToBytes(padded)
  IN  /\ stage = "pad"
      /\ IF Len(bits) > capacity THEN Fail(ERANGE) /\ UNCHANGED <<bits, blocks>>
         ELSE /\ bits' = padded
              /\ blocks' = IF input.mqr THEN <<Block(datacode, MicroECCLength(v, input.level))>>
                           ELSE [b \in 1..spec.blocks1 + spec.blocks2 |->
                                   Block(SubSeq(datacode, before(b) + 1, before(b) + dl(b)), spec.ecc)]
              /\ stage' = "check" /\ UNCHANGED errno
      /\ UNCHANGED <<script, call, codes, inputVars, fillVars, maskVars, cacheVars>>

\* The first block that is not done.
Current == Min({b \in DOMAIN blocks : \/ blocks[b].rs = NoRS
                                      \/ blocks[b].fed < 255 - blocks[b].rs.nroots - blocks[b].rs.pad}
               \cup {Len(blocks) + 1})

(* init_rs, for the lengths of a block: from the list, or made and kept there. *)
InitRS ==
  LET b == Current
      nroots == Len(blocks[b].ecc)
      pad == 255 - Len(blocks[b].data) - nroots
      kept == {r \in rslist : r.pad = pad /\ r.nroots = nroots}
  IN  /\ stage = "check" /\ b \in DOMAIN blocks /\ blocks[b].rs = NoRS
      /\ \E rs \in IF kept # {} THEN kept ELSE {[pad |-> pad, nroots |-> nroots, genpoly |-> Genpoly(nroots)]} :
           /\ blocks' = [blocks EXCEPT ![b].rs = rs]
           /\ rslist' = rslist \cup {rs}
      /\ UNCHANGED <<stage, callVars, inputVars, bits, fillVars, maskVars, frames>>

\* encode_rs_char, a byte at a time, block after block.
EncodeRS ==
  LET b == Current
      i == blocks[b].fed + 1
  IN  /\ stage = "check"
      /\ IF b \notin DOMAIN blocks THEN stage' = "frame" /\ UNCHANGED blocks
         ELSE /\ blocks[b].rs # NoRS
              /\ blocks' = [blocks EXCEPT ![b].fed = i,
                                          ![b].ecc = Feed(@, blocks[b].rs.genpoly, blocks[b].data[i])]
              /\ UNCHANGED stage
      /\ UNCHANGED <<callVars, inputVars, bits, fillVars, maskVars, cacheVars>>

-----------------------------------------------------------------------------
\* QRspec_newFrame and MQRspec_newFrame: a copy of the initial frame, once it is made.
FrameKey(version, mqr) == <<IF mqr THEN "micro" ELSE "full", version>>
NewFrame(version, mqr) ==
  LET key == FrameKey(version, mqr)
      initial == IF key \in DOMAIN frames THEN frames[key]
                 ELSE IF mqr THEN MicroCreateFrame(version) ELSE CreateFrame(version)
  IN  /\ frames' = (key :> initial) @@ frames
      /\ frame' = initial

(* FrameFiller_new on such a copy. *)
StartFilling ==
  /\ stage = "frame"
  /\ NewFrame(input.version, input.mqr)
  /\ seat' = FirstSeat(SymbolWidth(input.version, input.mqr)) /\ count' = 0
  /\ stage' = "fill"
  /\ UNCHANGED <<callVars, inputVars, codeVars, maskVars, rslist>>

\* A caller that asks for the frame alone.
AskFrame ==
  LET c == Head(script)
  IN  /\ Idle /\ script # <<>> /\ c.op = "frame"
      /\ script' = Tail(script) /\ call' = c /\ codes' = <<>> /\ stage' = "done" /\ errno' = ""
      /\ NewFrame(c.version, c.mqr)
      /\ UNCHANGED <<inputVars, codeVars, seat, count, maskVars, rslist>>

(* QRraw_getCode and MQRraw_getCode: the data of all blocks in turn, then their
   check bytes.  The blocks of the first length are left out when theirs has run
   out. *)
DataCodes == MapThenSumSet(LAMBDA b : Len(blocks[b].data), DOMAIN blocks)
EccCodes == Len(blocks) * Len(blocks[1].ecc)
GetCode(i) ==
  LET n == Len(blocks)
      left == i - DataCodes
      col == i \div n
      row == (i % n) + (IF col >= Len(blocks[1].data)
                        THEN EccSpec(input.version, input.level).blocks1 ELSE 0)
  IN  IF left < 0 THEN blocks[row + 1].data[col + 1]
      ELSE blocks[(left % n) + 1].ecc[(left \div n) + 1]

(* The last data code of two Micro versions has four bits; the loop takes them
   from one above the highest of them. *)
CodeBits(i) ==
  LET oddbits == IF input.mqr THEN 8 * DataCodes - MicroDataLengthBit(input.version, input.level) ELSE 0
  IN  IF oddbits > 0 /\ i = DataCodes - 1 THEN [j \in 1..oddbits |-> (GetCode(i) \div 2^(oddbits + 1 - j)) % 2]
      ELSE FromNum(8, GetCode(i))

\* A round of the loop that fills the frame with codes, and then with remainder bits.
PlaceCode ==
  LET w == SymbolWidth(input.version, input.mqr)
      over == count = DataCodes + EccCodes
      remainder == IF input.mqr THEN <<>> ELSE FromNum(Remainder(input.version), 0)
      filled == Fill(frame, seat, IF over THEN remainder ELSE CodeBits(count), w, input.mqr)
  IN  /\ stage = "fill"
      /\ frame' = filled.frame /\ seat' = filled.seat
      /\ IF filled.seat.x < 0 THEN Fail(errno) /\ UNCHANGED <<count, best>>
         ELSE IF over
         THEN /\ stage' = "mask" /\ best' = (IF input.mqr THEN 0 ELSE INT_MAX)
              /\ UNCHANGED <<count, errno>>
         ELSE count' = count + 1 /\ UNCHANGED <<stage, best, errno>>
      /\ UNCHANGED <<script, call, codes, inputVars, codeVars, mask, masked, symbol, cacheVars>>

-----------------------------------------------------------------------------
\* Mask_mask and MMask_mask: try a mask.
ApplyMask ==
  /\ stage = "mask"
  /\ masked' = IF input.mqr THEN MicroMakeMask(frame, input.version, mask, input.level)
               ELSE MakeMask(frame, Width(input.version), mask, input.level)
  /\ stage' = "weigh"
  /\ UNCHANGED <<callVars, mask, symbol, best, inputVars, codeVars, fillVars, cacheVars>>

(* And keep it if it is better than those before.  Micro QR codes count what is
   good, the others what is bad. *)
KeepBest ==
  LET score == IF input.mqr THEN MicroScore(masked, MicroWidth(input.version))
               ELSE Demerit(masked, Width(input.version))
  IN  /\ stage = "weigh"
      /\ IF IF input.mqr THEN score > best ELSE score < best
         THEN best' = score /\ symbol' = masked ELSE UNCHANGED <<best, symbol>>
      /\ mask' = mask + 1
      /\ stage' = IF mask' = (IF input.mqr THEN 4 ELSE 8) THEN "made" ELSE "mask"
      /\ UNCHANGED <<callVars, masked, inputVars, codeVars, fillVars, cacheVars>>

(* QRcode_new, and the next input of a set (QRcode_encodeInputStructured). *)
Deliver ==
  /\ stage = "made"
  /\ IF symbol = NoFrame THEN Fail(errno) /\ codes' = <<>> /\ UNCHANGED <<input, struct>>
     ELSE /\ codes' = Append(codes, symbol)
          /\ IF struct = <<>> THEN stage' = "done" /\ UNCHANGED <<input, struct>>
             ELSE stage' = "merge" /\ input' = Head(struct) /\ struct' = Tail(struct)
          /\ UNCHANGED errno
  /\ Fresh
  /\ UNCHANGED <<script, call, rest, at, used, cacheVars>>

Next ==
  \/ QRcode_encodeString \/ QRcode_encodeData \/ MakeInput \/ MakeStruct \/ ClearCache \/ AskFrame
  \/ SplitString \/ AppendPart \/ AppendInput \/ CutEntry \/ KeepEntry \/ EndCut
  \/ MergeBitStream \/ ConvertData \/ InitBlocks \/ InitRS \/ EncodeRS
  \/ StartFilling \/ PlaceCode \/ ApplyMask \/ KeepBest \/ Deliver
Spec == Init /\ [][Next]_vars
=============================================================================
