----------------------------- MODULE QRToolMC -------------------------------
(***************************************************************************)
(* Scripts: what createBarcode asks for, with passwords in which runs of   *)
(* digits, of letters both modes know and of others meet; every other kind *)
(* of call, at versions on both sides of the places where lengths widen,   *)
(* at the limits of what a symbol holds and beyond; calls that share       *)
(* caches; and every initial frame.  Programs: createBarcode for the       *)
(* shortest address and for one of fifteen characters, and command lines   *)
(* with every option, every type and every mistake the tool looks for.     *)
(***************************************************************************)
EXTENDS QRTool

L == 0
M == 1
Q == 2
H == 3
String(text, version, level, casesensitive) ==
  [op |-> "string", text |-> text, kanji |-> FALSE, casesensitive |-> casesensitive,
   version |-> version, level |-> level, mqr |-> FALSE, structured |-> FALSE]
Data(text, version, level) ==
  [op |-> "data", text |-> text, version |-> version, level |-> level, mqr |-> FALSE, structured |-> FALSE]
Input(parts, version, level) ==
  [op |-> "input", parts |-> parts, version |-> version, level |-> level, mqr |-> FALSE, structured |-> FALSE]
Set(inputs, version, level) ==
  [op |-> "set", inputs |-> inputs, version |-> version, level |-> level, mqr |-> FALSE, structured |-> FALSE]
Frame(version, mqr) == [op |-> "frame", version |-> version, mqr |-> mqr]
Clear == [op |-> "clear"]
Kanji(c) == [c EXCEPT !.kanji = TRUE]
Micro(c) == [c EXCEPT !.mqr = TRUE]
Structured(c) == [c EXCEPT !.structured = TRUE]
Part(mode, data) == [op |-> "append", mode |-> mode, data |-> data]
Eci(num) == [op |-> "eci", num |-> num]
Fnc1 == [op |-> "fnc1"]
Fnc2(appid) == [op |-> "fnc2", appid |-> appid]

Times(n, c) == [i \in 1..n |-> c]
Digits(n) == [i \in 1..n |-> 48 + (i % 10)]
Letters(n) == [i \in 1..n |-> 97 + (i % 26)]
Capital(n) == [i \in 1..n |-> 65 + (i % 26)]

Octet(n) == [i \in 1..n |-> 48 + i]
Address(a, b, c, d) == FlattenSeq(<<Octet(a), <<46>>, Octet(b), <<46>>, Octet(c), <<46>>, Octet(d)>>)
Two(first, second, k) == Times(k, first) \o Times(8 - k, second)
InTurn(first, second) == [i \in 1..8 |-> IF i % 2 = 1 THEN first ELSE second]
Kinds == {55, 75, 110}     \* 7, K, n
Passwords == {Two(a, b, k) : a \in Kinds, b \in Kinds, k \in {4, 7}}
             \cup {InTurn(a, b) : a \in Kinds, b \in Kinds}
BarCodes == {<<String(Address(1, 1, 1, 1) \o <<124>> \o p, 0, H, TRUE)>> : p \in Passwords}
            \cup {<<String(Address(3, 3, 3, 3) \o <<124>> \o InTurn(110, 55), 0, H, TRUE)>>}

\* Mixed runs where lengths are told with more bits.
Mixed == Letters(3) \o Digits(9) \o Capital(7) \o Digits(3) \o Letters(2)
Katakana == <<131, 126, 131, 97, 136, 234>>       \* two of three with a small letter's byte
Pairs(n) == [i \in 1..2 * n |-> IF i % 2 = 1 THEN 136 ELSE 160 + (i % 80)]
OtherStrings == {
  <<String(Mixed, 1, L, TRUE)>>, <<String(Mixed, 7, Q, FALSE)>>, <<String(Mixed, 10, M, TRUE)>>,
  <<Kanji(String(Letters(2) \o Katakana \o Digits(4) \o Katakana, 0, M, FALSE))>>,
  <<String(Digits(41), 0, L, TRUE)>>, <<String(Digits(42), 0, L, TRUE)>>,
  <<Data(<<200, 255, 1>>, 0, L)>>, <<Data(<<>>, 0, L)>>, <<String(<<65>>, 41, L, TRUE)>>,
  <<Data(Times(1300, 97), 0, H)>>}
Inputs == {
  <<Input(<<Part("NUM", Digits(5)), Part("AN", Capital(3)), Part("8", Letters(2)), Part("KANJI", Katakana)>>, 0, Q)>>,
  <<Input(<<Eci(26), Part("8", Letters(3)), Eci(1000), Part("8", Letters(3))>>, 0, L)>>,
  <<Input(<<Fnc2(165), Part("AN", Capital(6))>>, 0, M)>>,
  <<Input(<<Fnc1, Part("AN", Capital(6))>>, 0, M)>>,
  <<Input(<<Part("NUM", Capital(2))>>, 0, M)>>, <<Input(<<Eci(1000000)>>, 0, M)>>,
  <<Input(<<Part("NUM", Digits(2))>>, 41, M)>>}
Micros == {<<Micro(c)>> : c \in {
  String(Digits(3), 1, L, TRUE), String(Digits(5), 1, L, TRUE), String(Digits(7), 1, L, TRUE), String(<<65>>, 1, L, TRUE),
  String(Capital(6), 2, L, TRUE), String(Digits(8), 2, M, TRUE), Data(<<97>>, 2, L),
  Data(Letters(5), 3, L), String(Digits(9), 3, M, TRUE), String(Digits(18), 3, M, TRUE), String(Digits(20), 3, L, TRUE), Data(Letters(8), 3, M),
  Data(Letters(11), 4, M), Kanji(String(Katakana, 4, Q, TRUE)),
  Input(<<Fnc2(1), Part("NUM", Digits(2))>>, 4, L), Input(<<Part("NUM", Digits(2))>>, 1, M),
  Structured(Input(<<Part("NUM", Digits(2))>>, 4, L)), String(Digits(2), 3, Q, TRUE)}}
Sets == {
  <<Structured(String(Letters(9) \o Digits(8) \o Capital(9), 1, L, TRUE))>>,
  <<Structured(Data(Letters(20), 1, H))>>, <<Structured(Data(Letters(96), 1, H))>>,
  <<Structured(Data(Letters(90), 2, M))>>,
  <<Structured(Data(<<65>>, 0, L))>>, <<Structured(Input(<<Part("NUM", Digits(3))>>, 0, L))>>,
  <<Structured(Input(<<Fnc1, Part("NUM", Digits(30))>>, 1, L))>>,
  \* Too long by the estimate only: with no rest, and with one that leaves it too long.
  <<Structured(Kanji(String(Pairs(140), 9, L, TRUE)))>>,
  <<Structured(Kanji(String(Pairs(141), 9, L, TRUE)))>>,
  <<Set(<<<<Part("NUM", Digits(4))>>, <<Part("8", Letters(30))>>>>, 1, M)>>,
  <<Set(<<<<Part("NUM", Digits(4))>>>>, 41, M)>>, <<Set(<<>>, 1, M)>>,
  <<Set(Times(17, <<Part("NUM", Digits(4))>>), 1, M)>>,
  <<Set(<<<<Part("NUM", Digits(4))>>, <<Part("NUM", Letters(3))>>>>, 1, M)>>}
Repeated == {
  <<String(<<65>>, 1, L, TRUE), Micro(String(Digits(3), 1, L, TRUE)), Data(<<97>>, 1, L), Clear,
    Data(<<97>>, 1, L), Frame(1, TRUE), Frame(1, FALSE)>>}
Frames == {<<Frame(v, FALSE)>> : v \in 1..40} \cup {<<Frame(v, TRUE)>> : v \in 1..4}

SomeScripts == BarCodes \cup OtherStrings \cup Inputs \cup Micros \cup Sets \cup Repeated \cup Frames \cup {<<>>}

Option(opt, arg) == [opt |-> opt, arg |-> arg]
Flag(opt) == [opt |-> opt, arg |-> 0]
Qrencode(args, text) == [name |-> "qrencode", argv |-> args, text |-> text, stdin |-> FALSE]
Pipe(args, text) == [name |-> "qrencode", argv |-> args, text |-> text, stdin |-> TRUE]
Pictures == {
  Qrencode(<<Flag("o")>>, Capital(5)),
  Qrencode(<<Flag("o"), Option("s", 2), Option("m", 3), Flag("i")>>, Letters(5)),
  Qrencode(<<Flag("o"), Option("s", 2), Option("l", 3), Option("m", 0), Option("v", 1), Flag("S")>>, Letters(9)),
  Qrencode(<<Option("t", "EPS"), Option("m", 1), Option("s", 2), Flag("k"), Flag("c")>>, Katakana),
  Qrencode(<<Option("t", "SVG"), Flag("M"), Option("v", 2), Option("s", 2), Option("d", 90)>>, Digits(5)),
  Pipe(<<Option("t", "ANSI"), Flag("8")>>, Letters(3)),
  Qrencode(<<Option("t", "ANSI256"), Flag("8"), Flag("M"), Option("v", 3)>>, Letters(2)),
  Qrencode(<<Option("t", "ASCII"), Option("l", 1)>>, Digits(6)),
  Qrencode(<<Option("t", "ASCIIi"), Option("m", 1)>>, Digits(6)),
  Qrencode(<<Option("t", "SVG"), Flag("o"), Flag("S"), Flag("8"), Option("v", 1), Option("s", 1)>>, Letters(20))}
Mistakes == {
  Pipe(<<>>, <<>>), Qrencode(<<>>, Digits(3)), Pipe(<<Flag("o")>>, <<>>), Qrencode(<<Flag("h")>>, Digits(3)),
  Qrencode(<<Flag("x")>>, Digits(3)), Qrencode(<<Option("s", 0)>>, Digits(3)), Qrencode(<<Option("l", 9)>>, Digits(3)),
  Qrencode(<<Flag("o"), Option("v", 41)>>, Digits(3)), Qrencode(<<Flag("o"), Flag("M")>>, Digits(3)),
  Qrencode(<<Flag("o"), Flag("S")>>, Digits(3)), Qrencode(<<Flag("o"), Flag("M"), Option("v", 1)>>, Capital(3)),
  Qrencode(<<Flag("o"), Option("t", "ASCIIi"), Flag("S"), Option("v", 1)>>, Digits(3))}
Server(ip, pass) == [name |-> "createBarcode", ip |-> ip, pass |-> pass]
\* Of every kind of character of genRandom: marks of both modes among digits and letters.
Marks == <<33, 64, 35, 36, 37, 94, 38, 42>>
Numbers(a, b, c, d) == a \o <<46>> \o b \o <<46>> \o c \o <<46>> \o d
Servers == {Server(Address(1, 1, 1, 1), Two(75, 110, 4)), Server(Address(1, 1, 1, 1), Marks),
            Server(Numbers(<<50, 53, 53>>, <<50, 48, 48>>, <<49, 48, 48>>, <<50, 53, 53>>), Two(110, 55, 4)),
            Server(Numbers(<<49, 48>>, <<48>>, <<48>>, <<50>>), <<36, 55, 37, 65, 42, 122, 57, 33>>)}
SomePrograms == {[name |-> "library"]} \cup Pictures \cup Mistakes \cup Servers
=============================================================================
