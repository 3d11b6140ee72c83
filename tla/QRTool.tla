-------------------------------- MODULE QRTool --------------------------------
(***************************************************************************)
(* The programs that call the library: createBarcode of the server         *)
(* (QRGenerator.cpp), the library's tool (main of qrenc.c), and any other  *)
(* one, which makes the calls of a script.  A command line is a sequence   *)
(* of options [opt, arg], then a text, or one to read from the input.      *)
(***************************************************************************)
EXTENDS QRReader, QRPicture, Scan

CONSTANT Programs      \* [name |-> "library"], or with more fields, see below

ASSUME ProgramsAssumption ==
  \A p \in Programs :
    /\ p.name \in {"library", "createBarcode", "qrencode"}
    /\ p.name = "createBarcode" => p.ip \in Seq(Byte) /\ p.pass \in Seq(Byte)
    /\ p.name = "qrencode" =>
         LET args == {p.argv[i] : i \in DOMAIN p.argv}
         IN  /\ p.argv \in Seq(args) /\ p.text \in Seq(Byte)
             /\ \A a \in args : a.opt \in {"s", "v", "m", "d"} => a.arg \in Int

VARIABLES
  program,    \* [name "createBarcode", ip, pass] or [name "qrencode", argv, text, stdin]
  argv,       \* the options to come
  options,    \* the tool's static variables
  phase,      \* "options", "encode", "write" or "exit"
  exitCode,
  pictures    \* the files written

progVars == <<argv, options>>
toolVars == <<program, argv, options, phase, exitCode, pictures>>

EXIT_SUCCESS == 0
EXIT_FAILURE == 1

Defaults ==
  [casesensitive |-> TRUE, eightbit |-> FALSE, version |-> 0, size |-> 3, margin |-> -1, dpi |-> 72,
   structured |-> FALSE, micro |-> FALSE, level |-> 0, kanji |-> FALSE, type |-> "PNG", outfile |-> FALSE]

ToolInit ==
  /\ Init /\ program \in Programs /\ options = Defaults
  /\ argv = IF program.name = "qrencode" THEN program.argv ELSE <<>>
  /\ script # <<>> <=> program.name = "library"
  /\ phase = (IF program.name = "library" THEN "encode" ELSE "options")
  /\ exitCode = EXIT_SUCCESS /\ pictures = <<>>

Exit(code) == phase' = "exit" /\ exitCode' = code

-----------------------------------------------------------------------------
(* What an option does to the variables; nothing, if its argument is invalid.  The
   case of -S runs into that of -k. *)
OptionSet(o) ==
  CASE o.opt = "o" -> {[options EXCEPT !.outfile = TRUE]}
    [] o.opt = "s" -> IF o.arg <= 0 THEN {} ELSE {[options EXCEPT !.size = o.arg]}
    [] o.opt = "v" -> IF o.arg < 0 THEN {} ELSE {[options EXCEPT !.version = o.arg]}
    [] o.opt = "l" -> IF o.arg \notin Level THEN {} ELSE {[options EXCEPT !.level = o.arg]}
    [] o.opt = "m" -> IF o.arg < 0 THEN {} ELSE {[options EXCEPT !.margin = o.arg]}
    [] o.opt = "d" -> IF o.arg < 0 THEN {} ELSE {[options EXCEPT !.dpi = o.arg]}
    [] o.opt = "t" -> IF o.arg \notin {"PNG", "EPS", "SVG", "ANSI", "ANSI256", "ASCII", "ASCIIi"} THEN {}
                      ELSE {[options EXCEPT !.type = o.arg]}
    [] o.opt = "S" -> {[options EXCEPT !.structured = TRUE, !.kanji = TRUE]}
    [] o.opt = "k" -> {[options EXCEPT !.kanji = TRUE]}
    [] o.opt = "c" -> {[options EXCEPT !.casesensitive = TRUE]}
    [] o.opt = "i" -> {[options EXCEPT !.casesensitive = FALSE]}
    [] o.opt = "8" -> {[options EXCEPT !.eightbit = TRUE]}
    [] o.opt = "M" -> {[options EXCEPT !.micro = TRUE]}
    [] OTHER -> {}

(* A round of main's loop over the options; -h and -V end the tool at once. *)
ParseOption ==
  /\ phase = "options" /\ argv # <<>>
  /\ argv' = Tail(argv)
  /\ \/ Head(argv).opt \in {"h", "V"} /\ Exit(EXIT_SUCCESS) /\ UNCHANGED options
     \/ Head(argv).opt \notin {"h", "V"} /\ OptionSet(Head(argv)) = {} /\ Exit(EXIT_FAILURE) /\ UNCHANGED options
     \/ options' \in OptionSet(Head(argv)) /\ UNCHANGED <<phase, exitCode>>
  /\ UNCHANGED <<program, pictures, vars>>

\* What main, readStdin and qrencodeStructured refuse.
Refused ==
  \/ ~options.outfile /\ options.type = "PNG"
  \/ program.stdin /\ program.text = <<>>
  \/ options.version > (IF options.micro THEN MicroVersionMax ELSE VersionMax)
  \/ options.micro /\ (options.version = 0 \/ options.structured)
  \/ options.structured /\ (options.version = 0 \/ options.type = "ASCIIi" \/ ~options.outfile)

(* The rest of main up to the call (encode, encodeStructured). *)
Encode ==
  /\ phase = "options" /\ argv = <<>> /\ program.name = "qrencode"
  /\ IF program.argv = <<>> /\ program.stdin
     THEN Exit(EXIT_SUCCESS) /\ UNCHANGED <<options, script>>
     ELSE IF Refused THEN Exit(EXIT_FAILURE) /\ UNCHANGED <<options, script>>
     ELSE /\ options' = [options EXCEPT !.margin = IF @ >= 0 THEN @ ELSE IF options.micro THEN 2 ELSE 4]
          /\ script' = <<[op |-> IF options.eightbit THEN "data" ELSE "string",
                          text |-> program.text, kanji |-> options.kanji, casesensitive |-> options.casesensitive,
                          version |-> options.version, level |-> options.level,
                          mqr |-> options.micro, structured |-> options.structured]>>
          /\ phase' = "encode" /\ UNCHANGED exitCode
  /\ UNCHANGED <<program, argv, pictures, call, stage, errno, codes, inputVars, codeVars, fillVars, maskVars, cacheVars>>

\* BarcodeCreator, and createBarcode up to its call.
createBarcode ==
  /\ phase = "options" /\ program.name = "createBarcode"
  /\ script' = <<[op |-> "string", text |-> BarcodeText(program.ip, program.pass), kanji |-> FALSE, casesensitive |-> TRUE,
                  version |-> 0, level |-> LevelH, mqr |-> FALSE, structured |-> FALSE]>>
  /\ phase' = "encode"
  /\ UNCHANGED <<program, argv, options, exitCode, pictures, call, stage, errno, codes,
                 inputVars, codeVars, fillVars, maskVars, cacheVars>>

(* The library at work, and its return to a program that writes pictures. *)
Library == phase = "encode" /\ Next /\ UNCHANGED toolVars
Return ==
  /\ phase = "encode" /\ program.name # "library" /\ script = <<>> /\ stage \in {"done", "failed"}
  /\ IF stage = "failed" THEN Exit(EXIT_FAILURE) ELSE phase' = "write" /\ UNCHANGED exitCode
  /\ UNCHANGED <<program, argv, options, pictures, vars>>

\* The rest of createBarcode: its one symbol, without a margin.
WriteBitmap ==
  /\ phase = "write" /\ program.name = "createBarcode"
  /\ pictures' = <<Bitmap(codes[1])>>
  /\ Exit(EXIT_SUCCESS)
  /\ UNCHANGED <<program, argv, options, vars>>

\* qrencode, or a round of the loop of qrencodeStructured over the list.
WriteImage ==
  /\ phase = "write" /\ program.name = "qrencode" /\ Len(pictures) < Len(codes)
  /\ pictures' = Append(pictures, Write(options.type, codes[Len(pictures) + 1], options.margin, options.size))
  /\ UNCHANGED <<program, argv, options, phase, exitCode, vars>>

EndOfMain ==
  /\ phase = "write" /\ program.name = "qrencode" /\ Len(pictures) = Len(codes)
  /\ Exit(EXIT_SUCCESS)
  /\ UNCHANGED <<program, argv, options, pictures, vars>>

ToolNext ==
  \/ ParseOption \/ Encode \/ createBarcode \/ Library \/ Return
  \/ WriteBitmap \/ WriteImage \/ EndOfMain
ToolSpec == ToolInit /\ [][ToolNext]_<<toolVars, vars>>

-----------------------------------------------------------------------------
(* The pictures show the symbols: whoever looks at the file number i sees the i-th
   symbol, module by module, inside the margin asked for, and a tool that exits
   with success has either written a picture of every symbol or nothing was asked
   of it (QRGenerator.cpp:118-200, qrenc.c:180-560, 582-735). *)
PictureShowsSymbol ==
  /\ \A i \in DOMAIN pictures :
       Seen(pictures[i]) =
         IF program.name = "createBarcode"
         THEN Magnified(codes[i], 0, OUT_FILE_PIXEL_PRESCALER, OUT_FILE_PIXEL_PRESCALER)
         ELSE IF options.type \in {"PNG", "EPS", "SVG"}
         THEN Magnified(codes[i], options.margin, options.size, options.size)
         ELSE Magnified(codes[i], options.margin, 2, 1)
  /\ phase = "exit" /\ stage = "done" /\ program.name # "library" => Len(pictures) = Len(codes)

(* Who scans the bar code gets in: for every address, from the shortest to the
   longest, and every password the server may think of, the phone takes the text
   it reads, connects to that address, and what it sends then passes for the
   password, whatever the server's buffer held behind it (StartActivity.java:68-73,
   ClientLogic.java:169, 197-223, BarcodeCreator.cpp:21-59, main.cpp:134-138). *)
Leftovers == {<<>>, <<55>>, <<Bar, 55>>}
ScannerGetsIn ==
  Made /\ program.name = "createBarcode" =>
    \E s \in Scanned(ReadText(codes[1])) :
      /\ s.ip = program.ip
      /\ \A behind \in Leftovers : RightPassword(LoginMessage(s.pass) \o behind, program.pass)
=============================================================================
