---------------------------- MODULE MCCommandLine ----------------------------
(* One path, files of up to three bytes, mapped from two bytes on to pages *)
(* of two; two schemas that read the same bytes as texts and as numbers.   *)
EXTENDS CommandLine

CONSTANTS p, i, j, texts, numbers

MCArguments == [file : {p, None}, schema : BOOLEAN, json : BOOLEAN,
                full_bytes : BOOLEAN, branding : BOOLEAN]

MCContents == { << >>, <<0>>, <<0, 1>>, <<1, 1, 1>> }

Placed(value, len) ==
    [placed |-> TRUE, failed |-> FALSE, byte_len |-> len, value |-> value]
Failed(placed) ==
    [placed |-> placed, failed |-> TRUE, byte_len |-> 0, value |-> None]

Plain(n) == [raw |-> n, width |-> n]
Replaced(n) == [raw |-> n, width |-> 3]

(* The limit is 4 bytes: a text that just fits, one whose replacement      *)
(* characters do not although its bytes do, wide characters across the     *)
(* limit, a run of bytes on either side of it, and a text of no bytes.     *)
TextRows(bytes) ==
    CASE bytes = << >> -> << Failed(TRUE), Placed(Ascii(<< >>), 0), Failed(FALSE) >>
      [] bytes = <<0>> -> << Placed(Ascii(<<Plain(2), Plain(2)>>), 4),
                             Placed(Ascii(<<Replaced(1), Replaced(1)>>), 2) >>
      [] bytes = <<1>> -> << Placed(Bytes(<<7>>), 1) >>
      [] bytes = <<0, 1>> -> << Placed(Ascii(<<Plain(3), Plain(2), Plain(1)>>), 6),
                                Placed(Bytes(<<7, 7, 7, 7>>), 4) >>
      [] bytes = <<1, 1>> -> << Placed(Ascii(<<Plain(1), Replaced(3), Plain(1)>>), 5) >>
      [] OTHER -> << Placed(Bytes(<<7, 7, 7, 7, 7>>), 5),
                     Placed(Ascii(<<Replaced(2), Replaced(3)>>), 5) >>

NumberRows(bytes) ==
    IF Len(bytes) = 0 THEN << >>
    ELSE << Placed(Number, 1), Placed(Float(Head(bytes) = 0), 4) >>

MCInterpretation ==
    [s \in {texts, numbers} |->
       [bytes \in ByteSeq |-> IF s = texts THEN TextRows(bytes) ELSE NumberRows(bytes)]]
=============================================================================
