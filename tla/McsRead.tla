------------------------------ MODULE McsRead ------------------------------
(***************************************************************************)
(* The reader of .mcs files (Intel hex records).  A file is a sequence of  *)
(* lines and a flag that says whether the last line ends with a newline; a *)
(* line is                                                                 *)
(*    start   it begins with ':'                                           *)
(*    type    record type: 0 data, 1 end of file, 4 extended address       *)
(*    addr    address field         bytes   data field                     *)
(*    sum     check sum field                                              *)
(* A reader is the number of lines consumed, the bytes of the current data *)
(* record that were not returned yet (promData from promPntr on), and the  *)
(* endOfFile flag.  The addresses the reader computes are left out: its    *)
(* only caller ignores them.                                               *)
(***************************************************************************)
EXTENDS Integers, Sequences, SequencesExt, FiniteSetsExt

CONSTANTS LineMax,   \* bytes of a data record (16)
          Files      \* the .mcs files that may be on disk, a sequence

(* The fields of a line; a data byte is one bit, as in PgpCardProm.        *)
Line == [start: BOOLEAN, type: Nat, addr: Nat, bytes: Seq({0, 1}), sum: Nat]

ASSUME FilesAssumption ==
    /\ LineMax \in Nat
    /\ Files # <<>> /\ Files \in Seq([lines: Seq(Line), newline: BOOLEAN])

FAIL  == -1
DATA  == 0
EOF   == 1
ELA   == 4
ABORT == -2        \* an exception nobody catches ends the program

SumMod   == 256
Total(s) == FoldLeft(+, 0, s)

(* The check sum makes the bytes of a line, two of them for the address,   *)
(* add up to 0; the data field of an end-of-file record is left out.       *)
SumOk(l) ==
    (Len(l.bytes) + (l.addr \div SumMod) + (l.addr % SumMod) + l.type + l.sum
     + (IF l.type = EOF THEN 0 ELSE Total(l.bytes))) % SumMod = 0

(* next() on one line: the record type, or an error. *)
Record(l) ==
    IF /\ l.start
       /\ Len(l.bytes) <= LineMax
       /\ \/ l.type = DATA /\ Len(l.bytes) # 0
          \/ l.type = EOF
          \/ l.type = ELA /\ Len(l.bytes) = 2 /\ l.addr = 0
       /\ SumOk(l)
    THEN l.type ELSE FAIL

(* next() after n lines of file f.  Behind the last line getline() either  *)
(* finds the stream no longer good, or yields an empty line whose at(0)    *)
(* throws.                                                                 *)
next == [f \in DOMAIN Files |-> [n \in 0 .. Len(Files[f].lines) |->
            IF n < Len(Files[f].lines) THEN Record(Files[f].lines[n + 1])
            ELSE IF Files[f].newline THEN ABORT ELSE FAIL]]

open == [line |-> 0, data |-> <<>>, endOfFile |-> FALSE]

(* read(): one byte, after skipping address records; the status, the byte  *)
(* when there is one, and the reader afterwards.  At the end of the file   *)
(* the caller's byte stays what it was.                                    *)
read(f, r) ==
    LET Skip(n)       == CHOOSE k \in n .. Len(Files[f].lines) :
                             next[f][k] # ELA /\ \A j \in n .. (k - 1) : next[f][j] = ELA
        Give(n, data) == [status |-> DATA, byte |-> <<Head(data)>>,
                          reader |-> [r EXCEPT !.line = n, !.data = Tail(data)]]
        Take(n, s)    == IF s = DATA THEN Give(n + 1, Files[f].lines[n + 1].bytes)
                         ELSE [status |-> s, byte |-> <<>>,
                               reader |-> [r EXCEPT !.line = n + 1, !.endOfFile = (s = EOF)]]
        Fetch(n)      == Take(n, next[f][n])
    IN  IF r.data # <<>> THEN Give(r.line, r.data) ELSE Fetch(Skip(r.line))

-----------------------------------------------------------------------------
(* Reference: a file is good if its records are valid up to an end-of-file *)
(* record, and then it stands for the bytes of its data records in order.  *)
EndLine(f)  == {k \in DOMAIN Files[f].lines : Record(Files[f].lines[k]) = EOF}
IsGood      == [f \in DOMAIN Files |->
                  /\ EndLine(f) # {}
                  /\ \A k \in 1 .. Min(EndLine(f)) : Record(Files[f].lines[k]) # FAIL]
ImageBytes  == [f \in {g \in DOMAIN Files : IsGood[g]} |->
                  FlattenSeq([k \in 1 .. (Min(EndLine(f)) - 1) |->
                      IF Files[f].lines[k].type = DATA THEN Files[f].lines[k].bytes ELSE <<>>])]
=============================================================================
