---------------------------- MODULE InputBuffer ----------------------------
(***************************************************************************)
(* The buffer in which a peer collects what its user types until a line is *)
(* complete (input_buffer.c).  Each read appends to the bytes not handled  *)
(* yet; each line found is handed to the select loop's command handler,    *)
(* and the rest of the buffer moves to the front.                          *)
(*                                                                         *)
(* The buffer is searched as a C string, so what lies beyond cur matters.  *)
(* Definitions named ...Slip are slips a programmer might make in the      *)
(* definition that follows; they are not part of the specification.        *)
(***************************************************************************)
EXTENDS Integers, Sequences, FiniteSets

CONSTANTS
  Size,      \* USERBUF_SIZE; the buffer has one byte more
  Letters,   \* bytes of a line
  NL, NUL,   \* the newline and the zero byte
  UnsignedModulus,   \* 2^32: cur is unsigned
  MaxFill    \* how many bytes may wait in the buffer: Size, or fewer if the
             \* user is slower than the program

ASSUME InputBufferAssumption ==
  /\ Size \in Nat \ {0}
  /\ NL # NUL /\ {NL, NUL} \cap Letters = {}
  /\ UnsignedModulus \in Nat /\ Size < UnsignedModulus
  /\ MaxFill \in 1 .. Size

VARIABLES
  buf,     \* the bytes of the buffer
  cur,     \* where the next read goes
  handed,  \* the lines the last read handed over
  open,    \* standard input is read
  input    \* what the user typed and was not handled before the last read

vars == <<buf, cur, handed, open, input>>

Places == 0 .. Size

(* The places of newlines and of the lines they end.                       *)
Ends(s)    == {k \in DOMAIN s : s[k] = NL}
LineEnd(s, k) == CHOOSE e \in Ends(s) : Cardinality({d \in Ends(s) : d <= e}) = k
LineStart(s, k) == IF k = 1 THEN 1 ELSE LineEnd(s, k - 1) + 1

(* The complete lines in s, and what follows the last of them.             *)
Lines(s) == [k \in 1 .. Cardinality(Ends(s)) |->
               SubSeq(s, LineStart(s, k), LineEnd(s, k) - 1)]
Rest(s)  == SubSeq(s, LineStart(s, Cardinality(Ends(s)) + 1), Len(s))

Init ==
  /\ buf = [i \in Places |-> NUL]
  /\ cur = 0
  /\ handed = <<>>
  /\ open = TRUE
  /\ input = <<>>

(* strchr finds a newline at r.                                            *)
Found(b, r) == b[r] = NL /\ \A i \in 0 .. r - 1 : b[i] \notin {NL, NUL}

MovedSlip(b, r) == b             \* nothing is moved

(* The bytes after r move to the front; those beyond them stay.            *)
Moved(b, r) ==
  [i \in Places |-> IF i + r + 1 <= Size THEN b[i + r + 1] ELSE b[i]]

CurAfterSlip(c, r) == (c - r) % UnsignedModulus     \* the newline is not counted

CurAfter(c, r) == (c - (r + 1)) % UnsignedModulus

(* Once round the loop, if strchr finds a newline.                         *)
NextLine(s) ==
  IF \E r \in Places : Found(s.buf, r)
  THEN LET r == CHOOSE q \in Places : Found(s.buf, q)
       IN  [buf    |-> Moved([s.buf EXCEPT ![r] = NUL], r),
            cur    |-> CurAfter(s.cur, r),
            handed |-> Append(s.handed, [k \in 1 .. r |-> s.buf[k - 1]])]
  ELSE s

(* The loop over the lines: buffer, cur and lines when it ends.  The last  *)
(* byte is zero, and each round brings the first zero nearer to the front, *)
(* so that there are Size rounds at most.                                  *)
Split(b, c) ==
  LET after[n \in 0 .. Size] ==
        IF n = 0 THEN [buf |-> b, cur |-> c, handed |-> <<>>] ELSE NextLine(after[n - 1])
  IN  after[Size]

(* What a read may give.                                                   *)
Readable(bytes) == Len(bytes) \in 1 .. MaxFill - cur

(* There is no room for more.                                              *)
TooLong == cur >= Size - 1

(* process_user_input, when there is something to read.                    *)
Read(bytes) ==
  /\ open /\ ~ TooLong
  /\ Readable(bytes)
  /\ LET filled == [i \in Places |-> IF cur <= i /\ i < cur + Len(bytes)
                                     THEN bytes[i - cur + 1] ELSE buf[i]]
         split  == Split(filled, cur + Len(bytes))
     IN  /\ buf' = split.buf
         /\ cur' = split.cur
         /\ handed' = split.handed
  /\ input' = Rest(input) \o bytes
  /\ UNCHANGED open

(* The end of the input, or a line that does not fit: the input is not     *)
(* read any more, and in the second case the program ends.                 *)
Stop ==
  /\ open
  /\ open' = FALSE
  /\ handed' = <<>>
  /\ input' = Rest(input)
  /\ UNCHANGED <<buf, cur>>

Next ==
  \/ \E n \in 1 .. Size : \E bytes \in [1 .. n -> Letters \cup {NL}] : Read(bytes)
  \/ Stop

Spec == Init /\ [][Next]_vars

----------------------------------------------------------------------------
(* Every line the user completes is handed over once, whole and in order,  *)
(* and nothing else is: the code means to "shift the remaining contents    *)
(* of the buffer forward" and to find the lines in what remains.           *)
LinesAreTyped == handed = Lines(input)

(* Up to cur the buffer holds what remains to be handled, and a search for *)
(* the next newline ends there, in a C string that ends in the buffer.     *)
HoldsTheRest ==
  /\ buf[Size] = NUL
  /\ cur = Len(Rest(input))
  /\ \A i \in 0 .. cur - 1 : buf[i] = Rest(input)[i + 1]
  /\ \A r \in Places : ~ Found(buf, r)
=============================================================================
