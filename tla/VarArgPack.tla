----------------------------- MODULE VarArgPack -----------------------------
(***************************************************************************)
(* printf and its kin by a packed argument list: the guest's side, emitted *)
(* by obsolete/src/codegen/gen-syscalls.py, reads the format and packs one *)
(* value for each conversion it knows (__varargs_pack_printf); the host    *)
(* (yos_varargs_call) reads the format again and formats value by value.   *)
(*                                                                         *)
(* A format is a sequence of conversions and pieces of text of one         *)
(* character.  A value of the guest is a word of 4 bytes.  Formats that    *)
(* end inside a conversion, where yos_varargs_call reads on behind the end *)
(* of the string, are left out.                                            *)
(***************************************************************************)
EXTENDS Integers, Sequences, FiniteSets

CONSTANTS Pieces,    \* what formats are made of
          MaxLen,    \* bound: pieces of a format
          MaxValues, \* VARG_MAX, 16 in the code
          BufSize,   \* sizeof(buf), 4096 in the code
          Widths,    \* lengths of formatted values
          Sizes      \* sizes given to snprintf

ASSUME VarArgPackAssumption ==
  /\ Pieces \subseteq {"text", "%%", "%d", "%u", "%ld", "%lu", "%s", "%p", "%c",
                       "%f", "%5%", "%*d"}
  /\ MaxLen \in Nat /\ MaxValues \in Nat \ {0}
  /\ BufSize \in Nat \ {0}
  /\ Widths \subseteq Nat /\ Sizes \subseteq Nat

VARIABLES
  doing,  \* where the call is
  format, \* the whole format
  rest,   \* what is left of it
  pack,   \* the VarArgPack: types, the guest's words of values, and n
  func,   \* the function that was called, and str_size
  arg_idx,
  buf,    \* the pieces in buf
  out,    \* how far out is from the start of buf
  held,   \* how much text buf holds
  total,
  ret     \* the result, what is stored where

packing == <<doing, format, rest, pack, func, arg_idx, buf, out, held, total, ret>>

-----------------------------------------------------------------------------

END == "VARG_END"

\* What the guest packs for a conversion; nothing for those it does not know.
Packs == [p \in {"%d", "%u", "%ld", "%lu", "%s", "%p", "%c"} |->
            CASE p = "%d" -> "VARG_INT" [] p = "%u" -> "VARG_UINT"
              [] p = "%ld" -> "VARG_LONG" [] p = "%lu" -> "VARG_ULONG"
              [] p = "%s" -> "VARG_STR" [] p = "%p" -> "VARG_PTR" [] p = "%c" -> "VARG_CHAR"]

IsValue(p) == p \in DOMAIN Packs

\* The words of values; those not written are 0.
Value(k) == [is |-> "value", nr |-> k]
ZeroWord == [is |-> "zero", nr |-> 0]
Beyond == [is |-> "beyond", nr |-> 0]
Clobbered == [is |-> "clobbered", nr |-> 0]

Empty == [types |-> [i \in 1 .. MaxValues |-> END], words |-> [i \in 1 .. MaxValues |-> ZeroWord], n |-> 0]

None == <<"none", 0>>

Resting ==
  /\ doing = "guest"
  /\ format = << >> /\ rest = << >>
  /\ pack = Empty /\ func = None /\ arg_idx = 0
  /\ buf = << >> /\ out = 0 /\ held = 0 /\ total = 0
  /\ ret = << >>

-----------------------------------------------------------------------------
(* The guest *)

CallsPrintf ==
  /\ doing = "guest"
  /\ \E len \in 0 .. MaxLen : \E f \in [1 .. len -> Pieces] : format' = f /\ rest' = f
  /\ doing' = "packing"
  /\ UNCHANGED <<pack, func, arg_idx, buf, out, held, total, ret>>

\* Faulty form: one type for both sizes of integers.
OneInt(p) == IF p = "%ld" THEN "VARG_INT" ELSE Packs[p]

TypeOf(p) == Packs[p]

\* One turn of the loop of __varargs_pack_printf.
PackNext ==
  /\ doing = "packing" /\ rest # << >> /\ pack.n < MaxValues
  /\ LET p == Head(rest)
     IN  pack' = IF IsValue(p)
                 THEN [types |-> [pack.types EXCEPT ![pack.n + 1] = TypeOf(p)],
                       words |-> [pack.words EXCEPT ![pack.n + 1] = Value(pack.n + 1)],
                       n |-> pack.n + 1]
                 ELSE pack
  /\ rest' = Tail(rest)
  /\ UNCHANGED <<doing, format, func, arg_idx, buf, out, held, total, ret>>

\* The end is marked behind the last type: behind the last of all lies the
\* first value.
PackEnds ==
  /\ doing = "packing" /\ (rest = << >> \/ pack.n = MaxValues)
  /\ pack' = IF pack.n < MaxValues THEN [pack EXCEPT !.types[pack.n + 1] = END]
             ELSE [pack EXCEPT !.words[1] = Clobbered]
  /\ doing' = "packed"
  /\ UNCHANGED <<format, rest, func, arg_idx, buf, out, held, total, ret>>

-----------------------------------------------------------------------------
(* yos_varargs_call *)

\* Bound: sprintf into a string without a size.
Unlimited == -1

\* The functions by their numbers, and the size of the string they may write.
\* The sixth function of the guest, sscanf, is the host's VFUNC_VASPRINTF.
Funcs == {<<"printf", 0>>, <<"fprintf", 0>>, <<"sprintf", Unlimited>>,
          <<"dprintf", 0>>, <<"sscanf", Unlimited>>}
           \cup {<<"snprintf", size>> : size \in Sizes}

\* The number tells which argument is the format, and where the text goes.
HostEnters ==
  /\ doing = "packed"
  /\ func' \in Funcs
  /\ doing' = "formatting" /\ rest' = format
  /\ UNCHANGED <<format, pack, arg_idx, buf, out, held, total, ret>>

\* Behind the pack lies what else is on the guest's stack.
WordOf(j) == IF j \in 1 .. MaxValues THEN pack.words[j] ELSE Beyond

\* values[i] of the host, whose longs are two of the guest's: an int is the low
\* half, a long is both.
Read(type, i) ==
  LET low == WordOf(2 * i - 1)
      high == WordOf(2 * i)
  IN  IF type \in {"VARG_LONG", "VARG_ULONG"} THEN <<low, high>> ELSE <<low>>

\* Faulty form: the end of buf itself may be written.
NoRoomForEnd == out < BufSize

Room == out < BufSize - 1

\* Text and "%%" are copied.
CopyText ==
  /\ doing = "formatting" /\ rest # << >> /\ Room
  /\ Head(rest) \in {"text", "%%"}
  /\ buf' = Append(buf, <<Head(rest)>>)
  /\ out' = out + 1 /\ held' = out + 1 /\ total' = total + 1
  /\ rest' = Tail(rest)
  /\ UNCHANGED <<doing, format, pack, func, arg_idx, ret>>

HasValue == arg_idx < MaxValues /\ pack.types[arg_idx + 1] # END

\* Faulty form: the next conversion gets the same value.
SameValue == arg_idx

NextValue == arg_idx + 1

\* snprintf writes what there is room for, and tells how much there was.
Written(n) == IF n < BufSize - out THEN n ELSE BufSize - out - 1

\* Every other conversion takes the next value, by the type it was packed with;
\* without one nothing is written.
FormatValue ==
  /\ doing = "formatting" /\ rest # << >> /\ Room
  /\ Head(rest) \notin {"text", "%%"}
  /\ IF HasValue
     THEN /\ \E n \in Widths :
               /\ out' = out + n /\ held' = out + Written(n) /\ total' = total + n
               /\ buf' = Append(buf, <<Head(rest), pack.types[arg_idx + 1],
                                       Read(pack.types[arg_idx + 1], arg_idx + 1)>>)
          /\ arg_idx' = NextValue
     ELSE UNCHANGED <<arg_idx, buf, out, held, total>>
  /\ rest' = Tail(rest)
  /\ UNCHANGED <<doing, format, pack, func, ret>>

\* How much of buf reaches the string, and the result.
Stored ==
  CASE func[1] = "snprintf" ->
         (IF func[2] = 0 THEN 0 ELSE IF held < func[2] THEN held ELSE func[2] - 1)
    [] func[1] = "sscanf" -> 0
    [] func[1] = "dprintf" -> total
    [] OTHER -> held
Result == IF func[1] = "sscanf" THEN -1 ELSE total

Output ==
  /\ doing = "formatting" /\ (rest = << >> \/ ~Room)
  /\ ret' = <<Result, Stored>>
  /\ doing' = "returned"
  /\ UNCHANGED <<format, rest, pack, func, arg_idx, buf, out, held, total>>

PrintfReturns ==
  /\ doing = "returned"
  /\ doing' = "guest"
  /\ format' = << >> /\ rest' = << >>
  /\ pack' = Empty /\ func' = None /\ arg_idx' = 0
  /\ buf' = << >> /\ out' = 0 /\ held' = 0 /\ total' = 0
  /\ ret' = << >>

PrintsPacked ==
  \/ CallsPrintf \/ PackNext \/ PackEnds \/ HostEnters
  \/ CopyText \/ FormatValue \/ Output \/ PrintfReturns

PrintSpec == Resting /\ [][PrintsPacked]_packing

-----------------------------------------------------------------------------
(* Properties *)

\* Where the first i pieces of a format have values.
ValuesTo(f, i) == {j \in 1 .. i : IsValue(f[j])}

\* What should come of the pieces of a format, one after the other: the
\* conversions beyond VARG_MAX are left out.
ShownTo(f) ==
  LET shown[i \in 0 .. Len(f)] ==
        IF i = 0 THEN << >>
        ELSE IF IsValue(f[i]) /\ Cardinality(ValuesTo(f, i)) > MaxValues
             THEN shown[i - 1] ELSE Append(shown[i - 1], f[i])
  IN  shown
Shown(f) == ShownTo(f)[Len(f)]

\* The two readers of a format agree: what is written follows the format piece
\* by piece, and each conversion is formatted with the type the guest packed
\* for it.
PrintedInOrder ==
  /\ Len(buf) <= Len(Shown(format))
  /\ \A i \in DOMAIN buf :
       LET p == Shown(format)[i]
       IN  buf[i][1] = p /\ (IsValue(p) => buf[i][2] = Packs[p])

\* The only value of a format is printed as the guest gave it: the half of a
\* long the guest's word does not reach is 0.
OneValueKept ==
  Cardinality(ValuesTo(format, Len(format))) = 1 =>
    \A i \in DOMAIN buf : IsValue(buf[i][1]) =>
      buf[i][3] = IF buf[i][1] \in {"%ld", "%lu"} THEN <<Value(1), ZeroWord>> ELSE <<Value(1)>>

\* Text never runs over the end of buf, and is as long as the count says unless
\* snprintf cut the last value: then buf is full, and the count, which runs
\* ahead of it, is no longer one that buf could hold.  So a call whose count is
\* below BufSize - 1 has printed all that was to be shown.
TextInBuf ==
  /\ held <= BufSize - 1
  /\ held # total => held = BufSize - 1 /\ total >= BufSize
  /\ doing = "returned" /\ total < BufSize - 1 => Len(buf) = Len(Shown(format))

=============================================================================
