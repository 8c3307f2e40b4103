----------------------------- MODULE Trampoline -----------------------------
(***************************************************************************)
(* A variadic call of a guest that goes through to libc: the wrapper that  *)
(* generate_varargs_wrapper emits packs its arguments, call_native_varargs *)
(* (varargs_trampoline.S) puts them where a C function looks for them.     *)
(*                                                                         *)
(* The stack is counted in slots of 8 bytes and grows towards 0; a slot    *)
(* with an even number begins at a multiple of 16 bytes.                   *)
(***************************************************************************)
EXTENDS Integers, Sequences

CONSTANTS Fixed,   \* numbers of fixed parameters of the functions called
          MaxArgs, \* bound: variable arguments of a call
          Kinds,   \* kinds of variable arguments: "int", "int64", "pointer"
          Entry    \* the slot of the return address: the stack has this much room

ASSUME TrampolineAssumption ==
  /\ Fixed \subseteq Nat \ {0}
  /\ MaxArgs \in Nat
  /\ Kinds \subseteq {"int", "int64", "pointer"}
  /\ Entry \in Nat /\ Entry % 2 = 1 /\ Entry > 33

VARIABLES
  at,    \* where the call is
  given, \* the kinds of the guest's variable arguments, and the fixed ones
  args,  \* _args
  regs,  \* the registers
  stack, \* the stack
  rsp    \* its pointer

passing == <<at, given, args, regs, stack, rsp>>

-----------------------------------------------------------------------------
(* The guest's arguments *)

Param(j) == [of |-> "fixed", nr |-> j]
Low(k) == [of |-> "low", nr |-> k]
High(k) == [of |-> "high", nr |-> k]
Host(k) == [of |-> "host pointer", nr |-> k]
Junk == [of |-> "junk", nr |-> 0]
Zero == [of |-> "zero", nr |-> 0]

\* The words of the guest's memory from va_ptr on, argument after argument:
\* 8 bytes are aligned.
AreaTo(kinds) ==
  LET words[k \in 0 .. Len(kinds)] ==
        IF k = 0 THEN << >>
        ELSE LET before == words[k - 1]
                 aligned == IF Len(before) % 2 = 0 THEN before ELSE Append(before, Junk)
             IN  IF kinds[k] = "int64" THEN aligned \o <<Low(k), High(k)>>
                 ELSE Append(before, Low(k))
  IN  words
Area(kinds) == AreaTo(kinds)[Len(kinds)]

WordAt(kinds, i) ==
  IF i \in 1 .. Len(Area(kinds)) THEN Area(kinds)[i] ELSE Junk

-----------------------------------------------------------------------------
(* The wrapper *)

Words == 16
Slots == 32

\* A slot of _args, its low and its high half.
Slot(low, high) == [low |-> low, high |-> high]
Pointer(j) == Slot(Param(j), Param(j))

\* Faulty form: the loop starts at the second word.
PackLate(fixed, kinds) ==
  [i \in 1 .. fixed + Words |->
     IF i <= fixed THEN Pointer(i) ELSE Slot(WordAt(kinds, i - fixed + 1), Zero)]

\* All fixed parameters, then 16 words, as far as there is room.
Pack(fixed, kinds) ==
  LET argc == IF fixed + Words < Slots THEN fixed + Words ELSE Slots
  IN  [i \in 1 .. argc |->
         IF i <= fixed THEN Pointer(i) ELSE Slot(WordAt(kinds, i - fixed), Zero)]

-----------------------------------------------------------------------------
(* call_native_varargs *)

ArgRegs == <<"rdi", "rsi", "rdx", "rcx", "r8", "r9">>
CalleeSaved == {"rbx", "rbp", "r12", "r13", "r14", "r15"}
Regs == CalleeSaved \cup {"rdi", "rsi", "rdx", "rcx", "r8", "r9", "rax"}

\* What registers and slots may hold.
Own(what) == [is |-> what, val |-> 0]
Num(n) == [is |-> "number", val |-> n]
Arg(i) == [is |-> "arg", val |-> i]
Callers(reg) == [is |-> reg, val |-> -1]

AtRest ==
  /\ at = "guest"
  /\ given = [fixed |-> 0, kinds |-> << >>]
  /\ args = << >>
  /\ regs = [r \in Regs |-> Callers(r)]
  /\ stack = [s \in 0 .. Entry |-> Own("return")]
  /\ rsp = Entry

\* Pushes of several values, the first one first.
Pushed(values) ==
  [s \in 0 .. Entry |->
     IF s \in rsp - Len(values) .. rsp - 1 THEN values[rsp - s] ELSE stack[s]]
Push(values) ==
  /\ stack' = Pushed(values)
  /\ rsp' = rsp - Len(values)

\* The guest calls, and the wrapper packs.
WrapperPacks ==
  /\ at = "guest"
  /\ \E fixed \in Fixed, n \in 0 .. MaxArgs : \E kinds \in [1 .. n -> Kinds] :
       /\ given' = [fixed |-> fixed, kinds |-> kinds]
       /\ args' = Pack(fixed, kinds)
  /\ at' = "enter"
  /\ UNCHANGED <<regs, stack, rsp>>

Prologue ==
  /\ at = "enter"
  /\ Push([i \in 1 .. 6 |-> regs[<<"rbp", "rbx", "r12", "r13", "r14", "r15">>[i]]])
  /\ regs' = [regs EXCEPT !["rbp"] = Num(rsp - 1), !["r12"] = Own("func"),
                          !["r13"] = Own("args"), !["r14"] = Num(Len(args)),
                          !["r15"] = Num(IF Len(args) > 6 THEN Len(args) - 6 ELSE 0)]
  /\ at' = "align"
  /\ UNCHANGED <<given, args>>

\* Faulty form: the slot is left for an odd number of arguments.
OddPadding(onStack) == onStack % 2

Padding(onStack) == 1 - (onStack % 2)

Align ==
  /\ at = "align"
  /\ rsp' = rsp - Padding(regs["r15"].val)
  /\ IF regs["r15"].val = 0
     THEN at' = "load" /\ UNCHANGED regs
     ELSE at' = "push" /\ regs' = [regs EXCEPT !["rcx"] = Num(regs["r14"].val - 1)]
  /\ UNCHANGED <<given, args, stack>>

\* Faulty form: jle for jl.
AtSixth(i) == i <= 6

InRegisters(i) == i < 6

\* .push_loop, from the last argument down.
PushLoop ==
  /\ at = "push"
  /\ LET i == regs["rcx"].val
     IN  IF InRegisters(i)
         THEN at' = "load" /\ UNCHANGED <<regs, stack, rsp>>
         ELSE /\ Push(<<Arg(i + 1)>>)
              /\ regs' = [regs EXCEPT !["rcx"] = Num(i - 1)]
              /\ UNCHANGED at
  /\ UNCHANGED <<given, args>>

\* .load_reg_args and the call, which pushes the address to return to.
LoadAndCall ==
  /\ at = "load"
  /\ regs' = [r \in Regs |->
       IF \E i \in 1 .. 6 : ArgRegs[i] = r /\ i <= regs["r14"].val
       THEN Arg(CHOOSE i \in 1 .. 6 : ArgRegs[i] = r)
       ELSE IF r = "rax" THEN Num(0) ELSE regs[r]]
  /\ Push(<<Own("next")>>)
  /\ at' = "callee"
  /\ UNCHANGED <<given, args>>

\* The function (external) keeps the registers that are not its own, uses the
\* stack below and its parameters on it, and returns.
CalleeReturns ==
  /\ at = "callee"
  /\ regs' = [r \in Regs |-> IF r \in CalleeSaved THEN regs[r] ELSE Own("used")]
  /\ stack' = [s \in 0 .. Entry |-> IF s <= rsp + regs["r15"].val THEN Own("used") ELSE stack[s]]
  /\ rsp' = rsp + 1
  /\ at' = "called"
  /\ UNCHANGED <<given, args>>

\* Faulty form: one slot too many.
SixSlots == 6

\* Slots of the saved registers below the one rbp points to.
SavedSlots == 5

\* The stack pointer goes back to the saved registers, which are popped.
Epilogue ==
  /\ at = "called"
  /\ LET top == regs["rbp"].val - SavedSlots
     IN  /\ regs' = [regs EXCEPT !["r15"] = stack[top], !["r14"] = stack[top + 1],
                                 !["r13"] = stack[top + 2], !["r12"] = stack[top + 3],
                                 !["rbx"] = stack[top + 4], !["rbp"] = stack[top + 5]]
         /\ rsp' = top + 6
  /\ at' = "return"
  /\ UNCHANGED <<given, args, stack>>

\* The guest has its result, and the host thread goes on in it.
BackInGuest ==
  /\ at \in {"return", "hooked"}
  /\ at' = "guest"
  /\ given' = [fixed |-> 0, kinds |-> << >>]
  /\ args' = << >>
  /\ regs' = [r \in Regs |-> Callers(r)]
  /\ stack' = [s \in 0 .. Entry |-> Own("return")]
  /\ rsp' = Entry

\* Of a function in HOOKED_FUNCTIONS, the yos_ function gets the fixed
\* parameters and the first word; ioctl and mremap get it as a pointer.
HookedCall ==
  /\ at = "guest"
  /\ \E fixed \in Fixed, kind \in {"int", "pointer"} :
       /\ given' = [fixed |-> fixed, kinds |-> <<kind>>]
       /\ args' = [i \in 1 .. fixed + 1 |->
                    IF i <= fixed THEN Pointer(i)
                    ELSE Slot(IF kind = "pointer" THEN Host(1) ELSE WordAt(<<kind>>, 1), Zero)]
  /\ at' = "hooked"
  /\ UNCHANGED <<regs, stack, rsp>>

Passes ==
  \/ WrapperPacks \/ Prologue \/ Align \/ PushLoop \/ LoadAndCall
  \/ CalleeReturns \/ Epilogue \/ HookedCall \/ BackInGuest

CallSpec == AtRest /\ [][Passes]_passing

-----------------------------------------------------------------------------
(* Properties *)

\* Where the function finds its i-th parameter.
Found(i) == IF i <= 6 THEN regs[ArgRegs[i]] ELSE stack[rsp + i - 6]

\* The stack is aligned to 16 bytes at the call.
StackAligned == at = "callee" => rsp % 2 = 1

\* What a variable argument is to the function, from the slot it is in.
Means(kind, k, slot) ==
  CASE kind = "int" -> slot.low = Low(k)
    [] kind = "int64" -> slot = Slot(Low(k), High(k))
    [] kind = "pointer" -> slot.low = Host(k)

\* The function finds each slot of _args, in order, where the host's calling
\* convention has its parameters.
ParametersFound == at = "callee" => \A i \in 1 .. Len(args) : Found(i) = Arg(i)

\* _args holds the fixed parameters, and after them the guest's variable
\* arguments up to the sixteenth.
ArgsArrive ==
  at \in {"callee", "hooked"} =>
    /\ \A j \in 1 .. given.fixed : args[j] = Pointer(j)
    /\ \A k \in 1 .. Len(given.kinds) :
         k <= Words => Means(given.kinds[k], k, args[given.fixed + k])

\* The wrapper gets its registers and its stack back.
FrameRestored ==
  at = "return" =>
    /\ \A r \in CalleeSaved : regs[r] = Callers(r)
    /\ rsp = Entry /\ stack[rsp] = Own("return")

=============================================================================
