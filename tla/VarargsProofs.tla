--------------------------- MODULE VarargsProofs ---------------------------
(***************************************************************************)
(* What holds of a variadic call with any number of arguments: first the   *)
(* one through the trampoline, then the one with a packed argument list.   *)
(***************************************************************************)
EXTENDS Trampoline, VarArgPack, FiniteSetTheorems, WellFoundedInduction, TLAPS

-----------------------------------------------------------------------------
(* Numbers *)

\* A set of numbers has a least one.
LEMMA LeastNumber ==
  ASSUME NEW T \in SUBSET Nat, T # {}
  PROVE  \E x \in T : \A y \in T : x <= y
<1> DEFINE R == StrictSubsetOrdering(Nat)
           I == {0 .. n : n \in T}
<1>1. I \subseteq FiniteSubsetsOf(Nat) /\ I # {}
  <2>1. ASSUME NEW n \in T
        PROVE  IsFiniteSet(0 .. n)
    BY FS_Interval
  <2>2. ASSUME NEW n \in T
        PROVE  0 .. n \in SUBSET Nat
    OBVIOUS
  <2>3. QED
    BY <2>1, <2>2, Zenon DEF FiniteSubsetsOf
<1>2. IsWellFoundedOn(R, FiniteSubsetsOf(Nat))
  BY FS_StrictSubsetOrderingWellFounded
<1> HIDE DEF I, R
<1>3. PICK i \in I : \A j \in I : ~ (<<j, i>> \in R)
  BY <1>1, <1>2, WFMin
<1> USE DEF I, R
<1>4. PICK x \in T : i = 0 .. x
  BY <1>3
<1>5. ASSUME NEW y \in T, y < x
      PROVE  FALSE
  <2>1. 0 .. y \in I /\ 0 .. y \subseteq 0 .. x /\ x \notin 0 .. y /\ x \in 0 .. x
    BY <1>5
  <2>2. <<0 .. y, i>> \in R
    BY <2>1, <1>4 DEF StrictSubsetOrdering
  <2>3. QED
    BY <1>3, <2>1, <2>2
<1>6. QED
  BY <1>4, <1>5

-----------------------------------------------------------------------------
(* Sequences *)

IsSeq(s) == \E S : s \in Seq(S)

\* What is appended to a sequence comes last, and nothing else changes.
LEMMA Appended ==
  ASSUME NEW s, IsSeq(s), NEW x
  PROVE  /\ IsSeq(Append(s, x)) /\ Len(s) \in Nat /\ Len(Append(s, x)) = Len(s) + 1
         /\ DOMAIN s = 1 .. Len(s)
         /\ \A i \in 1 .. Len(s) : Append(s, x)[i] = s[i]
         /\ Append(s, x)[Len(s) + 1] = x
<1>1. PICK S : s \in Seq(S)
  BY DEF IsSeq
<1>2. PICK U : U = S \cup {x}
  OBVIOUS
<1>3. Len(s) \in Nat /\ s \in [1 .. Len(s) -> S] /\ DOMAIN s = 1 .. Len(s)
  BY <1>1
<1>4. s \in [1 .. Len(s) -> U]
  BY <1>2, <1>3
<1>5. s \in Seq(U) /\ x \in U
  BY <1>2, <1>3, <1>4
<1>6. Append(s, x) \in Seq(U)
  BY <1>5
<1>7. QED
  BY <1>3, <1>5, <1>6 DEF IsSeq

-----------------------------------------------------------------------------
(* For a stack of any depth: call_native_varargs calls with an aligned     *)
(* stack and each argument in its place, and gives the wrapper its         *)
(* registers back.                                                         *)

OnStack == IF Len(args) > 6 THEN Len(args) - 6 ELSE 0

\* The lowest of the saved registers, and the lowest of the parameters.
SavedEnd == Entry - 6
ParamsEnd == SavedEnd - Padding(OnStack) - OnStack

CallTypes ==
  /\ at \in {"guest", "enter", "align", "push", "load", "callee", "called", "return", "hooked"}
  /\ at # "hooked" => Len(args) \in 0 .. 32
  /\ regs = [r \in Regs |-> regs[r]]
  /\ stack = [s \in 0 .. Entry |-> stack[s]]
  /\ rsp \in Int

\* Outside of the frame everything is the wrapper's.
Outside ==
  /\ stack[Entry] = Own("return")
  /\ at \in {"guest", "enter", "return", "hooked"} =>
       rsp = Entry /\ \A r \in CalleeSaved : regs[r] = Callers(r)

\* Within it the registers of the wrapper are on the stack.
SavedFrame ==
  at \in {"align", "push", "load", "callee", "called"} =>
    /\ regs["rbp"] = Num(Entry - 1)
    /\ regs["r14"] = Num(Len(args))
    /\ regs["r15"] = Num(OnStack)
    /\ stack[Entry - 1] = Callers("rbp") /\ stack[Entry - 2] = Callers("rbx")
    /\ stack[Entry - 3] = Callers("r12") /\ stack[Entry - 4] = Callers("r13")
    /\ stack[Entry - 5] = Callers("r14") /\ stack[Entry - 6] = Callers("r15")

\* The loop has pushed the arguments behind the next, the i-th from 0.
Pushing(i) ==
  /\ Len(args) > 6 /\ i \in 5 .. (Len(args) - 1)
  /\ rsp = ParamsEnd + (i - 5)
  /\ \A j \in (i + 2) .. Len(args) : stack[rsp + (j - (i + 2))] = Arg(j)

Positions ==
  /\ at = "align" => rsp = SavedEnd
  /\ at = "push" => regs["rcx"].val \in Int /\ Pushing(regs["rcx"].val)
  /\ at = "load" => rsp = ParamsEnd /\ \A j \in 7 .. Len(args) : stack[rsp + (j - 7)] = Arg(j)
  /\ at = "callee" => rsp = ParamsEnd - 1

CallInv == CallTypes /\ Outside /\ SavedFrame /\ Positions /\ ParametersFound

-----------------------------------------------------------------------------
(* Numbers, places and registers of a call *)

\* A number in a register is read as it was put there.
LEMMA NumVals == \A n : Num(n).val = n
BY DEF Num

\* The place of the lowest parameter, above the end of the stack.
LEMMA Places ==
  ASSUME CallTypes, at # "hooked"
  PROVE  /\ OnStack \in 0 .. 26 /\ (Len(args) > 6 => OnStack = Len(args) - 6)
         /\ (Len(args) <= 6 => OnStack = 0)
         /\ Padding(OnStack) \in 0 .. 1 /\ (Padding(OnStack) + OnStack) % 2 = 1
         /\ SavedEnd \in Int /\ ParamsEnd \in Int
         /\ ParamsEnd > 0 /\ ParamsEnd <= SavedEnd /\ SavedEnd = Entry - 6
         /\ ParamsEnd = SavedEnd - Padding(OnStack) - OnStack
         /\ Entry \in Nat /\ Entry > 33
<1>1. Len(args) \in 0 .. 32 /\ Entry \in Nat /\ Entry > 33
  BY TrampolineAssumption DEF CallTypes
<1>2. OnStack \in 0 .. 26 /\ (Len(args) > 6 => OnStack = Len(args) - 6)
      /\ (Len(args) <= 6 => OnStack = 0)
  <2>1. \A n \in 0 .. 32 : /\ (IF n > 6 THEN n - 6 ELSE 0) \in 0 .. 26
                           /\ (n > 6 => (IF n > 6 THEN n - 6 ELSE 0) = n - 6)
                           /\ (n <= 6 => (IF n > 6 THEN n - 6 ELSE 0) = 0)
    OBVIOUS
  <2> QED
    BY <2>1, <1>1, Zenon DEF OnStack
<1>3. Padding(OnStack) \in 0 .. 1 /\ (Padding(OnStack) + OnStack) % 2 = 1
  <2> DEFINE n == OnStack
  <2>1. n \in Int
    BY <1>2
  <2> HIDE DEF n
  <2>2. n % 2 \in 0 .. 1 /\ (1 - (n % 2) + n) % 2 = 1
    BY <2>1
  <2> QED
    BY <2>2 DEF Padding, n
<1> QED
  BY <1>1, <1>2, <1>3 DEF SavedEnd, ParamsEnd

\* The call pushes one slot more, below an odd number of others.
LEMMA Even ==
  ASSUME CallTypes, at # "hooked"
  PROVE  (ParamsEnd - 1) % 2 = 1
<1>1. Entry % 2 = 1
  BY TrampolineAssumption
<1>2. /\ Padding(OnStack) \in Int /\ OnStack \in Int /\ Entry \in Int /\ SavedEnd = Entry - 6
      /\ (Padding(OnStack) + OnStack) % 2 = 1
      /\ ParamsEnd = SavedEnd - Padding(OnStack) - OnStack
  BY Places
<1>3. ParamsEnd - 1 = Entry - 7 - (Padding(OnStack) + OnStack)
  BY <1>2
<1>4. \A e, odd \in Int : e % 2 = 1 /\ odd % 2 = 1 => (e - 7 - odd) % 2 = 1
  OBVIOUS
<1>5. Padding(OnStack) + OnStack \in Int
  BY <1>2
<1> QED
  BY <1>1, <1>2, <1>3, <1>4, <1>5, Zenon

\* The registers of parameters differ, and the callee need not keep them.
LEMMA ArgRegsDiffer ==
  /\ \A i, k \in 1 .. 6 : ArgRegs[i] = ArgRegs[k] => i = k
  /\ \A i \in 1 .. 6 : ArgRegs[i] \in Regs /\ ArgRegs[i] \notin CalleeSaved /\ ArgRegs[i] # "rax"
<1>1. ArgRegs[1] = "rdi" /\ ArgRegs[2] = "rsi" /\ ArgRegs[3] = "rdx"
      /\ ArgRegs[4] = "rcx" /\ ArgRegs[5] = "r8" /\ ArgRegs[6] = "r9"
  BY DEF ArgRegs
<1>2. \A i \in 1 .. 6 : i = 1 \/ i = 2 \/ i = 3 \/ i = 4 \/ i = 5 \/ i = 6
  OBVIOUS
<1> QED
  BY <1>1, <1>2 DEF Regs, CalleeSaved

\* _args has at most its 32 slots.
LEMMA PackLength ==
  ASSUME NEW fixed \in Nat, NEW kinds
  PROVE  Len(Pack(fixed, kinds)) \in 0 .. 32
<1> DEFINE argc == IF fixed + Words < Slots THEN fixed + Words ELSE Slots
<1>1. argc \in 0 .. 32
  BY DEF Words, Slots
<1>2. \E f : Pack(fixed, kinds) = [i \in 1 .. argc |-> f[i]]
  <2> DEFINE f == [i \in 1 .. argc |-> IF i <= fixed THEN Pointer(i) ELSE Slot(WordAt(kinds, i - fixed), Zero)]
  <2>1. Pack(fixed, kinds) = f
    BY DEF Pack
  <2>2. f = [i \in 1 .. argc |-> f[i]]
    OBVIOUS
  <2> QED
    BY <2>1, <2>2
<1> HIDE DEF argc
<1> QED
  BY <1>1, <1>2

-----------------------------------------------------------------------------
(* The invariant of a call *)

\* The invariant holds at rest, and each step of a call keeps it.
LEMMA CallInvHolds == AtRest => CallInv
<1> SUFFICES ASSUME AtRest PROVE CallInv
  OBVIOUS
<1>1. CallTypes
  BY TrampolineAssumption DEF AtRest, CallTypes
<1>2. stack[Entry] = Own("return") /\ \A r \in CalleeSaved : regs[r] = Callers(r)
  BY TrampolineAssumption DEF AtRest, Regs
<1> QED
  BY <1>1, <1>2 DEF AtRest, CallInv, Outside, SavedFrame, Positions, ParametersFound

LEMMA WrapperPacksKept == ASSUME CallInv, WrapperPacks PROVE CallInv'
<1>1. Len(args') \in 0 .. 32
  BY PackLength, TrampolineAssumption DEF WrapperPacks
<1> QED
  BY <1>1 DEF WrapperPacks, CallInv, CallTypes, Outside, SavedFrame, Positions, ParametersFound

LEMMA HookedCallKept == ASSUME CallInv, HookedCall PROVE CallInv'
BY DEF HookedCall, CallInv, CallTypes, Outside, SavedFrame, Positions, ParametersFound

LEMMA BackInGuestKept == ASSUME CallInv, BackInGuest PROVE CallInv'
<1>1. AtRest'
  BY DEF BackInGuest, AtRest
<1>2. CallTypes'
  BY <1>1, TrampolineAssumption DEF AtRest, CallTypes
<1>3. stack'[Entry] = Own("return") /\ \A r \in CalleeSaved : regs'[r] = Callers(r)
  BY <1>1, TrampolineAssumption DEF AtRest, Regs
<1> QED
  BY <1>1, <1>2, <1>3 DEF AtRest, CallInv, Outside, SavedFrame, Positions, ParametersFound

LEMMA PrologueKept == ASSUME CallInv, Prologue PROVE CallInv'
<1> DEFINE saved == [i \in 1 .. 6 |-> regs[<<"rbp", "rbx", "r12", "r13", "r14", "r15">>[i]]]
<1>1. at = "enter" /\ at' = "align" /\ args' = args /\ rsp = Entry /\ Entry \in Nat /\ Entry > 33
  BY TrampolineAssumption DEF Prologue, CallInv, Outside
<1>2. CallTypes /\ \A r \in CalleeSaved : regs[r] = Callers(r)
  BY <1>1 DEF CallInv, Outside
<1>3. saved[1] = Callers("rbp") /\ saved[2] = Callers("rbx") /\ saved[3] = Callers("r12")
      /\ saved[4] = Callers("r13") /\ saved[5] = Callers("r14") /\ saved[6] = Callers("r15")
  BY <1>2 DEF CalleeSaved
<1>4. Len(saved) = 6
  OBVIOUS
<1>5. stack' = Pushed(saved) /\ rsp' = rsp - Len(saved)
  BY DEF Prologue, Push
<1> HIDE DEF saved
<1>6. stack' = [s \in 0 .. Entry |-> IF s \in (Entry - 6) .. (Entry - 1) THEN saved[Entry - s] ELSE stack[s]]
  BY <1>1, <1>4, <1>5 DEF Pushed
<1>7. /\ stack'[Entry] = stack[Entry]
      /\ stack'[Entry - 1] = saved[1] /\ stack'[Entry - 2] = saved[2] /\ stack'[Entry - 3] = saved[3]
      /\ stack'[Entry - 4] = saved[4] /\ stack'[Entry - 5] = saved[5] /\ stack'[Entry - 6] = saved[6]
  BY <1>1, <1>6
<1>8. stack' = [s \in 0 .. Entry |-> stack'[s]]
  BY <1>6
<1>9. regs' = [regs EXCEPT !["rbp"] = Num(Entry - 1), !["r12"] = Own("func"),
                           !["r13"] = Own("args"), !["r14"] = Num(Len(args)),
                           !["r15"] = Num(OnStack)]
  BY <1>1 DEF Prologue, OnStack
<1>10. /\ regs' = [r \in Regs |-> regs'[r]]
       /\ regs'["rbp"] = Num(Entry - 1) /\ regs'["r14"] = Num(Len(args)) /\ regs'["r15"] = Num(OnStack)
  BY <1>2, <1>9 DEF CallTypes, Regs, CalleeSaved
<1>11. CallTypes' /\ OnStack' = OnStack
  BY <1>1, <1>2, <1>4, <1>5, <1>8, <1>10 DEF CallTypes, OnStack
<1>12. rsp' = SavedEnd'
  BY <1>1, <1>4, <1>5 DEF SavedEnd
<1> QED
  BY <1>1, <1>3, <1>7, <1>10, <1>11, <1>12
  DEF CallInv, Outside, SavedFrame, Positions, ParametersFound

LEMMA AlignKept == ASSUME CallInv, Align PROVE CallInv'
<1>1. /\ at = "align" /\ rsp = SavedEnd /\ regs["r15"] = Num(OnStack) /\ regs["r14"] = Num(Len(args))
      /\ stack' = stack /\ args' = args /\ CallTypes
  BY DEF Align, CallInv, Positions, SavedFrame
<1>2. rsp' = SavedEnd - Padding(OnStack)
  BY <1>1, NumVals DEF Align
<1>3. /\ OnStack' = OnStack /\ SavedEnd' = SavedEnd /\ ParamsEnd' = ParamsEnd
  BY <1>1 DEF OnStack, SavedEnd, ParamsEnd, Padding
<1>4. CASE OnStack = 0
  <2>1. at' = "load" /\ regs' = regs
    BY <1>1, <1>4, NumVals DEF Align
  <2>2. rsp' = ParamsEnd /\ Len(args) <= 6
    BY <1>1, <1>2, <1>4, Places DEF CallTypes
  <2>3. \A j \in 7 .. Len(args) : FALSE
    BY <2>2, <1>1 DEF CallTypes
  <2>4. CallTypes'
    BY <1>1, <2>1, <2>2, Places DEF CallTypes
  <2> QED
    BY <1>1, <1>3, <2>1, <2>2, <2>3, <2>4 DEF CallInv, Outside, SavedFrame, Positions, ParametersFound
<1>5. CASE OnStack # 0
  <2>1. at' = "push" /\ regs' = [regs EXCEPT !["rcx"] = Num(Len(args) - 1)]
    BY <1>1, <1>5, NumVals DEF Align
  <2>2. /\ regs' = [r \in Regs |-> regs'[r]] /\ regs'["rcx"] = Num(Len(args) - 1)
        /\ \A r \in Regs : r # "rcx" => regs'[r] = regs[r]
    BY <1>1, <2>1 DEF CallTypes, Regs
  <2>3. Len(args) \in 7 .. 32 /\ OnStack = Len(args) - 6
    <3>1. \A n \in 0 .. 32 : ~ (n <= 6) => n \in 7 .. 32 /\ n > 6
      OBVIOUS
    <3>2. Len(args) \in 0 .. 32 /\ ~ (Len(args) <= 6)
      BY <1>1, <1>5, Places DEF CallTypes
    <3> QED
      BY <1>1, <3>1, <3>2, Places, Zenon
  <2>4. rsp' = ParamsEnd + ((Len(args) - 1) - 5) /\ rsp' \in Int
    BY <1>1, <1>2, <2>3, Places
  <2>5. \A j \in ((Len(args) - 1) + 2) .. Len(args) : FALSE
    BY <2>3
  <2>6. CallTypes'
    BY <1>1, <2>1, <2>2, <2>4 DEF CallTypes
  <2>7. regs'["rcx"].val = Len(args) - 1
    BY <2>2, NumVals
  <2>8. regs'["rcx"].val \in Int /\ Pushing(regs["rcx"].val)'
    <3>1. \A n \in 7 .. 32 : n > 6 /\ n - 1 \in 5 .. (n - 1) /\ n - 1 \in Int
      OBVIOUS
    <3>2. Len(args) > 6 /\ Len(args) - 1 \in 5 .. (Len(args) - 1) /\ Len(args) - 1 \in Int
      BY <2>3, <3>1, Zenon
    <3> QED
      BY <1>1, <1>3, <2>4, <2>5, <2>7, <3>2 DEF Pushing
  <2>9. Positions'
    BY <2>1, <2>8 DEF Positions
  <2>10. regs'["rbp"] = regs["rbp"] /\ regs'["r14"] = regs["r14"] /\ regs'["r15"] = regs["r15"]
    BY <2>2 DEF Regs, CalleeSaved
  <2> QED
    BY <1>1, <1>3, <2>1, <2>6, <2>9, <2>10 DEF CallInv, Outside, SavedFrame, ParametersFound
<1> QED
  BY <1>4, <1>5

\* One turn of the loop pushes the next argument on top of those after it.
LEMMA PushLoopKept == ASSUME CallInv, PushLoop PROVE CallInv'
<1> DEFINE i == regs["rcx"].val
<1>1. /\ at = "push" /\ CallTypes /\ Outside /\ SavedFrame /\ Pushing(i) /\ i \in Int
      /\ args' = args
  BY DEF PushLoop, CallInv, Positions
<1>2. /\ OnStack' = OnStack /\ SavedEnd' = SavedEnd /\ ParamsEnd' = ParamsEnd
  BY <1>1 DEF OnStack, SavedEnd, ParamsEnd, Padding
<1>3. /\ Entry \in Nat /\ ParamsEnd \in Int /\ ParamsEnd > 0 /\ OnStack \in Int
      /\ Padding(OnStack) \in 0 .. 1 /\ SavedEnd = Entry - 6
      /\ ParamsEnd = SavedEnd - Padding(OnStack) - OnStack
  BY <1>1, Places
<1>4. Len(args) \in 7 .. 32 /\ i \in 5 .. (Len(args) - 1) /\ OnStack = Len(args) - 6
  <2>1. Len(args) \in 0 .. 32 /\ i \in 5 .. (Len(args) - 1)
    BY <1>1 DEF CallTypes, Pushing
  <2>2. regs["r15"] = Num(OnStack)
    BY <1>1 DEF SavedFrame
  <2>3. Len(args) > 6
    BY <1>1 DEF Pushing
  <2>4. \A n \in 0 .. 32 : n > 6 => n \in 7 .. 32
    OBVIOUS
  <2> QED
    BY <1>1, <2>1, <2>3, <2>4, Places, Zenon
<1>5. rsp = ParamsEnd + (i - 5) /\ rsp \in Int
  BY <1>1 DEF Pushing, CallTypes
<1> HIDE DEF i
<1>6. CASE i < 6
  <2>1. at' = "load" /\ regs' = regs /\ stack' = stack /\ rsp' = rsp
    BY <1>6 DEF PushLoop, InRegisters, i
  <2>2. i = 5
    BY <1>4, <1>6
  <2>3. rsp = ParamsEnd
    BY <1>3, <1>5, <2>2
  <2>4. \A j \in 7 .. Len(args) : stack[rsp + (j - 7)] = Arg(j)
    BY <1>1, <2>2 DEF Pushing
  <2> QED
    BY <1>1, <1>2, <2>1, <2>3, <2>4 DEF CallInv, CallTypes, Outside, SavedFrame, Positions, ParametersFound
<1>7. CASE ~ (i < 6)
  <2>1. at' = "push" /\ stack' = Pushed(<<Arg(i + 1)>>) /\ rsp' = rsp - 1
        /\ regs' = [regs EXCEPT !["rcx"] = Num(i - 1)]
    BY <1>1, <1>7 DEF PushLoop, InRegisters, Push, i
  <2>2. rsp \in 1 .. SavedEnd
    <3> DEFINE n == Len(args)  o == OnStack  p == Padding(OnStack)
    <3>1. /\ n \in 7 .. 32 /\ i \in 5 .. (n - 1) /\ o = n - 6 /\ p \in 0 .. 1
          /\ ParamsEnd = SavedEnd - p - o
      BY <1>3, <1>4
    <3> HIDE DEF n, o, p
    <3>2. SavedEnd \in Int
      BY <1>3
    <3> QED
      BY <1>3, <1>5, <3>1, <3>2
  <2>3. stack' = [s \in 0 .. Entry |-> IF s = rsp - 1 THEN Arg(i + 1) ELSE stack[s]]
    BY <2>1, <2>2 DEF Pushed
  <2>4. /\ stack' = [s \in 0 .. Entry |-> stack'[s]]
        /\ stack'[rsp - 1] = Arg(i + 1)
        /\ \A s \in rsp .. Entry : stack'[s] = stack[s]
    BY <1>3, <2>2, <2>3
  <2>5. /\ regs' = [r \in Regs |-> regs'[r]] /\ regs'["rcx"] = Num(i - 1)
        /\ \A r \in Regs : r # "rcx" => regs'[r] = regs[r]
    BY <1>1, <2>1 DEF CallTypes, Regs
  <2>6. regs'["rcx"].val = i - 1
    BY <2>5, NumVals
  <2>7. i - 1 \in 5 .. (Len(args) - 1) /\ i - 1 \in Int
    BY <1>4, <1>7
  <2>8. rsp' = ParamsEnd + ((i - 1) - 5) /\ rsp' \in Int
    <3>1. i \in Int /\ ParamsEnd \in Int
      BY <1>1, <1>3 DEF i
    <3> QED
      BY <1>5, <2>1, <3>1
  <2>9. ASSUME NEW j \in ((i - 1) + 2) .. Len(args)
        PROVE  stack'[rsp' + (j - ((i - 1) + 2))] = Arg(j)
    <3>1. CASE j = i + 1
      BY <1>4, <1>5, <2>1, <2>4, <3>1
    <3>2. CASE j # i + 1
      <4>1. j \in (i + 2) .. Len(args)
        BY <1>4, <3>2
      <4>2. rsp' + (j - ((i - 1) + 2)) = rsp + (j - (i + 2))
        BY <1>4, <1>5, <2>1, <4>1
      <4>3. rsp + (j - (i + 2)) \in rsp .. Entry
        <5> DEFINE n == Len(args)  o == OnStack  p == Padding(OnStack)
        <5>1. /\ n \in 7 .. 32 /\ i \in 5 .. (n - 1) /\ o = n - 6 /\ p \in 0 .. 1
              /\ ParamsEnd = Entry - 6 - p - o /\ j \in (i + 2) .. n /\ Entry \in Nat
          BY <1>3, <1>4, <4>1
        <5> HIDE DEF n, o, p
        <5> QED
          BY <1>5, <5>1
      <4>4. stack[rsp + (j - (i + 2))] = Arg(j)
        BY <1>1, <4>1 DEF Pushing
      <4> QED
        BY <2>4, <4>2, <4>3, <4>4
    <3> QED
      BY <3>1, <3>2
  <2>10. regs'["rcx"].val \in Int /\ Pushing(regs["rcx"].val)'
    BY <1>1, <1>2, <2>6, <2>7, <2>8, <2>9 DEF Pushing
  <2>11. CallTypes' /\ Positions'
    BY <1>1, <2>1, <2>4, <2>5, <2>8, <2>10 DEF CallTypes, Positions
  <2>12. regs'["rbp"] = regs["rbp"] /\ regs'["r14"] = regs["r14"] /\ regs'["r15"] = regs["r15"]
    BY <2>5 DEF Regs, CalleeSaved
  <2>13. \A s \in SavedEnd .. Entry : stack'[s] = stack[s]
    BY <1>3, <2>2, <2>4
  <2>14. /\ stack'[Entry] = stack[Entry]
         /\ stack'[Entry - 1] = stack[Entry - 1] /\ stack'[Entry - 2] = stack[Entry - 2]
         /\ stack'[Entry - 3] = stack[Entry - 3] /\ stack'[Entry - 4] = stack[Entry - 4]
         /\ stack'[Entry - 5] = stack[Entry - 5] /\ stack'[Entry - 6] = stack[Entry - 6]
    BY <1>3, <2>13
  <2>15. Outside' /\ SavedFrame'
    BY <1>1, <1>2, <2>1, <2>12, <2>14 DEF Outside, SavedFrame
  <2> QED
    BY <2>1, <2>11, <2>15 DEF CallInv, ParametersFound
<1> QED
  BY <1>6, <1>7

LEMMA LoadAndCallKept == ASSUME CallInv, LoadAndCall PROVE CallInv'
<1>1. /\ at = "load" /\ at' = "callee" /\ CallTypes /\ Outside /\ SavedFrame /\ args' = args
      /\ rsp = ParamsEnd /\ \A j \in 7 .. Len(args) : stack[rsp + (j - 7)] = Arg(j)
  BY DEF LoadAndCall, CallInv, Positions
<1>2. /\ OnStack' = OnStack /\ SavedEnd' = SavedEnd /\ ParamsEnd' = ParamsEnd
  BY <1>1 DEF OnStack, SavedEnd, ParamsEnd, Padding
<1>3. /\ Entry \in Nat /\ ParamsEnd \in Int /\ ParamsEnd > 0 /\ SavedEnd = Entry - 6
      /\ OnStack \in 0 .. 26 /\ Padding(OnStack) \in 0 .. 1
      /\ ParamsEnd = SavedEnd - Padding(OnStack) - OnStack
      /\ ParamsEnd <= SavedEnd /\ (Len(args) > 6 => OnStack = Len(args) - 6)
  BY <1>1, Places
<1>4. Len(args) \in 0 .. 32 /\ rsp \in Int
  BY <1>1 DEF CallTypes
<1>5. stack' = Pushed(<<Own("next")>>) /\ rsp' = rsp - 1
  BY DEF LoadAndCall, Push
<1>6. stack' = [s \in 0 .. Entry |-> IF s = rsp - 1 THEN Own("next") ELSE stack[s]]
  BY <1>4, <1>5 DEF Pushed
<1>7. stack' = [s \in 0 .. Entry |-> stack'[s]] /\ \A s \in rsp .. Entry : stack'[s] = stack[s]
  BY <1>1, <1>3, <1>6
<1>8. regs' = [r \in Regs |->
        IF \E i \in 1 .. 6 : ArgRegs[i] = r /\ i <= regs["r14"].val
        THEN Arg(CHOOSE i \in 1 .. 6 : ArgRegs[i] = r)
        ELSE IF r = "rax" THEN Num(0) ELSE regs[r]]
  BY DEF LoadAndCall
<1>9. regs' = [r \in Regs |-> regs'[r]]
  BY <1>8
<1>10. \A r \in CalleeSaved : regs'[r] = regs[r]
  BY <1>8, ArgRegsDiffer DEF Regs, CalleeSaved
<1>11. regs["r14"].val = Len(args)
  BY <1>1, NumVals DEF SavedFrame
<1>12. ASSUME NEW j \in 1 .. Len(args) PROVE Found(j)' = Arg(j)
  <2>1. CASE j <= 6
    <3>1. j \in 1 .. 6 /\ j <= regs["r14"].val
      BY <1>4, <1>11, <2>1
    <3>2. (CHOOSE i \in 1 .. 6 : ArgRegs[i] = ArgRegs[j]) = j
      BY <3>1, ArgRegsDiffer
    <3>3. regs'[ArgRegs[j]] = Arg(CHOOSE i \in 1 .. 6 : ArgRegs[i] = ArgRegs[j])
      BY <1>8, <3>1, ArgRegsDiffer
    <3> QED
      BY <2>1, <3>2, <3>3 DEF Found
  <2>2. CASE ~ (j <= 6)
    <3>1. j \in 7 .. Len(args)
      BY <1>4, <2>2
    <3>2. rsp' + j - 6 = rsp + (j - 7)
      BY <1>4, <1>5, <3>1
    <3>3. rsp + (j - 7) \in rsp .. Entry
      BY <1>1, <1>3, <1>4, <3>1
    <3>4. stack'[rsp + (j - 7)] = Arg(j)
      BY <1>1, <1>7, <3>1, <3>3
    <3> QED
      BY <2>2, <3>2, <3>4 DEF Found
  <2> QED
    BY <2>1, <2>2
<1>13. ParametersFound'
  BY <1>1, <1>12 DEF ParametersFound
<1>14. CallTypes' /\ Positions'
  BY <1>1, <1>2, <1>3, <1>5, <1>7, <1>9 DEF CallTypes, Positions
<1>15. Entry \in Nat /\ Entry > 33 /\ \A s \in (Entry - 6) .. Entry : stack'[s] = stack[s]
  BY <1>1, <1>3, <1>7, TrampolineAssumption
<1>16. /\ stack'[Entry] = stack[Entry]
       /\ stack'[Entry - 1] = stack[Entry - 1] /\ stack'[Entry - 2] = stack[Entry - 2]
       /\ stack'[Entry - 3] = stack[Entry - 3] /\ stack'[Entry - 4] = stack[Entry - 4]
       /\ stack'[Entry - 5] = stack[Entry - 5] /\ stack'[Entry - 6] = stack[Entry - 6]
  BY <1>15
<1>17. regs'["rbp"] = regs["rbp"] /\ regs'["r14"] = regs["r14"] /\ regs'["r15"] = regs["r15"]
  BY <1>10 DEF CalleeSaved
<1>18. Outside' /\ SavedFrame'
  BY <1>1, <1>2, <1>16, <1>17 DEF Outside, SavedFrame
<1> QED
  BY <1>13, <1>14, <1>18 DEF CallInv

\* What the callee may write lies below the saved registers.
LEMMA CalleeReturnsKept == ASSUME CallInv, CalleeReturns PROVE CallInv'
<1>1. /\ at = "callee" /\ at' = "called" /\ CallTypes /\ Outside /\ SavedFrame /\ args' = args
      /\ rsp = ParamsEnd - 1 /\ rsp' = rsp + 1
      /\ regs' = [r \in Regs |-> IF r \in CalleeSaved THEN regs[r] ELSE Own("used")]
  BY DEF CalleeReturns, CallInv, Positions
<1>2. OnStack' = OnStack
  BY <1>1 DEF OnStack
<1>3. regs' = [r \in Regs |-> regs'[r]]
  BY <1>1
<1>4. regs'["rbp"] = regs["rbp"] /\ regs'["r14"] = regs["r14"] /\ regs'["r15"] = regs["r15"]
  BY <1>1 DEF Regs, CalleeSaved
<1>5. stack' = [s \in 0 .. Entry |-> IF s <= rsp + OnStack THEN Own("used") ELSE stack[s]]
  BY <1>1, NumVals DEF CalleeReturns, SavedFrame
<1>6. stack' = [s \in 0 .. Entry |-> stack'[s]]
  BY <1>5
<1>7. rsp + OnStack < Entry - 6 /\ rsp + OnStack \in Int /\ rsp' \in Int
  <2>1. /\ OnStack \in 0 .. 26 /\ Padding(OnStack) \in 0 .. 1 /\ Entry \in Nat
        /\ ParamsEnd = SavedEnd - Padding(OnStack) - OnStack /\ SavedEnd = Entry - 6
    BY <1>1, Places
  <2> DEFINE o == OnStack  p == Padding(OnStack)
  <2>2. o \in 0 .. 26 /\ p \in 0 .. 1 /\ Entry \in Nat /\ rsp = Entry - 6 - p - o - 1
    BY <1>1, <2>1
  <2> HIDE DEF o, p
  <2>3. rsp + o < Entry - 6 /\ rsp + o \in Int /\ rsp \in Int
    BY <2>2
  <2> QED
    BY <1>1, <2>3 DEF o
<1>8. \A s \in (Entry - 6) .. Entry : stack'[s] = stack[s]
  <2> DEFINE low == rsp + OnStack
  <2>1. low < Entry - 6 /\ low \in Int /\ Entry \in Nat /\ Entry > 33
    BY <1>7, TrampolineAssumption
  <2>2. stack' = [s \in 0 .. Entry |-> IF s <= low THEN Own("used") ELSE stack[s]]
    BY <1>5
  <2> HIDE DEF low
  <2> QED
    BY <2>1, <2>2
<1>9. /\ stack'[Entry] = stack[Entry]
      /\ stack'[Entry - 1] = stack[Entry - 1] /\ stack'[Entry - 2] = stack[Entry - 2]
      /\ stack'[Entry - 3] = stack[Entry - 3] /\ stack'[Entry - 4] = stack[Entry - 4]
      /\ stack'[Entry - 5] = stack[Entry - 5] /\ stack'[Entry - 6] = stack[Entry - 6]
  BY <1>8, TrampolineAssumption
<1>10. CallTypes'
  BY <1>1, <1>3, <1>6, <1>7 DEF CallTypes
<1>11. Outside' /\ SavedFrame'
  BY <1>1, <1>2, <1>4, <1>9 DEF Outside, SavedFrame
<1> QED
  BY <1>1, <1>10, <1>11 DEF CallInv, Positions, ParametersFound

LEMMA EpilogueKept == ASSUME CallInv, Epilogue PROVE CallInv'
<1>1. /\ at = "called" /\ at' = "return" /\ CallTypes /\ Outside /\ SavedFrame
      /\ args' = args /\ stack' = stack /\ regs["rbp"] = Num(Entry - 1)
  BY DEF Epilogue, CallInv, SavedFrame
<1>2. Entry \in Nat /\ Entry > 33
  BY TrampolineAssumption
<1> DEFINE top == regs["rbp"].val - SavedSlots
<1>3. top = Entry - 6
  BY <1>1, <1>2, NumVals DEF SavedSlots
<1>4. /\ rsp' = top + 6
      /\ regs' = [regs EXCEPT !["r15"] = stack[top], !["r14"] = stack[top + 1],
                              !["r13"] = stack[top + 2], !["r12"] = stack[top + 3],
                              !["rbx"] = stack[top + 4], !["rbp"] = stack[top + 5]]
  BY DEF Epilogue
<1> HIDE DEF top
<1>5. /\ top + 1 = Entry - 5 /\ top + 2 = Entry - 4 /\ top + 3 = Entry - 3
      /\ top + 4 = Entry - 2 /\ top + 5 = Entry - 1 /\ rsp' = Entry
  BY <1>2, <1>3, <1>4
<1>6. /\ stack[top] = Callers("r15") /\ stack[top + 1] = Callers("r14")
      /\ stack[top + 2] = Callers("r13") /\ stack[top + 3] = Callers("r12")
      /\ stack[top + 4] = Callers("rbx") /\ stack[top + 5] = Callers("rbp")
  BY <1>1, <1>3, <1>5 DEF SavedFrame
<1>7. regs' = [regs EXCEPT !["r15"] = Callers("r15"), !["r14"] = Callers("r14"),
                           !["r13"] = Callers("r13"), !["r12"] = Callers("r12"),
                           !["rbx"] = Callers("rbx"), !["rbp"] = Callers("rbp")]
  BY <1>4, <1>6
<1>8. regs = [r \in Regs |-> regs[r]]
  BY <1>1 DEF CallTypes
<1>9. regs' = [r \in Regs |-> regs'[r]] /\ \A r \in CalleeSaved : regs'[r] = Callers(r)
  BY <1>7, <1>8 DEF Regs, CalleeSaved
<1>10. CallTypes'
  BY <1>1, <1>2, <1>5, <1>9 DEF CallTypes
<1> QED
  BY <1>1, <1>5, <1>9, <1>10 DEF CallInv, Outside, SavedFrame, Positions, ParametersFound

LEMMA CallInvKept == CallInv /\ [Passes]_passing => CallInv'
<1> SUFFICES ASSUME CallInv, [Passes]_passing PROVE CallInv'
  OBVIOUS
<1>1. CASE WrapperPacks
  BY <1>1, WrapperPacksKept
<1>2. CASE Prologue
  BY <1>2, PrologueKept
<1>3. CASE Align
  BY <1>3, AlignKept
<1>4. CASE PushLoop
  BY <1>4, PushLoopKept
<1>5. CASE LoadAndCall
  BY <1>5, LoadAndCallKept
<1>6. CASE CalleeReturns
  BY <1>6, CalleeReturnsKept
<1>7. CASE Epilogue
  BY <1>7, EpilogueKept
<1>8. CASE HookedCall
  BY <1>8, HookedCallKept
<1>9. CASE BackInGuest
  BY <1>9, BackInGuestKept
<1>10. CASE UNCHANGED passing
  <2>1. at' = at /\ args' = args /\ regs' = regs /\ stack' = stack /\ rsp' = rsp
    BY <1>10 DEF passing
  <2> QED
    BY <2>1 DEF CallInv, CallTypes, Outside, SavedFrame, Positions, Pushing, ParametersFound, Found,
         OnStack, SavedEnd, ParamsEnd, Padding
<1> QED
  BY <1>1, <1>2, <1>3, <1>4, <1>5, <1>6, <1>7, <1>8, <1>9, <1>10 DEF Passes

LEMMA CallInvAlways == CallSpec => []CallInv
BY CallInvHolds, CallInvKept, PTL DEF CallSpec

-----------------------------------------------------------------------------
(* Theorems about call_native_varargs *)

\* The stack is aligned to 16 bytes wherever call_native_varargs calls.
THEOREM AlignedCalls == CallSpec => []StackAligned
<1>1. CallInv => StackAligned
  <2> SUFFICES ASSUME CallInv, at = "callee" PROVE rsp % 2 = 1
    BY DEF StackAligned
  <2>1. CallTypes /\ rsp = ParamsEnd - 1 /\ at # "hooked"
    BY DEF CallInv, Positions
  <2> QED
    BY <2>1, Even
<1> QED
  BY <1>1, CallInvAlways, PTL

\* Every slot of _args is where the function looks for its parameter.
THEOREM CallsWithAll == CallSpec => []ParametersFound
<1>1. CallInv => ParametersFound
  BY DEF CallInv
<1> QED
  BY <1>1, CallInvAlways, PTL

\* call_native_varargs returns with the registers and the stack it was called
\* with.
THEOREM ReturnsClean == CallSpec => []FrameRestored
<1>1. CallInv => FrameRestored
  BY DEF CallInv, Outside, FrameRestored
<1> QED
  BY <1>1, CallInvAlways, PTL

-----------------------------------------------------------------------------
(* What the wrapper packs *)

\* Calls with nothing but int arguments, to functions with so few fixed
\* parameters that 16 words still fit into _args.
IntsOnly == Kinds \subseteq {"int"} /\ Fixed \subseteq 1 .. Words

LowTo(k) == [i \in 1 .. k |-> Low(i)]

\* The words of k arguments are those of k - 1 and one more.
LEMMA LowNext ==
  ASSUME NEW k \in Nat, k > 0
  PROVE  LowTo(k) = Append(LowTo(k - 1), Low(k))
<1> DEFINE U == {Low(i) : i \in Nat}
<1>1. PICK j \in Nat : k = j + 1 /\ k - 1 = j
  <2>1. k - 1 \in Nat /\ k = (k - 1) + 1
    OBVIOUS
  <2>2. QED
    BY <2>1
<1>2. PICK s : s = LowTo(j)
  OBVIOUS
<1>3. s \in [1 .. j -> U]
  BY <1>2 DEF LowTo
<1>4. s \in Seq(U) /\ Len(s) = j
  BY <1>3
<1>5. Low(j + 1) \in U
  OBVIOUS
<1>6. IsSeq(s)
  BY <1>4 DEF IsSeq
<1>7. PICK t : t = Append(s, Low(j + 1))
  OBVIOUS
<1>8. t \in Seq(U) /\ Len(t) = j + 1 /\ t[j + 1] = Low(j + 1) /\ \A i \in 1 .. j : t[i] = s[i]
  <2>1. Len(t) = j + 1 /\ t[j + 1] = Low(j + 1) /\ \A i \in 1 .. j : t[i] = s[i]
    BY <1>4, <1>6, <1>7, Appended
  <2>2. t \in Seq(U)
    <3> HIDE DEF U
    <3>1. QED
      BY <1>4, <1>5, <1>7
  <2>3. QED
    BY <2>1, <2>2
<1>9. t = [i \in 1 .. (j + 1) |-> t[i]]
  <2> HIDE DEF U
  <2>1. QED
    BY <1>8
<1>10. ASSUME NEW i \in 1 .. (j + 1)
       PROVE  t[i] = Low(i)
  <2>1. CASE i = j + 1
    BY <1>8, <2>1
  <2>2. CASE i # j + 1
    <3>1. i \in 1 .. j
      BY <2>2
    <3>2. QED
      BY <1>2, <1>8, <3>1 DEF LowTo
  <2>3. QED
    BY <2>1, <2>2
<1>11. t = LowTo(j + 1)
  BY <1>9, <1>10, Zenon DEF LowTo
<1>12. QED
  BY <1>1, <1>2, <1>7, <1>11

\* Of the words of int arguments none is left out and none is padding.
LEMMA IntArea ==
  ASSUME NEW kinds, NEW n \in Nat, kinds \in [1 .. n -> {"int"}]
  PROVE  Area(kinds) = LowTo(n)
<1>1. Len(kinds) = n
  OBVIOUS
<1> DEFINE Aligned(before) == IF Len(before) % 2 = 0 THEN before ELSE Append(before, Junk)
           Def(g) == [k \in 0 .. Len(kinds) |->
             IF k = 0 THEN << >>
             ELSE IF kinds[k] = "int64" THEN Aligned(g[k - 1]) \o <<Low(k), High(k)>>
                  ELSE Append(g[k - 1], Low(k))]
<1>2. PICK g : g = [k \in 0 .. n |-> LowTo(k)]
  OBVIOUS
<1>3. g = Def(g)
  <2>1. ASSUME NEW k \in 0 .. n
        PROVE  g[k] = IF k = 0 THEN << >>
             ELSE IF kinds[k] = "int64" THEN Aligned(g[k - 1]) \o <<Low(k), High(k)>>
                  ELSE Append(g[k - 1], Low(k))
    <3>1. CASE k = 0
      <4>1. LowTo(0) = << >>
        BY DEF LowTo
      <4>2. QED
        BY <1>2, <3>1, <4>1
    <3>2. CASE k # 0
      <4>1. k \in 1 .. n /\ k \in Nat /\ k > 0 /\ k - 1 \in 0 .. n
        BY <3>2
      <4>2. kinds[k] # "int64"
        BY <4>1
      <4>3. g[k] = LowTo(k) /\ g[k - 1] = LowTo(k - 1)
        BY <1>2, <4>1
      <4>4. LowTo(k) = Append(LowTo(k - 1), Low(k))
        BY <4>1, LowNext
      <4>5. QED
        BY <3>2, <4>2, <4>3, <4>4, Zenon
    <3>3. QED
      BY <3>1, <3>2
  <2>2. g = [k \in 0 .. n |-> g[k]]
    BY <1>2
  <2>3. QED
    BY <1>1, <2>1, <2>2, Zenon
<1>4. AreaTo(kinds) = Def(AreaTo(kinds))
  BY <1>3, Zenon DEF AreaTo
<1>5. PICK p : p = AreaTo(kinds)
  OBVIOUS
<1>6. p = Def(p)
  BY <1>4, <1>5, Zenon
<1>7. p[0] = << >> /\ \A k \in 1 .. n : p[k] = Append(p[k - 1], Low(k))
  <2>1. p[0] = << >>
    <3>1. 0 \in 0 .. n
      OBVIOUS
    <3>2. QED
      BY <1>1, <1>6, <3>1, Zenon
  <2>2. ASSUME NEW k \in 1 .. n
        PROVE  p[k] = Append(p[k - 1], Low(k))
    <3>1. k \in 0 .. n /\ k # 0 /\ kinds[k] # "int64"
      OBVIOUS
    <3>2. QED
      BY <1>1, <1>6, <3>1, Zenon
  <2>3. QED
    BY <2>1, <2>2
<1> HIDE DEF Def
<1>8. \A k \in 0 .. n : p[k] = LowTo(k)
  <2> DEFINE T == {k \in 0 .. n : p[k] # LowTo(k)}
  <2>1. SUFFICES ASSUME T # {} PROVE FALSE
    OBVIOUS
  <2>2. PICK k \in T : \A j \in T : k <= j
    <3>1. T \in SUBSET Nat
      OBVIOUS
    <3>2. QED
      BY <2>1, <3>1, LeastNumber
  <2>3. k # 0
    <3>1. LowTo(0) = << >>
      BY DEF LowTo
    <3>2. p[k] # LowTo(k)
      BY <2>2
    <3>3. QED
      BY <1>7, <3>1, <3>2
  <2>4. k \in 1 .. n /\ k \in Nat /\ k > 0 /\ k - 1 \in 0 .. n /\ k - 1 \notin T
    BY <2>2, <2>3
  <2>5. p[k - 1] = LowTo(k - 1)
    BY <2>4
  <2>6. p[k] = LowTo(k)
    BY <1>7, <2>4, <2>5, LowNext
  <2>7. QED
    BY <2>2, <2>6
<1>9. QED
  <2>1. Area(kinds) = p[n] /\ n \in 0 .. n
    BY <1>1, <1>5 DEF Area
  <2>2. QED
    BY <1>8, <2>1

\* The k-th word is the k-th int.
LEMMA IntWord ==
  ASSUME NEW kinds, NEW n \in Nat, kinds \in [1 .. n -> {"int"}], NEW k \in 1 .. n
  PROVE  WordAt(kinds, k) = Low(k)
<1>1. Area(kinds) = LowTo(n)
  BY IntArea
<1>2. PICK s : s = LowTo(n)
  OBVIOUS
<1>3. Len(s) = n /\ s[k] = Low(k)
  BY <1>2 DEF LowTo
<1>4. QED
  BY <1>1, <1>2, <1>3, Zenon DEF WordAt

\* Until the guest goes on, _args holds what it has given.
Given ==
  at # "guest" =>
    /\ \A j \in 1 .. given.fixed : args[j] = Pointer(j)
    /\ \A k \in 1 .. Len(given.kinds) :
         k <= Words => Means(given.kinds[k], k, args[given.fixed + k])

\* The emitted wrapper packs what the guest has given.
LEMMA GivenByWrapper ==
  ASSUME IntsOnly, WrapperPacks
  PROVE  Given'
<1>1. PICK fixed \in Fixed, n \in 0 .. MaxArgs : \E kinds \in [1 .. n -> Kinds] :
             /\ given' = [fixed |-> fixed, kinds |-> kinds]
             /\ args' = Pack(fixed, kinds)
  BY DEF WrapperPacks
<1>2. PICK kinds \in [1 .. n -> Kinds] :
             /\ given' = [fixed |-> fixed, kinds |-> kinds]
             /\ args' = Pack(fixed, kinds)
  BY <1>1
<1>3. n \in Nat /\ fixed \in 1 .. 16 /\ kinds \in [1 .. n -> {"int"}]
  <2>1. n \in Nat /\ fixed \in 1 .. 16
    BY TrampolineAssumption DEF IntsOnly, Words
  <2>2. \A i \in 1 .. n : kinds[i] \in Kinds
    BY <1>2
  <2>3. \A i \in 1 .. n : kinds[i] \in {"int"}
    BY <2>2 DEF IntsOnly
  <2>4. kinds = [i \in 1 .. n |-> kinds[i]]
    BY <1>2
  <2>5. QED
    BY <2>1, <2>3, <2>4
<1>4. Len(kinds) = n
  BY <1>3
<1>5. given'.fixed = fixed /\ given'.kinds = kinds
  BY <1>2
<1>6. args' = [i \in 1 .. (fixed + 16) |->
                 IF i <= fixed THEN Pointer(i) ELSE Slot(WordAt(kinds, i - fixed), Zero)]
  <2>1. fixed + 16 <= 32
    BY <1>3
  <2>2. (IF fixed + Words < Slots THEN fixed + Words ELSE Slots) = fixed + 16
    BY <1>3, <2>1 DEF Words, Slots
  <2>3. QED
    BY <1>2, <2>2, Zenon DEF Pack
<1>7. ASSUME NEW j \in 1 .. fixed
      PROVE  args'[j] = Pointer(j)
  <2>1. j \in 1 .. (fixed + 16) /\ j <= fixed
    BY <1>3
  <2>2. QED
    BY <1>6, <2>1
<1>8. ASSUME NEW k \in 1 .. n, k <= Words
      PROVE  Means(kinds[k], k, args'[fixed + k])
  <2>1. fixed + k \in 1 .. (fixed + 16) /\ ~(fixed + k <= fixed) /\ (fixed + k) - fixed = k
    BY <1>3, <1>8 DEF Words
  <2>2. args'[fixed + k] = Slot(WordAt(kinds, k), Zero)
    BY <1>6, <2>1
  <2>3. WordAt(kinds, k) = Low(k)
    BY <1>3, IntWord
  <2>4. args'[fixed + k].low = Low(k) /\ kinds[k] = "int"
    BY <1>3, <2>2, <2>3 DEF Slot
  <2>5. QED
    BY <2>4 DEF Means
<1>9. QED
  BY <1>4, <1>5, <1>7, <1>8 DEF Given

\* So does the wrapper of a function yos implements, pointers included.
LEMMA GivenByHook ==
  ASSUME HookedCall
  PROVE  Given'
<1>1. PICK fixed \in Fixed, kind \in {"int", "pointer"} :
       /\ given' = [fixed |-> fixed, kinds |-> <<kind>>]
       /\ args' = [i \in 1 .. fixed + 1 |->
                    IF i <= fixed THEN Pointer(i)
                    ELSE Slot(IF kind = "pointer" THEN Host(1) ELSE WordAt(<<kind>>, 1), Zero)]
  BY DEF HookedCall
<1>2. fixed \in Nat /\ given'.fixed = fixed /\ given'.kinds = <<kind>> /\ Len(<<kind>>) = 1 /\ <<kind>>[1] = kind
  BY <1>1, TrampolineAssumption
<1>3. ASSUME NEW j \in 1 .. fixed
      PROVE  args'[j] = Pointer(j)
  <2>1. j \in 1 .. fixed + 1 /\ j <= fixed
    BY <1>2
  <2>2. QED
    BY <1>1, <2>1
<1>4. Means(kind, 1, args'[fixed + 1])
  <2>1. args'[fixed + 1] = Slot(IF kind = "pointer" THEN Host(1) ELSE WordAt(<<kind>>, 1), Zero)
    <3>1. fixed + 1 \in 1 .. fixed + 1 /\ ~(fixed + 1 <= fixed)
      BY <1>2
    <3>2. QED
      BY <1>1, <3>1
  <2>2. CASE kind = "pointer"
    BY <2>1, <2>2 DEF Slot, Means
  <2>3. CASE kind = "int"
    <3>1. WordAt(<<kind>>, 1) = Low(1)
      <4>1. <<kind>> \in [1 .. 1 -> {"int"}] /\ 1 \in Nat /\ 1 \in 1 .. 1
        BY <2>3
      <4>2. QED
        BY <4>1, IntWord
    <3>2. args'[fixed + 1].low = Low(1)
      BY <2>1, <2>3, <3>1 DEF Slot
    <3>3. QED
      BY <2>3, <3>2 DEF Means
  <2>4. QED
    BY <2>2, <2>3
<1>5. ASSUME NEW k \in 1 .. Len(given'.kinds)
      PROVE  Means(given'.kinds[k], k, args'[given'.fixed + k])
  <2>1. k = 1
    BY <1>2
  <2>2. QED
    BY <1>2, <1>4, <2>1
<1>6. QED
  BY <1>2, <1>3, <1>5 DEF Given

\* Nothing in call_native_varargs writes _args.
LEMMA GivenStays ==
  ASSUME IntsOnly, Given, [Passes]_passing
  PROVE  Given'
<1>1. CASE WrapperPacks
  BY <1>1, GivenByWrapper
<1>2. CASE HookedCall
  BY <1>2, GivenByHook
<1>3. CASE BackInGuest
  BY <1>3 DEF BackInGuest, Given
<1>4. CASE Prologue \/ Align \/ PushLoop \/ LoadAndCall \/ CalleeReturns \/ Epilogue
  <2>1. at # "guest" /\ given' = given /\ args' = args
    BY <1>4 DEF Prologue, Align, PushLoop, LoadAndCall, CalleeReturns, Epilogue
  <2>2. QED
    BY <2>1 DEF Given
<1>5. CASE UNCHANGED passing
  BY <1>5 DEF passing, Given
<1>6. QED
  BY <1>1, <1>2, <1>3, <1>4, <1>5 DEF Passes

\* The called function gets the fixed parameters and the guest's int arguments,
\* each as the guest has given it, up to the sixteenth: the words packed are
\* those of its memory from the first on, without a gap.
THEOREM ArgumentsArrive == IntsOnly => (CallSpec => []ArgsArrive)
<1>1. AtRest => Given
  BY DEF AtRest, Given
<1>2. IntsOnly /\ Given /\ [Passes]_passing => Given'
  BY GivenStays
<1>3. Given => ArgsArrive
  BY DEF Given, ArgsArrive
<1>4. SUFFICES ASSUME IntsOnly PROVE CallSpec => []ArgsArrive
  OBVIOUS
<1>5. Given /\ [Passes]_passing => Given'
  BY <1>2, <1>4
<1>6. QED
  BY <1>1, <1>3, <1>5, PTL DEF CallSpec

-----------------------------------------------------------------------------
(* Counting the values of a format *)

Count(f, i) == Cardinality(ValuesTo(f, i))

\* A format has finitely many values, none before its first piece, and with
\* each piece at most one more.
LEMMA ValuesFinite ==
  ASSUME NEW f, NEW i \in Nat
  PROVE  IsFiniteSet(ValuesTo(f, i)) /\ Count(f, i) \in Nat
<1>1. IsFiniteSet(1 .. i) /\ ValuesTo(f, i) \subseteq 1 .. i
  BY FS_Interval DEF ValuesTo
<1>2. IsFiniteSet(ValuesTo(f, i))
  BY <1>1, FS_Subset
<1>3. QED
  BY <1>2, FS_CardinalityType DEF Count

LEMMA CountNone == \A f : Count(f, 0) = 0
<1>1. ASSUME NEW f
      PROVE  ValuesTo(f, 0) = {}
  BY DEF ValuesTo
<1>2. QED
  BY <1>1, FS_EmptySet DEF Count

LEMMA CountNext ==
  ASSUME NEW f, NEW i \in Nat
  PROVE  Count(f, i + 1) = IF IsValue(f[i + 1]) THEN Count(f, i) + 1 ELSE Count(f, i)
<1>1. CASE IsValue(f[i + 1])
  <2>1. ValuesTo(f, i + 1) = ValuesTo(f, i) \cup {i + 1} /\ i + 1 \notin ValuesTo(f, i)
    BY <1>1 DEF ValuesTo
  <2>2. Cardinality(ValuesTo(f, i) \cup {i + 1}) = Cardinality(ValuesTo(f, i)) + 1
    BY <2>1, ValuesFinite, FS_AddElement
  <2>3. QED
    BY <1>1, <2>1, <2>2 DEF Count
<1>2. CASE ~IsValue(f[i + 1])
  <2>1. ValuesTo(f, i + 1) = ValuesTo(f, i)
    BY <1>2 DEF ValuesTo
  <2>2. QED
    BY <1>2, <2>1 DEF Count
<1>3. QED
  BY <1>1, <1>2

\* A value further on has a higher number.
LEMMA CountMore ==
  ASSUME NEW f, NEW i \in Nat, NEW j \in Nat, i <= j
  PROVE  /\ Count(f, i) <= Count(f, j)
         /\ i < j /\ IsValue(f[j]) => Count(f, i) < Count(f, j)
<1>0. /\ IsFiniteSet(ValuesTo(f, i)) /\ IsFiniteSet(ValuesTo(f, j))
      /\ Count(f, i) \in Nat /\ Count(f, j) \in Nat
  BY ValuesFinite
<1>1. Count(f, i) <= Count(f, j)
  <2>1. ValuesTo(f, i) \subseteq ValuesTo(f, j)
    BY DEF ValuesTo
  <2>2. QED
    BY <1>0, <2>1, FS_Subset DEF Count
<1>2. ASSUME i < j, IsValue(f[j])
      PROVE  Count(f, i) < Count(f, j)
  <2>1. ValuesTo(f, i) \cup {j} \subseteq ValuesTo(f, j) /\ j \notin ValuesTo(f, i)
    BY <1>2 DEF ValuesTo
  <2>2. Cardinality(ValuesTo(f, i) \cup {j}) = Count(f, i) + 1
    BY <1>0, <2>1, FS_AddElement DEF Count
  <2>3. Cardinality(ValuesTo(f, i) \cup {j}) <= Count(f, j)
    BY <1>0, <2>1, FS_Subset DEF Count
  <2>4. QED
    BY <1>0, <2>2, <2>3
<1>3. QED
  BY <1>1, <1>2

-----------------------------------------------------------------------------
(* What should come of a format *)

\* A piece is shown, after what was shown before it.
Show(f, i, before) ==
  IF IsValue(f[i]) /\ Count(f, i) > MaxValues THEN before ELSE Append(before, f[i])

\* shown holds what should come of the first n pieces.
ShowsTo(shown, f, n) ==
  /\ shown = [i \in 0 .. n |-> shown[i]]
  /\ shown[0] = << >>
  /\ \A i \in 1 .. n : shown[i] = Show(f, i, shown[i - 1])

\* There is a function that the equation of ShownTo describes, so that ShownTo
\* is one.
LEMMA ShowsExist ==
  ASSUME NEW S, NEW f \in Seq(S)
  PROVE  \A n \in 0 .. Len(f) : \E shown : ShowsTo(shown, f, n)
<1> DEFINE T == {n \in 0 .. Len(f) : ~ \E shown : ShowsTo(shown, f, n)}
<1>1. SUFFICES ASSUME T # {} PROVE FALSE
  OBVIOUS
<1>0. Len(f) \in Nat
  OBVIOUS
<1>2. PICK n \in T : \A m \in T : n <= m
  <2>1. T \in SUBSET Nat
    BY <1>0
  <2>2. QED
    BY <1>1, <2>1, LeastNumber
<1>3. CASE n = 0
  <2>1. ShowsTo([i \in 0 .. 0 |-> << >>], f, 0)
    BY DEF ShowsTo
  <2>2. QED
    BY <1>2, <1>3, <2>1
<1>4. CASE n # 0
  <2>1. n \in Nat /\ n - 1 \in 0 .. Len(f) /\ n - 1 \notin T
    BY <1>0, <1>2, <1>4
  <2>2. PICK shown : ShowsTo(shown, f, n - 1)
    BY <2>1
  <2> DEFINE g == [i \in 0 .. n |-> IF i = n THEN Show(f, n, shown[n - 1]) ELSE shown[i]]
  <2>3. g = [i \in 0 .. n |-> g[i]]
    OBVIOUS
  <2>4. g[0] = << >>
    BY <2>1, <2>2, <1>4 DEF ShowsTo
  <2>5. ASSUME NEW i \in 1 .. n
        PROVE  g[i] = Show(f, i, g[i - 1])
    <3>1. i \in 0 .. n /\ i - 1 \in 0 .. n /\ i - 1 # n
      BY <2>1
    <3>2. g[i - 1] = shown[i - 1]
      BY <3>1
    <3>3. CASE i = n
      BY <3>1, <3>2, <3>3
    <3>4. CASE i # n
      <4>1. i \in 1 .. (n - 1)
        BY <2>1, <3>4
      <4>2. shown[i] = Show(f, i, shown[i - 1])
        BY <2>2, <4>1 DEF ShowsTo
      <4>3. QED
        BY <3>1, <3>2, <3>4, <4>2
    <3>5. QED
      BY <3>3, <3>4
  <2>6. ShowsTo(g, f, n)
    <3> HIDE DEF g
    <3>1. QED
      BY <2>3, <2>4, <2>5 DEF ShowsTo
  <2>7. QED
    BY <1>2, <2>6
<1>5. QED
  BY <1>3, <1>4

LEMMA ShownFacts ==
  ASSUME NEW S, NEW f \in Seq(S)
  PROVE  ShowsTo(ShownTo(f), f, Len(f))
<1> DEFINE Def(g) == [i \in 0 .. Len(f) |->
                        IF i = 0 THEN << >>
                        ELSE IF IsValue(f[i]) /\ Cardinality(ValuesTo(f, i)) > MaxValues
                             THEN g[i - 1] ELSE Append(g[i - 1], f[i])]
<1>0. Len(f) \in Nat
  OBVIOUS
<1>1. PICK g : ShowsTo(g, f, Len(f))
  <2>1. Len(f) \in 0 .. Len(f)
    BY <1>0
  <2>2. QED
    BY <2>1, ShowsExist, Zenon
<1>2. g = Def(g)
  <2>1. ASSUME NEW i \in 0 .. Len(f)
        PROVE  g[i] = IF i = 0 THEN << >>
                      ELSE IF IsValue(f[i]) /\ Cardinality(ValuesTo(f, i)) > MaxValues
                           THEN g[i - 1] ELSE Append(g[i - 1], f[i])
    <3>1. CASE i = 0
      BY <1>1, <3>1 DEF ShowsTo
    <3>2. CASE i # 0
      <4>1. i \in 1 .. Len(f)
        BY <1>0, <3>2
      <4>2. g[i] = Show(f, i, g[i - 1])
        BY <1>1, <4>1 DEF ShowsTo
      <4>3. QED
        BY <3>2, <4>2 DEF Show, Count
    <3>3. QED
      BY <3>1, <3>2
  <2>2. g = [i \in 0 .. Len(f) |-> g[i]]
    BY <1>1 DEF ShowsTo
  <2>3. QED
    BY <2>1, <2>2
<1>3. ShownTo(f) = Def(ShownTo(f))
  BY <1>2, Zenon DEF ShownTo
<1> DEFINE p == ShownTo(f)
<1> HIDE DEF p
<1>4. \A i \in 0 .. Len(f) : p[i] = IF i = 0 THEN << >>
                      ELSE IF IsValue(f[i]) /\ Cardinality(ValuesTo(f, i)) > MaxValues
                           THEN p[i - 1] ELSE Append(p[i - 1], f[i])
  BY <1>3 DEF p
<1>5. p = [i \in 0 .. Len(f) |-> p[i]]
  BY <1>3 DEF p
<1>6. p[0] = << >>
  BY <1>0, <1>4
<1>7. ASSUME NEW i \in 1 .. Len(f)
      PROVE  p[i] = Show(f, i, p[i - 1])
  <2>1. i \in 0 .. Len(f) /\ i # 0
    BY <1>0
  <2>2. QED
    BY <2>1, <1>4 DEF Show, Count
<1>8. QED
  BY <1>5, <1>6, <1>7 DEF ShowsTo, p

\* s goes on with t.
Continues(s, t) == Len(s) <= Len(t) /\ \A i \in 1 .. Len(s) : t[i] = s[i]

\* What is shown of a format begins with what is shown of its first pieces.
LEMMA ShownGrows ==
  ASSUME NEW S, NEW f \in Seq(S)
  PROVE  /\ ShownTo(f)[0] = << >>
         /\ \A i \in 1 .. Len(f) : ShownTo(f)[i] = Show(f, i, ShownTo(f)[i - 1])
         /\ \A i \in 0 .. Len(f) : ShownTo(f)[i] \in Seq(S) /\ Continues(ShownTo(f)[i], Shown(f))
<1> DEFINE p == ShownTo(f)
<1>0. Len(f) \in Nat /\ \A i \in 1 .. Len(f) : f[i] \in S
  OBVIOUS
<1>1. p[0] = << >> /\ \A i \in 1 .. Len(f) : p[i] = Show(f, i, p[i - 1])
  BY ShownFacts DEF ShowsTo
<1>2. Shown(f) = p[Len(f)]
  BY DEF Shown
<1> HIDE DEF p
<1>3. \A i \in 0 .. Len(f) : p[i] \in Seq(S)
  <2> DEFINE T == {i \in 0 .. Len(f) : p[i] \notin Seq(S)}
  <2>1. SUFFICES ASSUME T # {} PROVE FALSE
    OBVIOUS
  <2>2. PICK i \in T : \A j \in T : i <= j
    <3>1. T \in SUBSET Nat
      BY <1>0
    <3>2. QED
      BY <2>1, <3>1, LeastNumber
  <2>3. i # 0
    <3>1. << >> \in Seq(S) /\ i \in T
      BY <2>2
    <3>2. QED
      BY <1>1, <3>1
  <2>4. i \in 1 .. Len(f) /\ i - 1 \in 0 .. Len(f) /\ i - 1 \notin T
    BY <1>0, <2>2, <2>3
  <2>5. p[i - 1] \in Seq(S) /\ f[i] \in S
    BY <1>0, <2>4
  <2>6. p[i] \in Seq(S)
    <3>1. p[i] = p[i - 1] \/ p[i] = Append(p[i - 1], f[i])
      BY <1>1, <2>4 DEF Show
    <3>2. PICK s \in Seq(S), x \in S : s = p[i - 1] /\ x = f[i]
      BY <2>5
    <3>3. Append(s, x) \in Seq(S)
      OBVIOUS
    <3>4. QED
      BY <3>1, <3>2, <3>3
  <2>7. QED
    BY <2>6
<1>4. ASSUME NEW i \in 1 .. Len(f)
      PROVE  Continues(p[i - 1], p[i])
  <2>1. i - 1 \in 0 .. Len(f) /\ p[i] = Show(f, i, p[i - 1])
    BY <1>0, <1>1
  <2>2. p[i - 1] \in Seq(S) /\ f[i] \in S
    BY <1>0, <1>3, <2>1
  <2>3. p[i] = p[i - 1] \/ p[i] = Append(p[i - 1], f[i])
    BY <2>1 DEF Show
  <2>4. PICK s \in Seq(S), x \in S : s = p[i - 1] /\ x = f[i]
    BY <2>2
  <2>5. Continues(s, s)
    BY <2>4 DEF Continues
  <2>6. Continues(s, Append(s, x))
    <3>1. /\ Len(s) \in Nat /\ Len(Append(s, x)) = Len(s) + 1
          /\ \A j \in 1 .. Len(s) : Append(s, x)[j] = s[j]
      <4>1. s \in Seq(S)
        BY <2>4
      <4>2. QED
        BY <4>1, Appended DEF IsSeq
    <3>2. QED
      BY <3>1 DEF Continues
  <2>7. QED
    BY <2>3, <2>4, <2>5, <2>6
<1>5. \A m \in 0 .. Len(f) : Continues(p[m], p[Len(f)])
  <2> DEFINE U(m) == {n \in m .. Len(f) : ~Continues(p[m], p[n])}
  <2>1. SUFFICES ASSUME NEW m \in 0 .. Len(f), U(m) # {} PROVE FALSE
    <3>1. ASSUME NEW m \in 0 .. Len(f), U(m) = {}
          PROVE  Continues(p[m], p[Len(f)])
      <4>1. Len(f) \in m .. Len(f)
        BY <1>0
      <4>2. QED
        BY <3>1, <4>1
    <3>2. QED
      BY <3>1
  <2>2. PICK n \in U(m) : \A k \in U(m) : n <= k
    <3>1. m \in Nat
      BY <1>0
    <3>3. \A n \in m .. Len(f) : n \in Nat
      BY <1>0, <3>1
    <3>4. U(m) \in SUBSET Nat
      BY <3>3
    <3>5. QED
      BY <2>1, <3>4, LeastNumber
  <2>3. m \in Nat /\ n \in Nat /\ n \in m .. Len(f) /\ p[m] \in Seq(S) /\ p[n] \in Seq(S)
    BY <1>0, <1>3, <2>2
  <2>4. n # m
    BY <2>2, <2>3 DEF Continues
  <2>5. /\ n \in 1 .. Len(f) /\ n - 1 \in 0 .. Len(f)
        /\ n - 1 \in m .. Len(f) /\ n - 1 \notin U(m)
    BY <1>0, <2>2, <2>3, <2>4
  <2>6. Continues(p[m], p[n - 1]) /\ Continues(p[n - 1], p[n]) /\ p[n - 1] \in Seq(S)
    BY <1>3, <1>4, <2>5
  <2>7. Continues(p[m], p[n])
    <3>1. Len(p[m]) \in Nat /\ Len(p[n - 1]) \in Nat /\ Len(p[n]) \in Nat
      BY <2>3, <2>6
    <3>2. QED
      BY <2>6, <3>1 DEF Continues
  <2>8. QED
    BY <2>2, <2>7
<1>6. QED
  BY <1>1, <1>2, <1>3, <1>5 DEF p

-----------------------------------------------------------------------------
(* The packed list *)

\* The pieces of the format that were read.
Done == Len(format) - Len(rest)

FormatRead ==
  /\ format \in Seq(Pieces) /\ rest \in Seq(Pieces)
  /\ Done \in 0 .. Len(format)
  /\ \A i \in 1 .. Len(rest) : rest[i] = format[Done + i]

PackTypes ==
  /\ pack = [types |-> pack.types, words |-> pack.words, n |-> pack.n]
  /\ pack.types = [k \in 1 .. MaxValues |-> pack.types[k]]
  /\ pack.words = [k \in 1 .. MaxValues |-> pack.words[k]]
  /\ pack.n \in 0 .. MaxValues

\* While the guest packs, the values of the pieces it has read are packed.
GuestPacks ==
  doing \in {"guest", "packing"} =>
    /\ pack.n = Count(format, Done)
    /\ \A j \in 1 .. Done :
         IsValue(format[j]) => pack.types[Count(format, j)] = Packs[format[j]]
    /\ \A k \in 1 .. MaxValues :
         IF k <= pack.n THEN pack.words[k] = Value(k)
         ELSE pack.types[k] = END /\ pack.words[k] = ZeroWord

\* Then the list holds the types of all values it has room for; a lone value
\* has nothing behind it.
ListPacked ==
  doing \notin {"guest", "packing"} =>
    /\ \A j \in 1 .. Len(format) :
         IsValue(format[j]) /\ Count(format, j) <= MaxValues =>
           pack.types[Count(format, j)] = Packs[format[j]]
    /\ Count(format, Len(format)) = 1 /\ MaxValues > 1 =>
         /\ pack.words[1] = Value(1) /\ pack.words[2] = ZeroWord
         /\ \A k \in 2 .. MaxValues : pack.types[k] = END

\* Nothing is written before the host formats.
NothingWritten ==
  doing \in {"guest", "packing", "packed"} =>
    /\ buf = << >> /\ arg_idx = 0 /\ out = 0
    /\ doing = "guest" => pack = Empty

DoingTypes == doing \in {"guest", "packing", "packed", "formatting", "returned"}

Packed == DoingTypes /\ FormatRead /\ PackTypes /\ GuestPacks /\ ListPacked /\ NothingWritten

\* The piece at hand is the one after those that are done.
LEMMA NextPiece ==
  ASSUME FormatRead, rest # << >>, rest' = Tail(rest), format' = format
  PROVE  /\ FormatRead' /\ Done \in Nat /\ Done' = Done + 1 /\ Done + 1 \in 1 .. Len(format)
         /\ Head(rest) = format[Done + 1] /\ Head(rest) \in Pieces
<1>1. /\ format \in Seq(Pieces) /\ rest \in Seq(Pieces) /\ Done \in 0 .. Len(format)
      /\ \A i \in 1 .. Len(rest) : rest[i] = format[Done + i]
  BY DEF FormatRead
<1>2. Len(format) \in Nat /\ Len(rest) \in Nat /\ Done = Len(format) - Len(rest)
  BY <1>1 DEF Done
<1>3. /\ Len(rest) >= 1 /\ Head(rest) = rest[1] /\ rest[1] \in Pieces
      /\ rest' \in Seq(Pieces) /\ Len(rest') = Len(rest) - 1
      /\ \A i \in 1 .. Len(rest') : rest'[i] = rest[i + 1]
  BY <1>1
<1>4. Done' = Done + 1 /\ Done \in Nat /\ Done + 1 \in 1 .. Len(format)
  BY <1>1, <1>2, <1>3 DEF Done
<1>5. Head(rest) = format[Done + 1]
  BY <1>1, <1>2, <1>3
<1>6. ASSUME NEW i \in 1 .. Len(rest')
      PROVE  rest'[i] = format[(Done + 1) + i]
  <2>1. i + 1 \in 1 .. Len(rest) /\ Done + (i + 1) = (Done + 1) + i
    BY <1>2, <1>3
  <2>2. QED
    BY <1>1, <1>3, <2>1
<1>7. FormatRead'
  BY <1>1, <1>2, <1>3, <1>4, <1>6 DEF FormatRead
<1>8. QED
  BY <1>3, <1>4, <1>5, <1>7

\* The numbers of values fit.
LEMMA Numbered ==
  ASSUME NEW f, NEW i \in Nat, NEW j \in 1 .. i, IsValue(f[j])
  PROVE  Count(f, j) \in 1 .. Count(f, i) /\ Count(f, i) \in Nat
<1>1. j \in Nat /\ 0 < j /\ j <= i
  OBVIOUS
<1>2. Count(f, 0) = 0 /\ Count(f, j) \in Nat /\ Count(f, i) \in Nat
  BY <1>1, CountNone, ValuesFinite
<1>3. Count(f, 0) < Count(f, j) /\ Count(f, j) <= Count(f, i)
  BY <1>1, CountMore
<1>4. QED
  BY <1>2, <1>3

\* The invariant of the packed list holds at rest, and each step keeps it.
LEMMA PackedAtFirst == Resting => Packed
<1> SUFFICES ASSUME Resting PROVE Packed
  OBVIOUS
<1>1. MaxValues \in Nat \ {0}
  BY VarArgPackAssumption
<1>2. format = << >> /\ rest = << >> /\ doing = "guest" /\ pack = Empty
      /\ arg_idx = 0 /\ buf = << >> /\ out = 0
  BY DEF Resting
<1>3. << >> \in Seq(Pieces) /\ Len(<< >>) = 0
  OBVIOUS
<1>4. Done = 0
  BY <1>2, <1>3 DEF Done
<1>5. FormatRead
  BY <1>2, <1>3, <1>4 DEF FormatRead
<1>6. /\ pack.types = [i \in 1 .. MaxValues |-> END] /\ pack.words = [i \in 1 .. MaxValues |-> ZeroWord]
      /\ pack.n = 0 /\ pack = [types |-> pack.types, words |-> pack.words, n |-> pack.n]
  BY <1>2 DEF Empty
<1>7. PackTypes
  BY <1>1, <1>6 DEF PackTypes
<1>8. GuestPacks
  BY <1>1, <1>4, <1>6, CountNone DEF GuestPacks
<1>9. QED
  BY <1>2, <1>5, <1>7, <1>8 DEF Packed, DoingTypes, ListPacked, NothingWritten

LEMMA CallsPrintfPacked == ASSUME Packed, CallsPrintf PROVE Packed'
<1>1. PICK len \in Nat : \E f \in [1 .. len -> Pieces] : format' = f /\ rest' = f
  BY VarArgPackAssumption DEF CallsPrintf
<1>2. format' \in Seq(Pieces) /\ rest' = format' /\ Len(format') \in Nat
  BY <1>1
<1>3. Done' = 0
  BY <1>2 DEF Done
<1>4. FormatRead'
  BY <1>2, <1>3 DEF FormatRead
<1>5. /\ doing = "guest" /\ doing' = "packing" /\ pack' = pack
      /\ buf' = buf /\ arg_idx' = arg_idx /\ out' = out
  BY DEF CallsPrintf
<1>6. pack = Empty
  BY <1>5 DEF Packed, NothingWritten
<1>9. pack.n = 0 /\ \A k \in 1 .. MaxValues : pack.types[k] = END /\ pack.words[k] = ZeroWord
  BY <1>6 DEF Empty
<1>10. MaxValues \in Nat
  BY VarArgPackAssumption
<1>7. GuestPacks'
  BY <1>3, <1>5, <1>9, <1>10, CountNone DEF GuestPacks
<1>8. QED
  BY <1>4, <1>5, <1>7 DEF Packed, DoingTypes, PackTypes, ListPacked, NothingWritten

LEMMA PackNextPacked == ASSUME Packed, PackNext PROVE Packed'
<1>1. /\ doing = "packing" /\ doing' = "packing" /\ rest # << >> /\ pack.n < MaxValues
      /\ rest' = Tail(rest) /\ format' = format
      /\ buf' = buf /\ arg_idx' = arg_idx /\ out' = out
  BY DEF PackNext
<1>2. /\ FormatRead' /\ Done \in Nat /\ Done' = Done + 1 /\ Done + 1 \in 1 .. Len(format)
      /\ Head(rest) = format[Done + 1]
  BY <1>1, NextPiece DEF Packed
<1>3. MaxValues \in Nat /\ pack.n \in Nat /\ pack.n = Count(format, Done)
  BY <1>1, VarArgPackAssumption DEF Packed, PackTypes, GuestPacks
<1>4. CASE IsValue(Head(rest))
  <2>1. pack' = [types |-> [pack.types EXCEPT ![pack.n + 1] = Packs[Head(rest)]],
                 words |-> [pack.words EXCEPT ![pack.n + 1] = Value(pack.n + 1)],
                 n |-> pack.n + 1]
    BY <1>4 DEF PackNext, TypeOf
  <2>2. /\ pack'.types = [k \in 1 .. MaxValues |-> IF k = pack.n + 1 THEN Packs[Head(rest)] ELSE pack.types[k]]
        /\ pack'.words = [k \in 1 .. MaxValues |-> IF k = pack.n + 1 THEN Value(pack.n + 1) ELSE pack.words[k]]
        /\ pack'.n = pack.n + 1
    <3>1. /\ pack.types = [k \in 1 .. MaxValues |-> pack.types[k]]
          /\ pack.words = [k \in 1 .. MaxValues |-> pack.words[k]]
      BY DEF Packed, PackTypes
    <3>2. /\ pack'.types = [pack.types EXCEPT ![pack.n + 1] = Packs[Head(rest)]]
          /\ pack'.words = [pack.words EXCEPT ![pack.n + 1] = Value(pack.n + 1)]
          /\ pack'.n = pack.n + 1
      BY <2>1
    <3>3. QED
      BY <3>1, <3>2
  <2>3. pack.n + 1 \in 1 .. MaxValues
    BY <1>1, <1>3
  <2>4. PackTypes'
    <3>1. /\ pack'.types = [k \in 1 .. MaxValues |-> pack'.types[k]]
          /\ pack'.words = [k \in 1 .. MaxValues |-> pack'.words[k]]
      BY <2>2
    <3>2. pack' = [types |-> pack'.types, words |-> pack'.words, n |-> pack'.n]
      BY <2>1
    <3>3. pack'.n \in 0 .. MaxValues
      BY <1>3, <2>2, <2>3
    <3>4. QED
      BY <3>1, <3>2, <3>3 DEF PackTypes
  <2>5. Count(format, Done + 1) = pack.n + 1
    BY <1>2, <1>3, <1>4, CountNext
  <2>6. ASSUME NEW j \in 1 .. (Done + 1), IsValue(format[j])
        PROVE  pack'.types[Count(format, j)] = Packs[format[j]]
    <3>1. CASE j = Done + 1
      BY <1>2, <2>2, <2>3, <2>5, <3>1
    <3>2. CASE j # Done + 1
      <4>1. j \in 1 .. Done
        BY <1>2, <3>2
      <4>2. Count(format, j) \in 1 .. pack.n
        BY <1>2, <1>3, <2>6, <4>1, Numbered
      <4>3. Count(format, j) \in 1 .. MaxValues /\ Count(format, j) # pack.n + 1
        BY <1>1, <1>3, <4>2
      <4>4. pack.types[Count(format, j)] = Packs[format[j]]
        BY <1>1, <2>6, <4>1 DEF Packed, GuestPacks
      <4>5. QED
        BY <2>2, <4>3, <4>4
    <3>3. QED
      BY <3>1, <3>2
  <2>7. ASSUME NEW k \in 1 .. MaxValues
        PROVE  IF k <= pack'.n THEN pack'.words[k] = Value(k)
               ELSE pack'.types[k] = END /\ pack'.words[k] = ZeroWord
    <3>1. IF k <= pack.n THEN pack.words[k] = Value(k)
          ELSE pack.types[k] = END /\ pack.words[k] = ZeroWord
      BY <1>1 DEF Packed, GuestPacks
    <3>2. QED
      BY <1>3, <2>2, <3>1
  <2>8. GuestPacks'
    BY <1>1, <1>2, <2>2, <2>5, <2>6, <2>7 DEF GuestPacks
  <2>9. QED
    BY <1>1, <1>2, <2>4, <2>8 DEF Packed, DoingTypes, ListPacked, NothingWritten
<1>5. CASE ~IsValue(Head(rest))
  <2>1. pack' = pack
    BY <1>5 DEF PackNext
  <2>2. Count(format, Done + 1) = pack.n
    BY <1>2, <1>3, <1>5, CountNext
  <2>3. ASSUME NEW j \in 1 .. (Done + 1), IsValue(format[j])
        PROVE  pack.types[Count(format, j)] = Packs[format[j]]
    <3>1. j \in 1 .. Done
      BY <1>2, <1>5, <2>3
    <3>2. QED
      BY <1>1, <2>3, <3>1 DEF Packed, GuestPacks
  <2>4. \A k \in 1 .. MaxValues :
          IF k <= pack.n THEN pack.words[k] = Value(k)
          ELSE pack.types[k] = END /\ pack.words[k] = ZeroWord
    BY <1>1 DEF Packed, GuestPacks
  <2>5. GuestPacks'
    BY <1>1, <1>2, <2>1, <2>2, <2>3, <2>4 DEF GuestPacks
  <2>6. QED
    BY <1>1, <1>2, <2>1, <2>5 DEF Packed, DoingTypes, PackTypes, ListPacked, NothingWritten
<1>6. QED
  BY <1>4, <1>5

LEMMA PackEndsPacked == ASSUME Packed, PackEnds PROVE Packed'
<1>1. /\ doing = "packing" /\ doing' = "packed" /\ (rest = << >> \/ pack.n = MaxValues)
      /\ rest' = rest /\ format' = format
      /\ buf' = buf /\ arg_idx' = arg_idx /\ out' = out
  BY DEF PackEnds
<1>2. FormatRead /\ PackTypes /\ GuestPacks
  BY DEF Packed
<1>3. FormatRead'
  BY <1>1, <1>2 DEF FormatRead, Done
<1>4. /\ MaxValues \in Nat /\ pack.n \in 0 .. MaxValues /\ pack.n = Count(format, Done)
      /\ Len(format) \in Nat /\ Done \in 0 .. Len(format)
  BY <1>1, <1>2, VarArgPackAssumption DEF PackTypes, GuestPacks, FormatRead
<1>5. /\ pack'.types = [k \in 1 .. MaxValues |-> IF k = pack.n + 1 THEN END ELSE pack.types[k]]
      /\ pack'.n = pack.n
      /\ pack' = [types |-> pack'.types, words |-> pack'.words, n |-> pack'.n]
      /\ pack'.words = [k \in 1 .. MaxValues |-> pack'.words[k]]
      /\ pack.n < MaxValues => pack'.words = pack.words
  <2>1. CASE pack.n < MaxValues
    <3>1. pack' = [types |-> [pack.types EXCEPT ![pack.n + 1] = END], words |-> pack.words, n |-> pack.n]
      BY <1>2, <2>1 DEF PackEnds, PackTypes
    <3>2. QED
      BY <1>2, <3>1 DEF PackTypes
  <2>2. CASE ~(pack.n < MaxValues)
    <3>1. pack' = [types |-> pack.types, words |-> [pack.words EXCEPT ![1] = Clobbered], n |-> pack.n]
      BY <1>2, <2>2 DEF PackEnds, PackTypes
    <3>2. \A k \in 1 .. MaxValues : k # pack.n + 1
      BY <1>4, <2>2
    <3>3. pack.types = [k \in 1 .. MaxValues |-> IF k = pack.n + 1 THEN END ELSE pack.types[k]]
      BY <1>2, <3>2 DEF PackTypes
    <3>4. QED
      BY <1>2, <2>2, <3>1, <3>3 DEF PackTypes
  <2>3. QED
    BY <2>1, <2>2
<1>6. PackTypes'
  BY <1>4, <1>5 DEF PackTypes
<1>7. rest = << >> => Done = Len(format)
  BY <1>4 DEF Done
<1>8. ASSUME NEW j \in 1 .. Len(format), IsValue(format[j]), Count(format, j) <= MaxValues
      PROVE  pack'.types[Count(format, j)] = Packs[format[j]]
  <2>1. j \in 1 .. Done
    <3>1. CASE rest = << >>
      BY <1>7, <3>1
    <3>2. CASE pack.n = MaxValues
      <4>1. SUFFICES ASSUME Done < j PROVE FALSE
        BY <1>4
      <4>2. j \in Nat /\ Done \in Nat /\ Done <= j
        BY <1>4, <4>1
      <4>3. Count(format, Done) < Count(format, j) /\ Count(format, j) \in Nat
        BY <1>8, <4>1, <4>2, CountMore, ValuesFinite
      <4>4. QED
        BY <1>4, <1>8, <3>2, <4>3
    <3>3. QED
      BY <1>1, <3>1, <3>2
  <2>2. Done \in Nat
    BY <1>4
  <2>3. Count(format, j) \in 1 .. pack.n
    BY <1>4, <1>8, <2>1, <2>2, Numbered
  <2>4. Count(format, j) \in 1 .. MaxValues /\ Count(format, j) # pack.n + 1
    BY <1>4, <2>3
  <2>5. pack.types[Count(format, j)] = Packs[format[j]]
    BY <1>1, <1>2, <1>8, <2>1 DEF GuestPacks
  <2>6. QED
    BY <1>5, <2>4, <2>5
<1>9. ASSUME Count(format, Len(format)) = 1, MaxValues > 1
      PROVE  /\ pack'.words[1] = Value(1) /\ pack'.words[2] = ZeroWord
             /\ \A k \in 2 .. MaxValues : pack'.types[k] = END
  <2>1. Count(format, Done) <= 1 /\ Done \in Nat
    BY <1>4, <1>9, CountMore
  <2>2. pack.n < MaxValues /\ rest = << >>
    BY <1>1, <1>4, <1>9, <2>1
  <2>3. pack.n = 1
    BY <1>4, <1>7, <1>9, <2>2
  <2>4. 1 \in 1 .. MaxValues /\ 2 \in 1 .. MaxValues /\ \A k \in 2 .. MaxValues : k \in 1 .. MaxValues /\ ~(k <= 1)
    BY <1>4, <1>9
  <2>5. \A k \in 1 .. MaxValues :
          IF k <= pack.n THEN pack.words[k] = Value(k)
          ELSE pack.types[k] = END /\ pack.words[k] = ZeroWord
    BY <1>1, <1>2 DEF GuestPacks
  <2>6. pack.words[1] = Value(1) /\ pack.words[2] = ZeroWord /\ \A k \in 2 .. MaxValues : pack.types[k] = END
    BY <2>3, <2>4, <2>5
  <2>7. QED
    BY <1>5, <2>2, <2>4, <2>6
<1>10. ListPacked'
  BY <1>1, <1>8, <1>9 DEF ListPacked
<1>11. QED
  BY <1>1, <1>3, <1>6, <1>10 DEF Packed, DoingTypes, GuestPacks, NothingWritten

\* The host reads the list and leaves it as it is.
LEMMA HostPacked ==
  ASSUME Packed, FormatRead', format' = format, pack' = pack,
         doing \notin {"guest", "packing"}, doing' \in {"formatting", "returned"}
  PROVE  Packed'
BY DEF Packed, DoingTypes, PackTypes, GuestPacks, ListPacked, NothingWritten

\* Every step keeps the list as it should be.
LEMMA PackedStep ==
  ASSUME Packed, [PrintsPacked]_packing
  PROVE  Packed'
<1>1. CASE CallsPrintf
  BY <1>1, CallsPrintfPacked
<1>2. CASE PackNext
  BY <1>2, PackNextPacked
<1>3. CASE PackEnds
  BY <1>3, PackEndsPacked
<1>4. CASE HostEnters
  <2>1. format \in Seq(Pieces) /\ format' = format /\ rest' = format /\ Len(format) \in Nat
    BY <1>4 DEF HostEnters, Packed, FormatRead
  <2>2. Done' = 0
    BY <2>1 DEF Done
  <2>3. FormatRead'
    BY <2>1, <2>2 DEF FormatRead
  <2>4. QED
    BY <1>4, <2>3, HostPacked DEF HostEnters
<1>5. CASE CopyText
  <2>1. FormatRead'
    BY <1>5, NextPiece DEF CopyText, Packed
  <2>2. QED
    BY <1>5, <2>1, HostPacked DEF CopyText
<1>6. CASE FormatValue
  <2>1. FormatRead'
    BY <1>6, NextPiece DEF FormatValue, Packed
  <2>2. QED
    BY <1>6, <2>1, HostPacked DEF FormatValue
<1>7. CASE Output
  <2>1. FormatRead'
    BY <1>7 DEF Output, Packed, FormatRead, Done
  <2>2. QED
    BY <1>7, <2>1, HostPacked DEF Output
<1>8. CASE PrintfReturns
  <2>1. Resting'
    BY <1>8 DEF PrintfReturns, Resting
  <2>2. QED
    BY <2>1, PackedAtFirst, PTL
<1>9. CASE UNCHANGED packing
  BY <1>9 DEF packing, Packed, DoingTypes, FormatRead, Done, PackTypes, GuestPacks, ListPacked, NothingWritten
<1>10. QED
  BY <1>1, <1>2, <1>3, <1>4, <1>5, <1>6, <1>7, <1>8, <1>9 DEF PrintsPacked

-----------------------------------------------------------------------------
(* What the host writes *)

\* Which conversions the guest knows, and which of them it packs as longs.
LEMMA PackFacts ==
  /\ ~IsValue("text") /\ ~IsValue("%%")
  /\ \A p : IsValue(p) =>
       /\ Packs[p] # END
       /\ Packs[p] \in {"VARG_LONG", "VARG_ULONG"} <=> p \in {"%ld", "%lu"}
<1>1. DOMAIN Packs = {"%d", "%u", "%ld", "%lu", "%s", "%p", "%c"}
  BY DEF Packs
<1>2. ASSUME NEW p, IsValue(p)
      PROVE  /\ Packs[p] # END
             /\ Packs[p] \in {"VARG_LONG", "VARG_ULONG"} <=> p \in {"%ld", "%lu"}
  <2>1. p \in {"%d", "%u", "%ld", "%lu", "%s", "%p", "%c"}
    BY <1>1, <1>2 DEF IsValue
  <2>2. CASE p = "%d"
    BY <2>2 DEF Packs, END
  <2>3. CASE p = "%u"
    BY <2>3 DEF Packs, END
  <2>4. CASE p = "%ld"
    BY <2>4 DEF Packs, END
  <2>5. CASE p = "%lu"
    BY <2>5 DEF Packs, END
  <2>6. CASE p = "%s"
    BY <2>6 DEF Packs, END
  <2>7. CASE p = "%p"
    BY <2>7 DEF Packs, END
  <2>8. CASE p = "%c"
    BY <2>8 DEF Packs, END
  <2>9. QED
    BY <2>1, <2>2, <2>3, <2>4, <2>5, <2>6, <2>7, <2>8
<1>3. QED
  BY <1>1, <1>2 DEF IsValue

\* The lines written for pieces, each with the type of its value.
Matches(lines, pieces) ==
  /\ IsSeq(lines) /\ Len(lines) = Len(pieces)
  /\ \A i \in 1 .. Len(lines) :
       /\ lines[i][1] = pieces[i]
       /\ IsValue(lines[i][1]) => lines[i][2] = Packs[lines[i][1]]

\* Lines and pieces that match go on to match.
LEMMA MatchesNext ==
  ASSUME NEW S, NEW pieces \in Seq(S), NEW lines, Matches(lines, pieces),
         NEW p \in S, NEW x, x[1] = p, IsValue(p) => x[2] = Packs[p]
  PROVE  Matches(Append(lines, x), Append(pieces, p))
<1>1. /\ IsSeq(Append(lines, x)) /\ Len(lines) \in Nat /\ Len(Append(lines, x)) = Len(lines) + 1
      /\ \A i \in 1 .. Len(lines) : Append(lines, x)[i] = lines[i]
      /\ Append(lines, x)[Len(lines) + 1] = x
  BY Appended DEF Matches
<1>2. /\ Len(Append(pieces, p)) = Len(pieces) + 1
      /\ \A i \in 1 .. Len(pieces) : Append(pieces, p)[i] = pieces[i]
      /\ Append(pieces, p)[Len(pieces) + 1] = p
  OBVIOUS
<1>3. Len(lines) = Len(pieces)
  BY DEF Matches
<1>4. ASSUME NEW i \in 1 .. Len(Append(lines, x))
      PROVE  /\ Append(lines, x)[i][1] = Append(pieces, p)[i]
             /\ IsValue(Append(lines, x)[i][1]) => Append(lines, x)[i][2] = Packs[Append(lines, x)[i][1]]
  <2>1. CASE i = Len(lines) + 1
    BY <1>1, <1>2, <1>3, <2>1
  <2>2. CASE i # Len(lines) + 1
    <3>1. i \in 1 .. Len(lines)
      BY <1>1, <2>2
    <3>2. QED
      BY <1>1, <1>2, <1>3, <3>1 DEF Matches
  <2>3. QED
    BY <2>1, <2>2
<1>5. QED
  BY <1>1, <1>2, <1>3, <1>4 DEF Matches

Formatting == doing \in {"formatting", "returned"}

\* A format of conversions both readers know.
KnownPieces == Pieces \subseteq {"text", "%%"} \cup DOMAIN Packs

\* What is written is what should come of the pieces read, and as many values
\* are used up.
WrittenInOrder ==
  Formatting =>
    /\ arg_idx = IF Count(format, Done) < MaxValues THEN Count(format, Done) ELSE MaxValues
    /\ Matches(buf, ShownTo(format)[Done])

\* Each step of the host keeps to the order of the format.
LEMMA WrittenStep ==
  ASSUME KnownPieces, Packed, WrittenInOrder, [PrintsPacked]_packing
  PROVE  WrittenInOrder'
<1>0. /\ FormatRead /\ format \in Seq(Pieces) /\ MaxValues \in Nat
      /\ Len(format) \in Nat /\ Done \in 0 .. Len(format)
  BY VarArgPackAssumption DEF Packed, FormatRead
<1>1. CASE CallsPrintf \/ PackNext \/ PackEnds \/ PrintfReturns
  BY <1>1 DEF CallsPrintf, PackNext, PackEnds, PrintfReturns, WrittenInOrder, Formatting
<1>2. CASE HostEnters
  <2>1. buf' = << >> /\ arg_idx' = 0 /\ format' = format /\ rest' = format
    BY <1>2 DEF HostEnters, Packed, NothingWritten
  <2>2. Done' = 0
    BY <1>0, <2>1 DEF Done
  <2>3. ShownTo(format)[0] = << >>
    BY <1>0, ShownGrows
  <2>4. IsSeq(<< >>) /\ Len(<< >>) = 0
    <3>1. << >> \in Seq({}) /\ Len(<< >>) = 0
      OBVIOUS
    <3>2. QED
      BY <3>1 DEF IsSeq
  <2>5. Matches(<< >>, << >>)
    BY <2>4 DEF Matches
  <2>6. QED
    BY <1>0, <2>1, <2>2, <2>3, <2>5, CountNone DEF WrittenInOrder
<1>3. CASE CopyText \/ FormatValue
  <2>1. /\ Formatting /\ Formatting' /\ rest # << >> /\ rest' = Tail(rest)
        /\ format' = format
    BY <1>3 DEF CopyText, FormatValue, Formatting
  <2> DEFINE p == Head(rest)
             shown == ShownTo(format)[Done]
             count == Count(format, Done)
  <2>2. /\ Done \in Nat /\ Done' = Done + 1 /\ Done + 1 \in 1 .. Len(format)
        /\ p = format[Done + 1] /\ p \in Pieces
    BY <1>0, <2>1, NextPiece
  <2>3. /\ arg_idx = IF count < MaxValues THEN count ELSE MaxValues
        /\ Matches(buf, shown)
    BY <2>1 DEF WrittenInOrder
  <2>4. /\ shown \in Seq(Pieces)
        /\ ShownTo(format)[Done + 1] = Show(format, Done + 1, shown)
    <3>1. /\ \A i \in 1 .. Len(format) : ShownTo(format)[i] = Show(format, i, ShownTo(format)[i - 1])
          /\ \A i \in 0 .. Len(format) : ShownTo(format)[i] \in Seq(Pieces)
      BY <1>0, ShownGrows
    <3>2. (Done + 1) - 1 = Done
      BY <2>2
    <3>3. QED
      BY <1>0, <2>2, <3>1, <3>2
  <2>5. count \in Nat
    BY <2>2, ValuesFinite
  <2>6. Count(format, Done + 1) = IF IsValue(p) THEN count + 1 ELSE count
    BY <2>2, CountNext
  <2> HIDE DEF p, shown, count
  <2>7. CASE CopyText
    <3>1. p \in {"text", "%%"} /\ buf' = Append(buf, <<p>>) /\ arg_idx' = arg_idx
      BY <2>7 DEF CopyText, p
    <3>2. ~IsValue(p)
      BY <3>1, PackFacts
    <3>3. ShownTo(format)[Done + 1] = Append(shown, p)
      BY <2>2, <2>4, <3>2 DEF Show
    <3>4. <<p>>[1] = p
      OBVIOUS
    <3>5. Matches(Append(buf, <<p>>), Append(shown, p))
      BY <2>2, <2>3, <2>4, <3>2, <3>4, MatchesNext
    <3>6. QED
      BY <2>1, <2>2, <2>3, <2>6, <3>1, <3>2, <3>3, <3>5 DEF WrittenInOrder, count
  <2>8. CASE FormatValue
    <3>1. p \notin {"text", "%%"}
      BY <2>8 DEF FormatValue, p
    <3>2. IsValue(p)
      BY <2>2, <3>1 DEF KnownPieces, IsValue
    <3>3. CASE count < MaxValues
      <4>1. arg_idx = count /\ count + 1 <= MaxValues /\ arg_idx < MaxValues
        BY <1>0, <2>3, <2>5, <3>3
      <4>2. pack.types[count + 1] = Packs[p]
        <5>1. doing \notin {"guest", "packing"}
          BY <2>1 DEF Formatting
        <5>2. Count(format, Done + 1) = count + 1
          BY <2>6, <3>2
        <5>3. QED
          BY <2>2, <3>2, <4>1, <5>1, <5>2 DEF Packed, ListPacked
      <4>3. HasValue
        BY <3>2, <4>1, <4>2, PackFacts DEF HasValue
      <4>4. PICK x : x = <<p, Packs[p], Read(Packs[p], arg_idx + 1)>>
        OBVIOUS
      <4>5. buf' = Append(buf, x) /\ arg_idx' = count + 1
        BY <2>8, <4>1, <4>2, <4>3, <4>4 DEF FormatValue, NextValue, p
      <4>6. ShownTo(format)[Done + 1] = Append(shown, p)
        BY <1>0, <2>2, <2>4, <2>5, <2>6, <3>2, <4>1 DEF Show
      <4>7. x[1] = p /\ x[2] = Packs[p]
        BY <4>4
      <4>8. Matches(Append(buf, x), Append(shown, p))
        BY <2>2, <2>3, <2>4, <4>7, MatchesNext
      <4>9. count + 1 = IF count + 1 < MaxValues THEN count + 1 ELSE MaxValues
        BY <1>0, <2>5, <4>1
      <4>10. QED
        BY <2>1, <2>2, <2>6, <3>2, <4>5, <4>6, <4>8, <4>9 DEF WrittenInOrder
    <3>4. CASE ~(count < MaxValues)
      <4>1. arg_idx = MaxValues /\ count + 1 > MaxValues /\ ~(count + 1 < MaxValues)
        BY <1>0, <2>3, <2>5, <3>4
      <4>2. ~HasValue
        BY <1>0, <4>1 DEF HasValue
      <4>3. buf' = buf /\ arg_idx' = arg_idx
        BY <2>8, <4>2 DEF FormatValue
      <4>4. ShownTo(format)[Done + 1] = shown
        BY <2>2, <2>4, <2>6, <3>2, <4>1 DEF Show
      <4>5. QED
        BY <2>1, <2>2, <2>3, <2>6, <3>2, <4>1, <4>3, <4>4 DEF WrittenInOrder
    <3>5. QED
      BY <3>3, <3>4
  <2>9. QED
    BY <1>3, <2>7, <2>8
<1>4. CASE Output \/ UNCHANGED packing
  <2>1. /\ Formatting' => Formatting
        /\ format' = format /\ rest' = rest /\ buf' = buf /\ arg_idx' = arg_idx
    BY <1>4 DEF Output, packing, Formatting
  <2>2. QED
    BY <2>1 DEF WrittenInOrder, Done
<1>5. QED
  BY <1>1, <1>2, <1>3, <1>4 DEF PrintsPacked

LEMMA WrittenShown ==
  ASSUME Packed, WrittenInOrder
  PROVE  PrintedInOrder
<1>0. format \in Seq(Pieces) /\ Done \in 0 .. Len(format)
  BY DEF Packed, FormatRead
<1>1. PICK shown, whole : shown = ShownTo(format)[Done] /\ whole = Shown(format)
  OBVIOUS
<1>2. shown \in Seq(Pieces) /\ Continues(shown, whole)
  BY <1>0, <1>1, ShownGrows
<1>3. whole \in Seq(Pieces)
  <2>1. Len(format) \in 0 .. Len(format)
    BY <1>0
  <2>2. QED
    BY <1>0, <1>1, <2>1, ShownGrows DEF Shown
<1>4. CASE Formatting
  <2>1. Matches(buf, shown)
    BY <1>1, <1>4 DEF WrittenInOrder
  <2>2. Len(buf) = Len(shown) /\ DOMAIN buf = 1 .. Len(buf) /\ Len(buf) <= Len(whole)
    BY <1>2, <2>1, Appended DEF Matches, Continues
  <2>3. ASSUME NEW i \in DOMAIN buf
        PROVE  buf[i][1] = whole[i] /\ (IsValue(whole[i]) => buf[i][2] = Packs[whole[i]])
    BY <1>2, <2>1, <2>2 DEF Matches, Continues
  <2>4. QED
    BY <1>1, <2>2, <2>3 DEF PrintedInOrder
<1>5. CASE ~Formatting
  <2>1. doing \in {"guest", "packing", "packed"} => buf = << >>
    BY DEF Packed, NothingWritten
  <2>3. buf = << >>
    BY <1>5, <2>1 DEF Packed, DoingTypes, Formatting
  <2>2. QED
    BY <1>1, <1>3, <2>3 DEF PrintedInOrder
<1>6. QED
  BY <1>4, <1>5

-----------------------------------------------------------------------------
(* A format with one value *)

\* What the host reads of the first value, with nothing behind it.
Lone(p) == IF p \in {"%ld", "%lu"} THEN <<Value(1), ZeroWord>> ELSE <<Value(1)>>

LoneValue ==
  Formatting =>
    /\ arg_idx \in Nat /\ IsSeq(buf)
    /\ Count(format, Len(format)) = 1 =>
         \A i \in 1 .. Len(buf) : IsValue(buf[i][1]) => buf[i][3] = Lone(buf[i][1])

\* Each step keeps the only value whole.
LEMMA LoneStep ==
  ASSUME MaxValues > 1, Packed, LoneValue, [PrintsPacked]_packing
  PROVE  LoneValue'
<1>0. FormatRead /\ format \in Seq(Pieces) /\ MaxValues \in Nat /\ Len(format) \in Nat
  BY VarArgPackAssumption DEF Packed, FormatRead
<1>1. CASE CallsPrintf \/ PackNext \/ PackEnds \/ PrintfReturns
  BY <1>1 DEF CallsPrintf, PackNext, PackEnds, PrintfReturns, LoneValue, Formatting
<1>2. CASE HostEnters
  <2>1. buf' = << >> /\ arg_idx' = 0
    BY <1>2 DEF HostEnters, Packed, NothingWritten
  <2>2. << >> \in Seq({}) /\ Len(<< >>) = 0
    OBVIOUS
  <2>3. QED
    BY <2>1, <2>2 DEF LoneValue, IsSeq
<1>3. CASE CopyText
  <2>1. /\ Formatting /\ Head(rest) \in {"text", "%%"} /\ buf' = Append(buf, <<Head(rest)>>)
        /\ arg_idx' = arg_idx /\ format' = format
    BY <1>3 DEF CopyText, Formatting
  <2>2. PICK x : x = <<Head(rest)>>
    OBVIOUS
  <2>3. ~IsValue(x[1]) /\ buf' = Append(buf, x)
    BY <2>1, <2>2, PackFacts
  <2>4. arg_idx \in Nat /\ IsSeq(buf)
    BY <2>1 DEF LoneValue
  <2>5. /\ IsSeq(buf') /\ Len(buf) \in Nat /\ Len(buf') = Len(buf) + 1
        /\ \A i \in 1 .. Len(buf) : buf'[i] = buf[i]
        /\ buf'[Len(buf) + 1] = x
    BY <2>3, <2>4, Appended
  <2>6. ASSUME Count(format, Len(format)) = 1, NEW i \in 1 .. Len(buf'), IsValue(buf'[i][1])
        PROVE  buf'[i][3] = Lone(buf'[i][1])
    <3>1. i \in 1 .. Len(buf)
      BY <2>3, <2>5, <2>6
    <3>2. QED
      BY <2>1, <2>5, <2>6, <3>1 DEF LoneValue
  <2>7. QED
    BY <2>1, <2>4, <2>5, <2>6 DEF LoneValue
<1>4. CASE FormatValue
  <2>1. /\ Formatting /\ doing \notin {"guest", "packing"} /\ rest # << >> /\ rest' = Tail(rest)
        /\ format' = format
    BY <1>4 DEF FormatValue, Formatting
  <2>2. arg_idx \in Nat /\ IsSeq(buf)
    BY <2>1 DEF LoneValue
  <2>3. Done \in Nat /\ Done + 1 \in 1 .. Len(format) /\ Head(rest) = format[Done + 1]
    BY <1>0, <2>1, NextPiece
  <2>4. CASE ~HasValue
    BY <1>4, <2>1, <2>2, <2>4 DEF FormatValue, LoneValue
  <2>5. CASE HasValue
    <3> DEFINE type == pack.types[arg_idx + 1]
    <3>1. PICK x : x = <<Head(rest), type, Read(type, arg_idx + 1)>>
      OBVIOUS
    <3>2. buf' = Append(buf, x) /\ arg_idx' = arg_idx + 1
      BY <1>4, <2>5, <3>1 DEF FormatValue, NextValue
    <3>3. /\ IsSeq(buf') /\ Len(buf) \in Nat /\ Len(buf') = Len(buf) + 1
          /\ \A i \in 1 .. Len(buf) : buf'[i] = buf[i]
          /\ buf'[Len(buf) + 1] = x
      BY <2>2, <3>2, Appended
    <3>4. ASSUME Count(format, Len(format)) = 1, IsValue(Head(rest))
          PROVE  x[3] = Lone(Head(rest))
      <4>1. /\ pack.words[1] = Value(1) /\ pack.words[2] = ZeroWord
            /\ \A k \in 2 .. MaxValues : pack.types[k] = END
        BY <2>1, <3>4 DEF Packed, ListPacked
      <4>2. arg_idx = 0
        <5>1. arg_idx < MaxValues /\ pack.types[arg_idx + 1] # END
          BY <2>5 DEF HasValue
        <5>2. QED
          BY <1>0, <2>2, <4>1, <5>1
      <4>3. Count(format, Done + 1) = 1
        <5>1. Count(format, Done + 1) \in 1 .. Count(format, Len(format))
          BY <1>0, <2>3, <3>4, Numbered
        <5>2. QED
          BY <3>4, <5>1
      <4>4. type = Packs[Head(rest)]
        <5>1. pack.types[1] = Packs[Head(rest)]
          BY <1>0, <2>1, <2>3, <3>4, <4>3 DEF Packed, ListPacked
        <5>2. arg_idx + 1 = 1
          BY <4>2
        <5>3. QED
          BY <5>1, <5>2
      <4>5. 2 * (arg_idx + 1) - 1 = 1 /\ 2 * (arg_idx + 1) = 2
        BY <4>2
      <4>6. WordOf(1) = Value(1) /\ WordOf(2) = ZeroWord
        BY <1>0, <4>1 DEF WordOf
      <4> HIDE DEF type
      <4>7. type \in {"VARG_LONG", "VARG_ULONG"} <=> Head(rest) \in {"%ld", "%lu"}
        BY <3>4, <4>4, PackFacts
      <4>8. Read(type, arg_idx + 1) = Lone(Head(rest))
        BY <4>5, <4>6, <4>7 DEF Read, Lone
      <4>9. QED
        BY <3>1, <4>8 DEF type
    <3>5. x[1] = Head(rest)
      BY <3>1
    <3>6. ASSUME Count(format, Len(format)) = 1, NEW i \in 1 .. Len(buf'), IsValue(buf'[i][1])
          PROVE  buf'[i][3] = Lone(buf'[i][1])
      <4>1. CASE i = Len(buf) + 1
        BY <3>3, <3>4, <3>5, <3>6, <4>1
      <4>2. CASE i # Len(buf) + 1
        <5>1. i \in 1 .. Len(buf)
          BY <3>3, <4>2
        <5>2. QED
          BY <2>1, <3>3, <3>6, <5>1 DEF LoneValue
      <4>3. QED
        BY <4>1, <4>2
    <3>7. QED
      BY <2>1, <2>2, <3>2, <3>3, <3>6 DEF LoneValue
  <2>6. QED
    BY <2>4, <2>5
<1>5. CASE Output \/ UNCHANGED packing
  <2>1. /\ Formatting' => Formatting
        /\ format' = format /\ buf' = buf /\ arg_idx' = arg_idx
    BY <1>5 DEF Output, packing, Formatting
  <2>2. QED
    BY <2>1 DEF LoneValue
<1>6. QED
  BY <1>1, <1>2, <1>3, <1>4, <1>5 DEF PrintsPacked

LEMMA LoneKept ==
  ASSUME Packed, LoneValue
  PROVE  OneValueKept
<1>1. CASE Formatting
  <2>1. DOMAIN buf = 1 .. Len(buf)
    BY <1>1, Appended DEF LoneValue
  <2>2. QED
    BY <1>1, <2>1 DEF LoneValue, OneValueKept, Lone, Count
<1>2. CASE ~Formatting
  <2>1. buf = << >>
    BY <1>2 DEF Packed, DoingTypes, NothingWritten, Formatting
  <2>2. DOMAIN << >> = {}
    OBVIOUS
  <2>3. QED
    BY <2>1, <2>2 DEF OneValueKept
<1>3. QED
  BY <1>1, <1>2

-----------------------------------------------------------------------------
(* Theorems about packed lists *)

LEMMA PackedAlways == PrintSpec => []Packed
<1>1. Packed /\ [PrintsPacked]_packing => Packed'
  BY PackedStep
<1>2. QED
  BY <1>1, PackedAtFirst, PTL DEF PrintSpec

\* __varargs_pack_printf and yos_varargs_call read a format alike as long as
\* both know its conversions: what is written follows the format, each value by
\* the type it was packed with, those beyond VARG_MAX left out.
THEOREM ReadersAgree == KnownPieces => (PrintSpec => []PrintedInOrder)
<1>1. ASSUME KnownPieces
      PROVE  PrintSpec => []PrintedInOrder
  <2>1. Resting => WrittenInOrder
    BY DEF Resting, WrittenInOrder, Formatting
  <2>2. Packed /\ WrittenInOrder /\ [PrintsPacked]_packing => WrittenInOrder'
    BY <1>1, WrittenStep
  <2>3. Packed /\ WrittenInOrder => PrintedInOrder
    BY WrittenShown
  <2>4. QED
    BY <2>1, <2>2, <2>3, PackedAlways, PTL DEF PrintSpec
<1>2. QED
  BY <1>1

\* The only value of a format reaches the host as the guest packed it, a long
\* with 0 for the half that the guest's word lacks, whatever else the format
\* holds and for any VARG_MAX above 1.
THEOREM LoneValueKept == MaxValues > 1 => (PrintSpec => []OneValueKept)
<1>1. ASSUME MaxValues > 1
      PROVE  PrintSpec => []OneValueKept
  <2>1. Resting => LoneValue
    BY DEF Resting, LoneValue, Formatting
  <2>2. Packed /\ LoneValue /\ [PrintsPacked]_packing => LoneValue'
    BY <1>1, LoneStep
  <2>3. Packed /\ LoneValue => OneValueKept
    BY LoneKept
  <2>4. QED
    BY <2>1, <2>2, <2>3, PackedAlways, PTL DEF PrintSpec
<1>2. QED
  BY <1>1

\* out and the text in buf part only when the last value is cut, and a call
\* that returns has read its format to the end or filled buf.
TextHeld ==
  /\ out \in Nat /\ held \in Nat /\ total = out
  /\ \/ held = out /\ out <= BufSize - 1
     \/ held = BufSize - 1 /\ out >= BufSize
  /\ doing = "returned" => rest = << >> \/ ~Room

LEMMA TextStep ==
  ASSUME TextHeld, [PrintsPacked]_packing
  PROVE  TextHeld'
<1>0. BufSize \in Nat \ {0} /\ Widths \subseteq Nat
  BY VarArgPackAssumption
<1>1. CASE CopyText
  <2>1. /\ out < BufSize - 1 /\ doing = "formatting" /\ doing' = doing
        /\ out' = out + 1 /\ held' = out + 1 /\ total' = total + 1
    BY <1>1 DEF CopyText, Room
  <2>2. QED
    BY <1>0, <2>1 DEF TextHeld
<1>2. CASE FormatValue
  <2>1. /\ out < BufSize - 1 /\ doing = "formatting" /\ doing' = doing
        /\ \/ out' = out /\ held' = held /\ total' = total
           \/ \E n \in Widths : out' = out + n /\ held' = out + Written(n) /\ total' = total + n
    BY <1>2 DEF FormatValue, Room
  <2>2. CASE out' = out /\ held' = held /\ total' = total
    BY <2>1, <2>2 DEF TextHeld
  <2>3. CASE \E n \in Widths : out' = out + n /\ held' = out + Written(n) /\ total' = total + n
    <3> PICK n \in Widths : out' = out + n /\ held' = out + Written(n) /\ total' = total + n
      BY <2>3
    <3>1. n \in Nat
      BY <1>0
    <3>2. QED
      BY <1>0, <2>1, <3>1 DEF TextHeld, Written
  <2>4. QED
    BY <2>1, <2>2, <2>3
<1>3. CASE Output
  BY <1>3 DEF Output, Room, TextHeld
<1>4. CASE PrintfReturns
  BY <1>0, <1>4 DEF PrintfReturns, TextHeld
<1>5. CASE CallsPrintf \/ PackNext \/ PackEnds \/ HostEnters
  BY <1>5 DEF CallsPrintf, PackNext, PackEnds, HostEnters, TextHeld
<1>6. CASE UNCHANGED packing
  BY <1>6 DEF packing, Room, TextHeld
<1>7. QED
  BY <1>1, <1>2, <1>3, <1>4, <1>5, <1>6 DEF PrintsPacked

\* A format that was read to its end has all its lines.
LEMMA TextWhole ==
  ASSUME Packed, WrittenInOrder, TextHeld
  PROVE  TextInBuf
<1>0. BufSize \in Nat \ {0}
  BY VarArgPackAssumption
<1>1. /\ held <= BufSize - 1
      /\ held # total => held = BufSize - 1 /\ total >= BufSize
  BY <1>0 DEF TextHeld
<1>2. ASSUME doing = "returned", total < BufSize - 1
      PROVE  Len(buf) = Len(Shown(format))
  <2>1. rest = << >>
    BY <1>0, <1>2 DEF TextHeld, Room
  <2>2. Done = Len(format)
    BY <2>1 DEF Done, Packed, FormatRead
  <2>3. Matches(buf, ShownTo(format)[Done])
    BY <1>2 DEF WrittenInOrder, Formatting
  <2>4. QED
    BY <2>2, <2>3 DEF Matches, Shown
<1>3. QED
  BY <1>1, <1>2 DEF TextInBuf

\* Formats of any length, with values of any length, leave a text inside buf;
\* a count that buf could hold with room to spare is that of a whole text.
THEOREM TextFits == KnownPieces => (PrintSpec => []TextInBuf)
<1>1. ASSUME KnownPieces
      PROVE  PrintSpec => []TextInBuf
  <2>1. Resting => WrittenInOrder
    BY DEF Resting, WrittenInOrder, Formatting
  <2>2. Resting => TextHeld
    BY VarArgPackAssumption DEF Resting, TextHeld
  <2>3. Packed /\ WrittenInOrder /\ TextHeld /\ [PrintsPacked]_packing => (WrittenInOrder /\ TextHeld)'
    BY <1>1, WrittenStep, TextStep
  <2>4. Packed /\ WrittenInOrder /\ TextHeld => TextInBuf
    BY TextWhole
  <2>5. QED
    BY <2>1, <2>2, <2>3, <2>4, PackedAlways, PTL DEF PrintSpec
<1>2. QED
  BY <1>1

=============================================================================
