------------------------- MODULE ContextSyncProofs -------------------------
(***************************************************************************)
(* Proofs about the transfer of the processor state, for every number of   *)
(* x87 registers, set of control states and register contents.             *)
(***************************************************************************)
EXTENDS ContextSync, TLAPS

FpuState == [st_space : [Reg -> Values], tos : Reg, twd : [Reg -> Tag]]
View == [top : Reg, st : [Reg -> Values]]
TagByte == [Reg -> BOOLEAN]
Derived == [mode : {"real", "v8086", "protected", "compat", "long64"}, cpl : {0, 3},
            user_pl : BOOLEAN, align : BOOLEAN, sse_ok : BOOLEAN, avx_ok : BOOLEAN,
            fetch : [avx_ok : BOOLEAN, sse_ok : BOOLEAN, long64 : BOOLEAN, d_b : BOOLEAN]]

\* Types of the three copies of the processor state.
CopiesOK ==
  /\ pc \in {"bochs", "vm"}
  /\ bochs = [ctl |-> bochs.ctl, derived |-> bochs.derived, cs |-> bochs.cs,
              fip |-> bochs.fip, fcs |-> bochs.fcs, tpr |-> bochs.tpr, fpu |-> bochs.fpu,
              ext |-> bochs.ext]
  /\ bochs.ctl \in Control /\ Legal(bochs.ctl)
  /\ bochs.cs \in Rights
  /\ bochs.fip \in Values /\ bochs.fcs \in Values
  /\ bochs.tpr \in Values \X Values
  /\ bochs.fpu \in FpuState
  /\ hyp = [ctl |-> hyp.ctl, cs |-> hyp.cs, ptr |-> hyp.ptr, cr8 |-> hyp.cr8,
            fpu |-> hyp.fpu, tag |-> hyp.tag, ext |-> hyp.ext]
  /\ hyp.ctl \in Control /\ Legal(hyp.ctl)
  /\ hyp.cs \in Rights
  /\ hyp.ptr \in Values /\ hyp.cr8 \in Values
  /\ hyp.fpu \in View
  /\ hyp.tag \in TagByte
  /\ truth = [ctl |-> truth.ctl, cs |-> truth.cs, ptr |-> truth.ptr, tpr |-> truth.tpr,
              fpu |-> truth.fpu, tag |-> truth.tag, ext |-> truth.ext]
  /\ truth.tpr \in Values \X Values
  /\ lost \subseteq Groups
  /\ steps \in 0 .. MaxSteps

\* The derived state that the registers mean, but for the CPL that the alignment
\* check saw, which is the low bits of the CS selector.
Loaded(c) == [Meaning(c) EXCEPT !.align = (c.rpl = 3 /\ c.am /\ c.ac)]

\* Bochs' derived state is that of its registers, up to the CPL that the
\* alignment check saw.
DerivedInv == bochs.derived \in {Meaning(bochs.ctl), Loaded(bochs.ctl)}

\* The engine that runs the guest has what the guest would see on one processor,
\* as OnlyKnownGaps says; the tags go with the registers; and while the hypervisor
\* runs, the low bits of the task priority that it cannot hold are those Bochs has
\* kept, or clear.
GapsInv ==
  /\ "ctl" \notin lost => truth.ctl = IF pc = "bochs" THEN bochs.ctl ELSE hyp.ctl
  /\ "ptr" \notin lost => truth.ptr = IF pc = "bochs" THEN PtrView(bochs) ELSE hyp.ptr
  /\ "tpr" \notin lost => IF pc = "bochs" THEN truth.tpr = bochs.tpr
                          ELSE truth.tpr[1] = hyp.cr8 /\ truth.tpr[2] \in {0, bochs.tpr[2]}
  /\ "cs" \notin lost => truth.cs = IF pc = "bochs" THEN bochs.cs ELSE hyp.cs
  /\ "fpu" \notin lost => truth.fpu = IF pc = "bochs" THEN FpuView(bochs.fpu) ELSE hyp.fpu
  /\ "tag" \notin lost =>
       /\ "fpu" \notin lost
       /\ truth.tag = IF pc = "bochs" THEN Abridged(bochs.fpu.twd) ELSE hyp.tag
  /\ "ext" \notin lost => truth.ext = IF pc = "bochs" THEN bochs.ext ELSE hyp.ext

\* The inductive invariant of the transfer.
SyncInv == CopiesOK /\ DerivedInv /\ GapsInv

-----------------------------------------------------------------------------
(* The x87 stack: the numbers of its registers wrap around.                *)

\* What % returns one step below zero and up to twice the modulus.
LEMMA ModWrap ==
  ASSUME NEW n \in Nat \ {0}, NEW x \in -1 .. 2 * n - 1
  PROVE  x % n = IF x < 0 THEN n - 1 ELSE IF x < n THEN x ELSE x - n
<1>1. CASE x < 0
  <2>1. x = (-1) * n + (n - 1)
    BY <1>1
  <2>. QED BY <1>1, <2>1
<1>2. CASE x >= 0 /\ x < n
  BY <1>2
<1>3. CASE x >= n
  <2>1. x = 1 * n + (x - n) /\ x - n \in 0 .. n - 1
    BY <1>3
  <2>. QED BY <1>3, <2>1
<1>. QED BY <1>1, <1>2, <1>3

\* ModWrap for the numbers of FPU registers.
LEMMA NumberOK ==
  ASSUME NEW t \in Reg, NEW i \in Reg
  PROVE  /\ (t + i) % FpuRegs = IF t + i < FpuRegs THEN t + i ELSE t + i - FpuRegs
         /\ (t + i) % FpuRegs \in Reg
         /\ (t - 1) % FpuRegs = IF t = 0 THEN FpuRegs - 1 ELSE t - 1
         /\ (t - 1) % FpuRegs \in Reg
         /\ (t + 1) % FpuRegs = IF t + 1 = FpuRegs THEN 0 ELSE t + 1
         /\ (t + 1) % FpuRegs \in Reg
<1>1. FpuRegs \in Nat \ {0} /\ t \in 0 .. FpuRegs - 1 /\ i \in 0 .. FpuRegs - 1
  BY FpuAssumption DEF Reg
<1>2. /\ t + i \in -1 .. 2 * FpuRegs - 1
      /\ t - 1 \in -1 .. 2 * FpuRegs - 1
      /\ t + 1 \in -1 .. 2 * FpuRegs - 1
  BY <1>1
<1>. DEFINE Wrap(x) == IF x < 0 THEN FpuRegs - 1 ELSE IF x < FpuRegs THEN x ELSE x - FpuRegs
<1>6. \A x \in -1 .. 2 * FpuRegs - 1 : x % FpuRegs = Wrap(x)
  BY <1>1, ModWrap
<1>7. /\ (t + i) % FpuRegs = Wrap(t + i)
      /\ (t - 1) % FpuRegs = Wrap(t - 1)
      /\ (t + 1) % FpuRegs = Wrap(t + 1)
  <2>. HIDE DEF Wrap
  <2>. QED BY <1>2, <1>6
<1>3. (t + i) % FpuRegs = IF t + i < FpuRegs THEN t + i ELSE t + i - FpuRegs
  BY <1>1, <1>7
<1>4. (t - 1) % FpuRegs = IF t = 0 THEN FpuRegs - 1 ELSE t - 1
  BY <1>1, <1>7
<1>5. (t + 1) % FpuRegs = IF t + 1 = FpuRegs THEN 0 ELSE t + 1
  BY <1>1, <1>7
<1>. QED BY <1>1, <1>3, <1>4, <1>5 DEF Reg

\* The instructions keep the types, and pushing and popping on Bochs' stack is
\* pushing and popping on what an instruction sees of it.
LEMMA PushOK ==
  ASSUME NEW f \in FpuState, NEW v \in Values
  PROVE  /\ Push(f, v) \in FpuState
         /\ FpuView(Push(f, v)) = PushView(FpuView(f), v)
         /\ Abridged(Push(f, v).twd) = PushTag(f.tos, Abridged(f.twd))
<1>. DEFINE t == (f.tos - 1) % FpuRegs
            g == Push(f, v)
<1>1. f.tos \in Reg /\ f.st_space \in [Reg -> Values] /\ f.twd \in [Reg -> Tag]
  BY DEF FpuState
<1>2. t \in Reg /\ 0 \in Tag /\ 0 \in Reg
  <2>1. 0 \in Reg
    BY FpuAssumption DEF Reg
  <2>2. \A a, b \in Reg : (a - 1) % FpuRegs \in Reg
    BY NumberOK
  <2>. QED BY <1>1, <2>1, <2>2 DEF Tag
<1>. HIDE DEF t
<1>3. g = [st_space |-> [f.st_space EXCEPT ![t] = v], tos |-> t, twd |-> [f.twd EXCEPT ![t] = 0]]
  BY DEF Push, t
<1>. HIDE DEF g
<1>4. g \in FpuState
  BY <1>1, <1>2, <1>3 DEF FpuState
<1>5. ASSUME NEW i \in Reg
      PROVE  ST(g, i) = IF i = 0 THEN v ELSE ST(f, i - 1)
  <2>1. CASE i = 0
    <3>1. (t + i) % FpuRegs = t
      <4>1. (t + i) % FpuRegs = IF t + i < FpuRegs THEN t + i ELSE t + i - FpuRegs
        BY <1>2, NumberOK
      <4>. QED BY <1>2, <2>1, <4>1, FpuAssumption DEF Reg
    <3>. QED BY <1>1, <1>2, <1>3, <2>1, <3>1 DEF ST
  <2>2. CASE i # 0
    <3>1. i - 1 \in Reg
      BY <2>2, FpuAssumption DEF Reg
    <3>2. /\ (t + i) % FpuRegs = (f.tos + (i - 1)) % FpuRegs
          /\ (t + i) % FpuRegs # t
          /\ (t + i) % FpuRegs \in Reg
      <4>1. t = IF f.tos = 0 THEN FpuRegs - 1 ELSE f.tos - 1
        BY <1>1, NumberOK DEF t
      <4>2. (t + i) % FpuRegs = IF t + i < FpuRegs THEN t + i ELSE t + i - FpuRegs
        BY <1>2, NumberOK
      <4>3. (f.tos + (i - 1)) % FpuRegs =
              IF f.tos + (i - 1) < FpuRegs THEN f.tos + (i - 1) ELSE f.tos + (i - 1) - FpuRegs
        BY <1>1, <3>1, NumberOK
      <4>4. (t + i) % FpuRegs \in Reg
        BY <1>2, NumberOK
      <4>. DEFINE a == (t + i) % FpuRegs
                  b == (f.tos + (i - 1)) % FpuRegs
                  s == f.tos
      <4>5. /\ a = IF t + i < FpuRegs THEN t + i ELSE t + i - FpuRegs
            /\ b = IF s + (i - 1) < FpuRegs THEN s + (i - 1) ELSE s + (i - 1) - FpuRegs
            /\ t = IF s = 0 THEN FpuRegs - 1 ELSE s - 1
        BY <4>1, <4>2, <4>3
      <4>6. FpuRegs \in Nat /\ s \in 0 .. FpuRegs - 1 /\ i \in 1 .. FpuRegs - 1
        BY <1>1, <2>2, FpuAssumption DEF Reg
      <4>. HIDE DEF a, b, s
      <4>7. a = b /\ a # t
        BY <4>5, <4>6
      <4>. QED BY <4>4, <4>7 DEF a, b
    <3>3. g.st_space[(t + i) % FpuRegs] = f.st_space[(f.tos + (i - 1)) % FpuRegs]
      BY <1>1, <1>3, <3>2
    <3>. QED BY <1>3, <2>2, <3>3 DEF ST
  <2>. QED BY <2>1, <2>2
<1>6. \A i \in Reg : i # 0 => i - 1 \in Reg
  BY FpuAssumption DEF Reg
<1>7. [i \in Reg |-> ST(g, i)] = [i \in Reg |-> IF i = 0 THEN v ELSE FpuView(f).st[i - 1]]
  BY <1>5, <1>6 DEF FpuView
<1>8. FpuView(g) = PushView(FpuView(f), v)
  BY <1>3, <1>7 DEF FpuView, PushView, t
<1>9. Abridged(g.twd) = PushTag(f.tos, Abridged(f.twd))
  <2>1. g.twd = [f.twd EXCEPT ![t] = 0] /\ f.twd \in [Reg -> Tag]
    BY <1>1, <1>3
  <2>. DEFINE A == [r \in Reg |-> f.twd[r] # 3]
  <2>3. ASSUME NEW r \in Reg PROVE (g.twd[r] # 3) = [A EXCEPT ![t] = TRUE][r]
    <3>1. CASE r = t
      <4>1. g.twd[r] # 3
        BY <2>1, <3>1
      <4>2. [A EXCEPT ![t] = TRUE][r] = TRUE
        <5>. HIDE DEF A
        <5>1. DOMAIN A = Reg
          BY DEF A
        <5>. QED BY <1>2, <3>1, <5>1, Zenon
      <4>. QED BY <4>1, <4>2
    <3>2. CASE r # t
      BY <1>2, <2>1, <3>2
    <3>. QED BY <3>1, <3>2
  <2>2. [r \in Reg |-> g.twd[r] # 3] = [A EXCEPT ![t] = TRUE]
    <3>1. [A EXCEPT ![t] = TRUE] = [r \in Reg |-> [A EXCEPT ![t] = TRUE][r]]
      BY Zenon
    <3>. QED BY <2>3, <3>1, Zenon
  <2>. QED BY <2>2 DEF Abridged, PushTag, t
<1>. QED BY <1>4, <1>8, <1>9 DEF g

\* A pop is the same operation on the physical registers and on the view from TOP.
LEMMA PopOK ==
  ASSUME NEW f \in FpuState
  PROVE  /\ Pop(f) \in FpuState
         /\ FpuView(Pop(f)) = PopView(FpuView(f))
         /\ Abridged(Pop(f).twd) = PopTag(f.tos, Abridged(f.twd))
<1>. DEFINE t == (f.tos + 1) % FpuRegs
            g == Pop(f)
<1>1. f.tos \in Reg /\ f.st_space \in [Reg -> Values] /\ f.twd \in [Reg -> Tag]
  BY DEF FpuState
<1>2. t \in Reg /\ 3 \in Tag
  <2>1. 0 \in Reg
    BY FpuAssumption DEF Reg
  <2>2. \A a, b \in Reg : (a + 1) % FpuRegs \in Reg
    BY NumberOK
  <2>. QED BY <1>1, <2>1, <2>2 DEF Tag
<1>3. g = [st_space |-> f.st_space, tos |-> t, twd |-> [f.twd EXCEPT ![f.tos] = 3]]
  <2>1. g = [[f EXCEPT !.twd[f.tos] = 3] EXCEPT !.tos = t]
    BY DEF Pop, FpuState
  <2>. QED BY <2>1 DEF FpuState
<1>. HIDE DEF g, t
<1>4. g \in FpuState
  BY <1>1, <1>2, <1>3 DEF FpuState
<1>5. ASSUME NEW i \in Reg
      PROVE  (i + 1) % FpuRegs \in Reg /\ ST(g, i) = ST(f, (i + 1) % FpuRegs)
  <2>. DEFINE s == f.tos
              k == (i + 1) % FpuRegs
              a == (t + i) % FpuRegs
              b == (s + k) % FpuRegs
  <2>1. k \in Reg /\ k = IF i + 1 = FpuRegs THEN 0 ELSE i + 1
    BY NumberOK
  <2>2. t = IF s + 1 = FpuRegs THEN 0 ELSE s + 1
    BY <1>1, NumberOK DEF t
  <2>3. a = IF t + i < FpuRegs THEN t + i ELSE t + i - FpuRegs
    BY <1>2, NumberOK
  <2>4. b = IF s + k < FpuRegs THEN s + k ELSE s + k - FpuRegs
    <3>. HIDE DEF k
    <3>. QED BY <1>1, <2>1, NumberOK
  <2>5. FpuRegs \in Nat /\ s \in 0 .. FpuRegs - 1 /\ i \in 0 .. FpuRegs - 1
    BY <1>1, FpuAssumption DEF Reg
  <2>6. a = b
    <3>. HIDE DEF s, k, a, b
    <3>. QED BY <2>1, <2>2, <2>3, <2>4, <2>5 DEF Reg
  <2>. QED BY <1>3, <2>1, <2>6 DEF ST
<1>6. [i \in Reg |-> ST(g, i)] = [i \in Reg |-> FpuView(f).st[(i + 1) % FpuRegs]]
  BY <1>5 DEF FpuView
<1>7. FpuView(g) = PopView(FpuView(f))
  BY <1>3, <1>6 DEF FpuView, PopView, t
<1>8. Abridged(g.twd) = PopTag(f.tos, Abridged(f.twd))
  BY <1>1, <1>3 DEF Abridged, PopTag
<1>. QED BY <1>4, <1>7, <1>8 DEF g

\* What the context gets of an FPU has its type.
LEMMA ViewOK ==
  ASSUME NEW f \in FpuState
  PROVE  FpuView(f) \in View /\ GetTag(f.twd) \in TagByte /\ Abridged(f.twd) \in TagByte
<1>1. f.tos \in Reg /\ f.st_space \in [Reg -> Values] /\ f.twd \in [Reg -> Tag]
  BY DEF FpuState
<1>2. \A i \in Reg : ST(f, i) \in Values
  BY <1>1, NumberOK DEF ST
<1>. QED BY <1>1, <1>2 DEF FpuView, GetTag, Abridged, View, TagByte

\* Pushing and popping a view keep its type.
LEMMA ViewStepOK ==
  ASSUME NEW x \in View, NEW v \in Values, NEW tag \in TagByte
  PROVE  /\ PushView(x, v) \in View /\ PopView(x) \in View
         /\ PushTag(x.top, tag) \in TagByte /\ PopTag(x.top, tag) \in TagByte
<1>1. x.top \in Reg /\ x.st \in [Reg -> Values]
  BY DEF View
<1>2. (x.top - 1) % FpuRegs \in Reg /\ (x.top + 1) % FpuRegs \in Reg
  BY <1>1, NumberOK
<1>3. \A i \in Reg : (i + 1) % FpuRegs \in Reg /\ (i # 0 => i - 1 \in Reg)
  BY NumberOK, FpuAssumption DEF Reg
<1>4. PushTag(x.top, tag) \in TagByte /\ PopTag(x.top, tag) \in TagByte
  BY DEF PushTag, PopTag, TagByte
<1>5. PushView(x, v) \in View
  <2>1. [i \in Reg |-> IF i = 0 THEN v ELSE x.st[i - 1]] \in [Reg -> Values]
    BY <1>1, <1>3
  <2>. QED BY <1>1, <1>2, <2>1 DEF PushView, View
<1>6. PopView(x) \in View
  <2>1. [i \in Reg |-> x.st[(i + 1) % FpuRegs]] \in [Reg -> Values]
    BY <1>1, <1>3
  <2>. QED BY <1>1, <1>2, <2>1 DEF PopView, View
<1>. QED BY <1>4, <1>5, <1>6

\* With the top of the stack at register 0, set_context() rebuilds the stack.
LEMMA SetFpuOK ==
  ASSUME NEW f \in FpuState, NEW x \in View, NEW tag \in TagByte
  PROVE  /\ SetFpu(f, x, tag) \in FpuState
         /\ SetFpu(f, x, tag).twd = SetTag(tag)
         /\ f.tos = 0 /\ x.top = 0 => FpuView(SetFpu(f, x, tag)) = x
<1>. DEFINE g == SetFpu(f, x, tag)
<1>1. f.tos \in Reg /\ x.top \in Reg /\ x.st \in [Reg -> Values]
  BY DEF FpuState, View
<1>2. g = [st_space |-> x.st, tos |-> f.tos, twd |-> SetTag(tag)]
  BY DEF SetFpu
<1>5. SetTag(tag) \in [Reg -> Tag]
  BY DEF SetTag, Tag
<1>. HIDE DEF g
<1>3. g \in FpuState
  BY <1>1, <1>2, <1>5 DEF FpuState
<1>4. ASSUME f.tos = 0, x.top = 0 PROVE FpuView(g) = x
  <2>1. ASSUME NEW i \in Reg PROVE ST(g, i) = x.st[i]
    <3>1. (0 + i) % FpuRegs = IF 0 + i < FpuRegs THEN 0 + i ELSE 0 + i - FpuRegs
      BY <1>1, <1>4, NumberOK
    <3>2. (0 + i) % FpuRegs = i
      BY <3>1, FpuAssumption DEF Reg
    <3>. QED BY <1>2, <1>4, <3>2 DEF ST
  <2>2. [i \in Reg |-> ST(g, i)] = x.st
    BY <1>1, <2>1
  <2>3. x = [top |-> x.top, st |-> x.st]
    BY DEF View
  <2>. QED BY <1>2, <1>4, <2>2, <2>3 DEF FpuView
<1>. QED BY <1>2, <1>3, <1>4 DEF g

-----------------------------------------------------------------------------
(* The handlers.                                                           *)

\* A derived state with its fields, and a fetch mode.
Rec(mode, cpl, user_pl, align, sse, avx, fetch) ==
  [mode |-> mode, cpl |-> cpl, user_pl |-> user_pl, align |-> align, sse_ok |-> sse,
   avx_ok |-> avx, fetch |-> fetch]
Mask(avx, sse, mode, c) ==
  [avx_ok |-> avx, sse_ok |-> sse, long64 |-> mode = "long64", d_b |-> c.csd]

\* What the handlers compute for single fields.
User(cpl) == cpl = 3
CplIn(mode, cpl) == CASE mode = "v8086" -> 3 [] mode = "real" -> 0 [] OTHER -> cpl
AlignOf(c, cpl) == cpl = 3 /\ c.am /\ c.ac
SseOf(c) == ~c.ts /\ ~c.em /\ c.osfxsr
AvxOf(c, mode) == ~c.ts /\ ProtectedMode(mode) /\ c.osxsave /\ c.xcr0

\* What updateFetchModeMask() changes.
LEMMA UpdateOK ==
  ASSUME NEW m, NEW p, NEW u, NEW a, NEW s, NEW x, NEW f, NEW c
  PROVE  UpdateFetchModeMask(Rec(m, p, u, a, s, x, f), c) =
           Rec(m, p, User(p), a, s, x, Mask(x, s, m, c))
<1>. DEFINE d == Rec(m, p, u, a, s, x, f)
            F == Mask(d.avx_ok, d.sse_ok, d.mode, c)
            U == User(d.cpl)
<1>1. d.avx_ok = x /\ d.sse_ok = s /\ d.mode = m /\ d.cpl = p
  BY DEF Rec
<1>2. UpdateFetchModeMask(d, c) = [d EXCEPT !.fetch = F, !.user_pl = U]
  BY Zenon DEF UpdateFetchModeMask, Mask, User
<1>3. F = Mask(x, s, m, c) /\ U = User(p)
  <2>. HIDE DEF d
  <2>. QED BY <1>1, Zenon
<1>. HIDE DEF F, U
<1>4. [d EXCEPT !.fetch = F, !.user_pl = U] = Rec(m, p, U, a, s, x, F)
  <2>1. [d EXCEPT !.fetch = F, !.user_pl = U] = [[d EXCEPT !.fetch = F] EXCEPT !.user_pl = U]
    BY DEF Rec
  <2>2. [d EXCEPT !.fetch = F] = Rec(m, p, u, a, s, x, F)
    BY DEF Rec
  <2>3. [Rec(m, p, u, a, s, x, F) EXCEPT !.user_pl = U] = Rec(m, p, U, a, s, x, F)
    BY DEF Rec
  <2>. HIDE DEF d
  <2>. QED BY <2>1, <2>2, <2>3
<1>. HIDE DEF d
<1>. QED BY <1>2, <1>3, <1>4, Zenon DEF d

\* What handleSseModeChange() and handleAvxModeChange() change.
LEMMA SimdOK ==
  ASSUME NEW m, NEW p, NEW u, NEW a, NEW s, NEW x, NEW f, NEW c
  PROVE  /\ HandleSseModeChange(Rec(m, p, u, a, s, x, f), c) =
              Rec(m, p, User(p), a, SseOf(c), x, Mask(x, SseOf(c), m, c))
         /\ HandleAvxModeChange(Rec(m, p, u, a, s, x, f), c) =
              Rec(m, p, User(p), a, s, AvxOf(c, m), Mask(AvxOf(c, m), s, m, c))
<1>. DEFINE d == Rec(m, p, u, a, s, x, f)
            sse == SseOf(c)
            avx == AvxOf(c, m)
<1>1. d.mode = m
  BY DEF Rec
<1>2. HandleSseModeChange(d, c) = UpdateFetchModeMask([d EXCEPT !.sse_ok = sse], c)
  BY Zenon DEF HandleSseModeChange, SseOf
<1>3. HandleAvxModeChange(d, c) = UpdateFetchModeMask([d EXCEPT !.avx_ok = avx], c)
  <2>1. HandleAvxModeChange(d, c) = UpdateFetchModeMask([d EXCEPT !.avx_ok = AvxOf(c, d.mode)], c)
    BY Zenon DEF HandleAvxModeChange, AvxOf
  <2>. HIDE DEF d
  <2>. QED BY <1>1, <2>1, Zenon
<1>. HIDE DEF sse, avx
<1>4. [d EXCEPT !.sse_ok = sse] = Rec(m, p, u, a, sse, x, f)
  BY DEF Rec
<1>5. [d EXCEPT !.avx_ok = avx] = Rec(m, p, u, a, s, avx, f)
  BY DEF Rec
<1>. HIDE DEF d
<1>6. HandleSseModeChange(d, c) = Rec(m, p, User(p), a, sse, x, Mask(x, sse, m, c))
  BY <1>2, <1>4, UpdateOK
<1>7. HandleAvxModeChange(d, c) = Rec(m, p, User(p), a, s, avx, Mask(avx, s, m, c))
  BY <1>3, <1>5, UpdateOK
<1>. QED BY <1>6, <1>7 DEF d, sse, avx

\* What handleCpuModeChange() changes, the handleAvxModeChange() it ends with
\* included.
LEMMA ModeOK ==
  ASSUME NEW m, NEW p, NEW u, NEW a, NEW s, NEW x, NEW f, NEW c
  PROVE  HandleCpuModeChange(Rec(m, p, u, a, s, x, f), c) =
           Rec(CpuMode(c), CplIn(CpuMode(c), p), User(CplIn(CpuMode(c), p)), a, s,
               AvxOf(c, CpuMode(c)), Mask(AvxOf(c, CpuMode(c)), s, CpuMode(c), c))
<1>. DEFINE d == Rec(m, p, u, a, s, x, f)
            mode == CpuMode(c)
            cpl == CplIn(mode, p)
            e == Rec(mode, cpl, u, a, s, x, f)
<1>1. HandleCpuModeChange(d, c) =
        HandleAvxModeChange(
          UpdateFetchModeMask([d EXCEPT !.mode = mode, !.cpl = CplIn(mode, @)], c), c)
  BY Zenon DEF HandleCpuModeChange, CplIn
<1>. HIDE DEF mode
<1>2. [d EXCEPT !.mode = mode, !.cpl = CplIn(mode, @)] = e
  <2>1. [d EXCEPT !.mode = mode, !.cpl = CplIn(mode, @)] =
          [[d EXCEPT !.mode = mode] EXCEPT !.cpl = CplIn(mode, @)]
    BY DEF Rec
  <2>2. [d EXCEPT !.mode = mode] = Rec(mode, p, u, a, s, x, f)
    BY DEF Rec
  <2>3. [Rec(mode, p, u, a, s, x, f) EXCEPT !.cpl = CplIn(mode, @)] = Rec(mode, cpl, u, a, s, x, f)
    BY DEF Rec
  <2>. HIDE DEF d
  <2>. QED BY <2>1, <2>2, <2>3
<1>. HIDE DEF cpl
<1>3. UpdateFetchModeMask(e, c) = Rec(mode, cpl, User(cpl), a, s, x, Mask(x, s, mode, c))
  BY UpdateOK
<1>4. HandleAvxModeChange(Rec(mode, cpl, User(cpl), a, s, x, Mask(x, s, mode, c)), c) =
        Rec(mode, cpl, User(cpl), a, s, AvxOf(c, mode), Mask(AvxOf(c, mode), s, mode, c))
  BY SimdOK
<1>. HIDE DEF d, e
<1>. QED BY <1>1, <1>2, <1>3, <1>4 DEF d, mode, cpl

\* What the calls at the end of set_context() and SetCR0() leave, whatever was
\* derived before: what the registers mean, but for the alignment mask.
LEMMA HandlersOK ==
  ASSUME NEW c \in Control, Legal(c), NEW d \in Derived, d.cpl = c.rpl
  PROVE  Handlers(d, c) = Loaded(c)
<1>. DEFINE mode == CpuMode(c)
            cpl == CplIn(mode, c.rpl)
            align == AlignOf(c, c.rpl)
            sse == SseOf(c)
            avx == AvxOf(c, mode)
            All(s, a) == Rec(mode, cpl, User(cpl), align, s, a, Mask(a, s, mode, c))
<1>1. d = Rec(d.mode, c.rpl, d.user_pl, d.align, d.sse_ok, d.avx_ok, d.fetch)
  BY DEF Derived, Rec
<1>2. HandleAlignmentCheck(d, c) =
        Rec(d.mode, c.rpl, d.user_pl, align, d.sse_ok, d.avx_ok, d.fetch)
  <2>1. HandleAlignmentCheck(d, c) = [d EXCEPT !.align = AlignOf(c, d.cpl)]
    BY Zenon DEF HandleAlignmentCheck, AlignOf
  <2>. HIDE DEF align
  <2>2. [d EXCEPT !.align = align] =
          Rec(d.mode, c.rpl, d.user_pl, align, d.sse_ok, d.avx_ok, d.fetch)
    BY DEF Rec, Derived
  <2>. QED BY <2>1, <2>2, Zenon DEF align
<1>3. HandleCpuModeChange(HandleAlignmentCheck(d, c), c) = All(d.sse_ok, avx)
  BY <1>2, ModeOK
<1>4. HandleSseModeChange(All(d.sse_ok, avx), c) = All(sse, avx)
  BY SimdOK
<1>5. HandleAvxModeChange(All(sse, avx), c) = All(sse, avx)
  BY SimdOK
<1>6. Handlers(d, c) = All(sse, avx)
  <2>. HIDE DEF All, sse, avx
  <2>. QED BY <1>3, <1>4, <1>5 DEF Handlers
<1>7. All(sse, avx) = Loaded(c)
  <2>1. /\ c.ts \in BOOLEAN /\ c.em \in BOOLEAN /\ c.osfxsr \in BOOLEAN /\ c.pe \in BOOLEAN
        /\ c.vm \in BOOLEAN /\ c.lma \in BOOLEAN /\ c.csl \in BOOLEAN
        /\ c.osxsave \in BOOLEAN /\ c.xcr0 \in BOOLEAN
    BY DEF Control
  <2>. DEFINE mcpl == CASE mode = "real" -> 0 [] mode = "v8086" -> 3 [] OTHER -> c.rpl
              msse == c.osfxsr /\ ~(c.ts \/ c.em)
              mavx == c.pe /\ mode # "v8086" /\ c.osxsave /\ c.xcr0 /\ ~c.ts
              mfetch == [avx_ok |-> mavx, sse_ok |-> msse, long64 |-> c.lma /\ c.csl,
                         d_b |-> c.csd]
              malign == c.am /\ c.ac /\ mcpl = 3
  <2>2. sse = msse
    BY <2>1 DEF SseOf
  <2>3. ProtectedMode(mode) <=> c.pe /\ mode # "v8086"
    BY <2>1 DEF CpuMode, ProtectedMode, Legal
  <2>. HIDE DEF mode
  <2>4. avx = mavx
    BY <2>1, <2>3 DEF AvxOf
  <2>5. (mode = "long64") = (c.lma /\ c.csl)
    BY <2>1 DEF mode, CpuMode
  <2>6. cpl = mcpl
    BY DEF CplIn
  <2>. HIDE DEF avx, sse, cpl
  <2>7. Meaning(c) = Rec(mode, mcpl, User(mcpl), malign, msse, mavx, mfetch)
    BY Zenon DEF Meaning, mode, Rec, User
  <2>8. Mask(avx, sse, mode, c) = mfetch
    <3>. HIDE DEF mavx, msse
    <3>. QED BY <2>2, <2>4, <2>5, Zenon DEF Mask
  <2>. HIDE DEF msse, mavx, mcpl, mfetch, malign, align
  <2>9. Loaded(c) = [Meaning(c) EXCEPT !.align = align]
    BY Zenon DEF Loaded, align, AlignOf
  <2>10. [Rec(mode, mcpl, User(mcpl), malign, msse, mavx, mfetch) EXCEPT !.align = align] =
           Rec(mode, mcpl, User(mcpl), align, msse, mavx, mfetch)
    BY DEF Rec
  <2>. QED BY <2>2, <2>4, <2>6, <2>7, <2>8, <2>9, <2>10
<1>. QED BY <1>6, <1>7

\* The derived states have their type.
LEMMA DerivedOK ==
  ASSUME NEW c \in Control
  PROVE  Meaning(c) \in Derived /\ Loaded(c) \in Derived
<1>1. CpuMode(c) \in {"real", "v8086", "protected", "compat", "long64"}
  BY DEF CpuMode
<1>2. c.rpl \in {0, 3} /\ c.csd \in BOOLEAN
  BY DEF Control
<1>3. Meaning(c) \in Derived
  BY <1>1, <1>2 DEF Meaning, Derived
<1>. QED BY <1>3 DEF Loaded, Derived

\* What setEFlags() leaves in the derived state, and loading CS after it.
LEMMA FlagHandlersOK ==
  ASSUME NEW b, NEW c, b.derived \in Derived, b.ctl \in Control, c.ctl \in Control
  PROVE  [FlagHandlers(b, c) EXCEPT !.cpl = SetFlags(b, c).rpl] \in Derived
<1>. DEFINE mid == [b.ctl EXCEPT !.vm = SetFlags(b, c).vm, !.ac = c.ctl.ac]
            d == b.derived
            e == HandleAlignmentCheck(d, mid)
            mode == CpuMode(mid)
<1>1. /\ SetFlags(b, c).rpl \in {0, 3} /\ mid.csd \in BOOLEAN
      /\ mode \in {"real", "v8086", "protected", "compat", "long64"}
  BY DEF SetFlags, Control, CpuMode
<1>. HIDE DEF mid, mode
<1>2. e \in Derived
  BY DEF HandleAlignmentCheck, Derived
<1>. HIDE DEF e
<1>3. e = Rec(e.mode, e.cpl, e.user_pl, e.align, e.sse_ok, e.avx_ok, e.fetch)
  BY <1>2 DEF Derived, Rec
<1>4. HandleCpuModeChange(e, mid) =
        Rec(mode, CplIn(mode, e.cpl), User(CplIn(mode, e.cpl)), e.align, e.sse_ok,
            AvxOf(mid, mode), Mask(AvxOf(mid, mode), e.sse_ok, mode, mid))
  BY <1>3, ModeOK DEF mode
<1>5. /\ CplIn(mode, e.cpl) \in {0, 3} /\ User(CplIn(mode, e.cpl)) \in BOOLEAN
      /\ AvxOf(mid, mode) \in BOOLEAN /\ e.align \in BOOLEAN /\ e.sse_ok \in BOOLEAN
  BY <1>2 DEF CplIn, User, AvxOf, Derived
<1>6. Mask(AvxOf(mid, mode), e.sse_ok, mode, mid) \in
        [avx_ok : BOOLEAN, sse_ok : BOOLEAN, long64 : BOOLEAN, d_b : BOOLEAN]
  BY <1>1, <1>5 DEF Mask
<1>7. HandleCpuModeChange(e, mid) \in Derived
  BY <1>1, <1>4, <1>5, <1>6 DEF Derived, Rec
<1>8. FlagHandlers(b, c) \in Derived
  BY <1>2, <1>7 DEF FlagHandlers, mid, e
<1>. QED BY <1>1, <1>8 DEF Derived

-----------------------------------------------------------------------------
(* The steps.                                                              *)

\* The invariant holds at the start.
LEMMA SyncInit == Init => SyncInv
<1>. SUFFICES ASSUME Init PROVE SyncInv
  OBVIOUS
<1>1. PICK c \in Controls, twd \in TagWords, rights \in Rights :
        LET f == ZeroFpu(twd)
            cs == CsCache(c, rights)
        IN /\ bochs = [ctl |-> c, derived |-> Meaning(c), cs |-> cs, fip |-> 0, fcs |-> 0,
                       tpr |-> <<0, 0>>, fpu |-> f, ext |-> 0]
           /\ truth = [ctl |-> c, cs |-> cs, ptr |-> 0, tpr |-> <<0, 0>>,
                       fpu |-> FpuView(f), tag |-> Abridged(twd), ext |-> 0]
           /\ hyp = [ctl |-> c, cs |-> cs, ptr |-> 0, cr8 |-> 0,
                     fpu |-> FpuView(f), tag |-> Abridged(twd), ext |-> 0]
  BY DEF Init
<1>2. c \in Control /\ Legal(c)
  BY ControlAssumption
<1>3. ZeroFpu(twd) \in FpuState /\ ZeroFpu(twd).twd = twd
  BY FpuAssumption, ValueAssumption, TagAssumption DEF ZeroFpu, FpuState, Reg
<1>4. FpuView(ZeroFpu(twd)) \in View /\ Abridged(twd) \in TagByte
  BY <1>3, ViewOK
<1>5. pc = "bochs" /\ lost = {} /\ steps = 0 /\ 0 \in Values /\ MaxSteps \in Nat
  BY ValueAssumption DEF Init
<1>6. CsCache(c, rights) \in Rights
  BY DEF CsCache, Rights
<1>7. CopiesOK
  BY <1>1, <1>2, <1>3, <1>4, <1>5, <1>6 DEF CopiesOK
<1>8. DerivedInv
  BY <1>1 DEF DerivedInv
<1>9. GapsInv
  BY <1>1, <1>3, <1>5 DEF GapsInv, PtrView
<1>. QED BY <1>7, <1>8, <1>9 DEF SyncInv

\* get_context() keeps the invariant.
LEMMA ToHypervisorKeeps ==
  ASSUME SyncInv, SyncToHypervisor
  PROVE  SyncInv'
<1>1. /\ pc = "bochs" /\ pc' = "vm"
      /\ hyp' = [ctl |-> bochs.ctl, cs |-> bochs.cs, ptr |-> PtrView(bochs), cr8 |-> bochs.tpr[1],
                   fpu |-> FpuView(bochs.fpu), tag |-> GetTag(bochs.fpu.twd), ext |-> hyp.ext]
      /\ lost' = lost \cup GapsToHypervisor
      /\ UNCHANGED <<bochs, truth, steps>>
  BY DEF SyncToHypervisor, GetContext
<1>2. FpuView(bochs.fpu) \in View /\ GetTag(bochs.fpu.twd) \in TagByte
  BY ViewOK DEF SyncInv, CopiesOK
<1>3. PtrView(bochs) \in Values /\ bochs.tpr[1] \in Values
  BY DEF SyncInv, CopiesOK, PtrView
<1>4. CopiesOK'
  BY <1>1, <1>2, <1>3 DEF SyncInv, CopiesOK, GapsToHypervisor
<1>5. DerivedInv'
  BY <1>1 DEF SyncInv, DerivedInv
<1>6. "tag" \notin lost' => GetTag(bochs.fpu.twd) = Abridged(bochs.fpu.twd)
  BY <1>1 DEF GapsToHypervisor, Groups
<1>7. "ext" \notin lost' => hyp.ext = bochs.ext
  BY <1>1 DEF GapsToHypervisor, Groups
<1>8. "tag" \notin lost' => "tag" \notin lost /\ ("fpu" \in lost' => "fpu" \in lost)
  BY <1>1 DEF GapsToHypervisor
<1>9. GapsInv'
  BY <1>1, <1>6, <1>7, <1>8 DEF SyncInv, GapsInv
<1>. QED BY <1>4, <1>5, <1>9 DEF SyncInv

\* set_context() keeps the invariant.
LEMMA ToBochsKeeps ==
  ASSUME SyncInv, SyncToBochs
  PROVE  SyncInv'
<1>. DEFINE ctl == SetFlags(bochs, hyp)
            p   == SetPtr(bochs, hyp)
            fpu == SetFpu(bochs.fpu, hyp.fpu, hyp.tag)
            d   == [FlagHandlers(bochs, hyp) EXCEPT !.cpl = ctl.rpl]
<1>1. /\ pc = "vm" /\ pc' = "bochs"
      /\ bochs' = [ctl |-> ctl, derived |-> Handlers(d, ctl), cs |-> CsCache(ctl, hyp.cs), fip |-> p.fip, fcs |-> p.fcs,
                     tpr |-> <<hyp.cr8, 0>>, fpu |-> fpu, ext |-> bochs.ext]
      /\ lost' = lost \cup GapsToBochs
      /\ UNCHANGED <<hyp, truth, steps>>
  BY DEF SyncToBochs, SetContext
<1>2. hyp.ctl \in Control /\ Legal(hyp.ctl) /\ hyp.ptr \in Values /\ hyp.cr8 \in Values
  BY DEF SyncInv, CopiesOK
<1>3. /\ ctl \in Control /\ ctl.lma = hyp.ctl.lma
      /\ ctl.vm = (hyp.ctl.vm /\ ~LongMode(bochs.derived.mode))
      /\ ctl.csl = hyp.ctl.csl /\ ctl.csd = hyp.ctl.csd /\ ctl.pe = hyp.ctl.pe
  BY <1>2 DEF SetFlags, Control
<1>4. Legal(ctl)
  BY <1>2, <1>3 DEF Legal
<1>5. "ctl" \notin lost' => ctl = hyp.ctl
  <2>1. SUFFICES ASSUME "ctl" \notin lost' PROVE ctl = hyp.ctl
    OBVIOUS
  <2>2. ~(LongMode(bochs.derived.mode) /\ hyp.ctl.vm)
    BY <1>1, <2>1 DEF GapsToBochs, Groups
  <2>3. hyp.ctl.vm \in BOOLEAN
    BY <1>2 DEF Control
  <2>4. (hyp.ctl.vm /\ ~LongMode(bochs.derived.mode)) = hyp.ctl.vm
    BY <2>2, <2>3
  <2>. QED BY <1>2, <2>4 DEF SetFlags, Control
<1>6. /\ fpu \in FpuState /\ fpu.twd = SetTag(hyp.tag)
      /\ bochs.fpu.tos = 0 /\ hyp.fpu.top = 0 => FpuView(fpu) = hyp.fpu
  BY SetFpuOK DEF SyncInv, CopiesOK
<1>7. p.fip \in Values /\ p.fcs \in Values
  BY <1>2, ValueAssumption DEF SyncInv, CopiesOK, SetPtr
<1>8. "ptr" \notin lost' => PtrView(bochs') = hyp.ptr
  <2>1. SUFFICES ASSUME "ptr" \notin lost' PROVE PtrView(bochs') = hyp.ptr
    OBVIOUS
  <2>2. bochs.ctl.lma = hyp.ctl.lma
    BY <1>1, <2>1 DEF GapsToBochs, Groups
  <2>. HIDE DEF ctl
  <2>3. bochs'.ctl = ctl /\ bochs'.fip = p.fip /\ bochs'.fcs = p.fcs
    BY <1>1
  <2>. QED BY <1>3, <2>2, <2>3 DEF PtrView, SetPtr
<1>9. CsCache(ctl, hyp.cs) \in Rights /\ ("cs" \notin lost' => CsCache(ctl, hyp.cs) = hyp.cs)
  <2>1. CsCache(ctl, hyp.cs) \in Rights
    BY DEF SyncInv, CopiesOK, CsCache, Rights
  <2>2. "cs" \notin lost' => hyp.ctl.pe \/ hyp.cs = "data"
    BY <1>1 DEF GapsToBochs, Groups
  <2>. HIDE DEF ctl
  <2>3. hyp.ctl.pe => CpuMode(ctl) # "real"
    BY <1>3 DEF CpuMode
  <2>. QED BY <2>1, <2>2, <2>3 DEF CsCache
<1>10. Handlers(d, ctl) = Loaded(ctl)
  <2>1. bochs.derived \in Derived
    BY DerivedOK DEF SyncInv, CopiesOK, DerivedInv
  <2>2. d \in Derived
    BY <1>2, <2>1, FlagHandlersOK DEF SyncInv, CopiesOK
  <2>. HIDE DEF ctl
  <2>3. d.cpl = ctl.rpl
    BY <2>2 DEF Derived
  <2>. HIDE DEF d
  <2>. QED BY <1>3, <1>4, <2>2, <2>3, HandlersOK
<1>. HIDE DEF ctl, p, fpu, d
<1>11. CopiesOK'
  BY <1>1, <1>3, <1>4, <1>6, <1>7, <1>9, <1>2, ValueAssumption
  DEF SyncInv, CopiesOK, GapsToBochs
<1>12. DerivedInv'
  BY <1>1, <1>10 DEF DerivedInv
<1>13. "tpr" \notin lost' => truth.tpr = <<hyp.cr8, 0>>
  BY <1>1 DEF GapsToBochs, Groups, SyncInv, CopiesOK, GapsInv
<1>14. "fpu" \notin lost' => FpuView(fpu) = hyp.fpu
  BY <1>1, <1>6 DEF GapsToBochs, Groups
<1>15. "tag" \notin lost' =>
         /\ "tag" \notin lost /\ ("fpu" \in lost' => "fpu" \in lost)
         /\ Abridged(fpu.twd) = hyp.tag
  BY <1>1, <1>6 DEF GapsToBochs, Groups
<1>16. "ext" \notin lost' => hyp.ext = bochs.ext
  BY <1>1 DEF GapsToBochs, Groups
<1>17. GapsInv'
  BY <1>1, <1>5, <1>8, <1>9, <1>13, <1>14, <1>15, <1>16 DEF SyncInv, GapsInv
<1>. QED BY <1>11, <1>12, <1>17 DEF SyncInv

\* Bochs' own steps keep the invariant.
LEMMA BochsStepKeeps ==
  ASSUME SyncInv, BochsControl \/ BochsFpu \/ BochsTpr \/ BochsExt
  PROVE  SyncInv'
<1>1. pc = "bochs" /\ steps' \in 0 .. MaxSteps /\ UNCHANGED <<pc, lost, hyp>>
  <2>1. Step /\ pc = "bochs" /\ UNCHANGED hyp
    BY Zenon DEF BochsControl, BochsFpu, BochsTpr, BochsExt
  <2>2. steps \in 0 .. MaxSteps
    BY DEF SyncInv, CopiesOK
  <2>. QED BY <2>1, <2>2, ValueAssumption DEF Step
<1>2. CASE BochsControl
  <2>1. PICK c \in Controls, rights \in Rights :
          /\ bochs' = [bochs EXCEPT !.ctl = c, !.cs = CsCache(c, rights),
                                    !.derived = Handlers([@ EXCEPT !.cpl = c.rpl], c)]
          /\ truth' = [truth EXCEPT !.ctl = c, !.cs = CsCache(c, rights), !.ptr = PtrView(bochs')]
    BY <1>2 DEF BochsControl
  <2>2. c \in Control /\ Legal(c)
    BY ControlAssumption
  <2>. DEFINE d == [bochs.derived EXCEPT !.cpl = c.rpl]
              cs == CsCache(c, rights)
  <2>3. d \in Derived /\ d.cpl = c.rpl
    <3>1. bochs.derived \in Derived
      BY DerivedOK DEF SyncInv, CopiesOK, DerivedInv
    <3>. QED BY <2>2, <3>1 DEF Derived, Control
  <2>4. Handlers(d, c) = Loaded(c)
    <3>. HIDE DEF d
    <3>. QED BY <2>2, <2>3, HandlersOK
  <2>5. cs \in Rights
    BY DEF CsCache, Rights
  <2>. HIDE DEF cs
  <2>6. /\ bochs' = [ctl |-> c, derived |-> Loaded(c), cs |-> cs, fip |-> bochs.fip, fcs |-> bochs.fcs,
                     tpr |-> bochs.tpr, fpu |-> bochs.fpu, ext |-> bochs.ext]
        /\ truth' = [ctl |-> c, cs |-> cs, ptr |-> PtrView(bochs'), tpr |-> truth.tpr,
                     fpu |-> truth.fpu, tag |-> truth.tag, ext |-> truth.ext]
    BY <2>1, <2>4 DEF SyncInv, CopiesOK, cs
  <2>7. CopiesOK'
    BY <1>1, <2>2, <2>5, <2>6 DEF SyncInv, CopiesOK
  <2>8. DerivedInv'
    BY <2>6 DEF DerivedInv
  <2>9. GapsInv'
    BY <1>1, <2>6 DEF SyncInv, GapsInv
  <2>. QED BY <2>7, <2>8, <2>9 DEF SyncInv
<1>3. CASE BochsFpu
  <2>1. PICK v \in Values, pop \in BOOLEAN :
          /\ bochs' = [bochs EXCEPT !.fpu = IF pop THEN Pop(@) ELSE Push(@, v),
                                    !.fip = IF bochs.ctl.lma THEN v ELSE 0,
                                    !.fcs = v]
          /\ truth' = AfterFpu(truth, v, pop)
    BY <1>3 DEF BochsFpu
  <2>. DEFINE f == IF pop THEN Pop(bochs.fpu) ELSE Push(bochs.fpu, v)
              x == IF pop THEN PopView(truth.fpu) ELSE PushView(truth.fpu, v)
              tag == IF pop THEN PopTag(truth.fpu.top, truth.tag)
                     ELSE PushTag(truth.fpu.top, truth.tag)
              fip == IF bochs.ctl.lma THEN v ELSE 0
  <2>2. /\ bochs' = [ctl |-> bochs.ctl, derived |-> bochs.derived, cs |-> bochs.cs, fip |-> fip, fcs |-> v,
                     tpr |-> bochs.tpr, fpu |-> f, ext |-> bochs.ext]
        /\ truth' = [ctl |-> truth.ctl, cs |-> truth.cs, ptr |-> v, tpr |-> truth.tpr,
                     fpu |-> x, tag |-> tag, ext |-> truth.ext]
    BY <2>1 DEF SyncInv, CopiesOK, AfterFpu
  <2>3. fip \in Values
    BY ValueAssumption
  <2>4. bochs.fpu \in FpuState
    BY DEF SyncInv, CopiesOK
  <2>5. f \in FpuState /\ (truth.fpu = FpuView(bochs.fpu) => FpuView(f) = x)
    BY <2>4, PopOK, PushOK
  <2>6. truth.fpu = FpuView(bochs.fpu) /\ truth.tag = Abridged(bochs.fpu.twd)
          => Abridged(f.twd) = tag
    <3>1. FpuView(bochs.fpu).top = bochs.fpu.tos
      BY DEF FpuView
    <3>. QED BY <2>4, <3>1, PopOK, PushOK
  <2>7. PtrView(bochs') = v
    BY <2>2 DEF PtrView
  <2>. HIDE DEF f, x, fip, tag
  <2>8. CopiesOK'
    BY <1>1, <2>2, <2>3, <2>5 DEF SyncInv, CopiesOK
  <2>9. DerivedInv'
    BY <2>2 DEF SyncInv, DerivedInv
  <2>10. GapsInv'
    BY <1>1, <2>2, <2>5, <2>6, <2>7 DEF SyncInv, GapsInv
  <2>. QED BY <2>8, <2>9, <2>10 DEF SyncInv
<1>4. CASE BochsTpr
  <2>1. PICK p \in Values \X Values :
          bochs' = [bochs EXCEPT !.tpr = p] /\ truth' = [truth EXCEPT !.tpr = p]
    BY <1>4 DEF BochsTpr
  <2>2. /\ bochs' = [ctl |-> bochs.ctl, derived |-> bochs.derived, cs |-> bochs.cs, fip |-> bochs.fip, fcs |-> bochs.fcs,
                     tpr |-> p, fpu |-> bochs.fpu, ext |-> bochs.ext]
        /\ truth' = [ctl |-> truth.ctl, cs |-> truth.cs, ptr |-> truth.ptr, tpr |-> p,
                     fpu |-> truth.fpu, tag |-> truth.tag, ext |-> truth.ext]
    BY <2>1 DEF SyncInv, CopiesOK
  <2>3. CopiesOK'
    BY <1>1, <2>2 DEF SyncInv, CopiesOK
  <2>4. DerivedInv'
    BY <2>2 DEF SyncInv, DerivedInv
  <2>5. GapsInv'
    BY <1>1, <2>2 DEF SyncInv, GapsInv, PtrView
  <2>. QED BY <2>3, <2>4, <2>5 DEF SyncInv
<1>5. CASE BochsExt
  <2>1. PICK v \in Values : bochs' = [bochs EXCEPT !.ext = v] /\ truth' = [truth EXCEPT !.ext = v]
    BY <1>5 DEF BochsExt
  <2>2. /\ bochs' = [ctl |-> bochs.ctl, derived |-> bochs.derived, cs |-> bochs.cs, fip |-> bochs.fip, fcs |-> bochs.fcs,
                     tpr |-> bochs.tpr, fpu |-> bochs.fpu, ext |-> v]
        /\ truth' = [ctl |-> truth.ctl, cs |-> truth.cs, ptr |-> truth.ptr, tpr |-> truth.tpr,
                     fpu |-> truth.fpu, tag |-> truth.tag, ext |-> v]
    BY <2>1 DEF SyncInv, CopiesOK
  <2>3. CopiesOK'
    BY <1>1, <2>2 DEF SyncInv, CopiesOK
  <2>4. DerivedInv'
    BY <2>2 DEF SyncInv, DerivedInv
  <2>5. GapsInv'
    BY <1>1, <2>2 DEF SyncInv, GapsInv, PtrView
  <2>. QED BY <2>3, <2>4, <2>5 DEF SyncInv
<1>. QED BY <1>2, <1>3, <1>4, <1>5

\* Steps of the guest under WHVP keep the invariant.
LEMMA VmStepKeeps ==
  ASSUME SyncInv, VmControl \/ VmFpu \/ VmCr8 \/ VmExt
  PROVE  SyncInv'
<1>1. pc = "vm" /\ steps' \in 0 .. MaxSteps /\ UNCHANGED <<pc, lost, bochs>>
  <2>1. Step /\ pc = "vm" /\ UNCHANGED bochs
    BY Zenon DEF VmControl, VmFpu, VmCr8, VmExt
  <2>2. steps \in 0 .. MaxSteps
    BY DEF SyncInv, CopiesOK
  <2>. QED BY <2>1, <2>2, ValueAssumption DEF Step
<1>0. DerivedInv'
  BY <1>1 DEF SyncInv, DerivedInv
<1>2. CASE VmControl
  <2>1. PICK c \in Controls, rights \in Rights :
          LET After(x) == [x EXCEPT !.ctl = c, !.cs = rights]
          IN hyp' = After(hyp) /\ truth' = After(truth)
    BY <1>2 DEF VmControl
  <2>2. c \in Control /\ Legal(c)
    BY ControlAssumption
  <2>3. /\ hyp' = [ctl |-> c, cs |-> rights, ptr |-> hyp.ptr, cr8 |-> hyp.cr8,
                   fpu |-> hyp.fpu, tag |-> hyp.tag, ext |-> hyp.ext]
        /\ truth' = [ctl |-> c, cs |-> rights, ptr |-> truth.ptr, tpr |-> truth.tpr,
                     fpu |-> truth.fpu, tag |-> truth.tag, ext |-> truth.ext]
    BY <2>1 DEF SyncInv, CopiesOK
  <2>4. CopiesOK'
    BY <1>1, <2>2, <2>3 DEF SyncInv, CopiesOK
  <2>5. GapsInv'
    BY <1>1, <2>3 DEF SyncInv, GapsInv
  <2>. QED BY <1>0, <2>4, <2>5 DEF SyncInv
<1>3. CASE VmFpu
  <2>1. PICK v \in Values, pop \in BOOLEAN :
          hyp' = AfterFpu(hyp, v, pop) /\ truth' = AfterFpu(truth, v, pop)
    BY <1>3 DEF VmFpu
  <2>. DEFINE Moved(y) == IF pop THEN PopView(y) ELSE PushView(y, v)
              Tagged(y, z) == IF pop THEN PopTag(y.top, z) ELSE PushTag(y.top, z)
  <2>2. /\ hyp' = [ctl |-> hyp.ctl, cs |-> hyp.cs, ptr |-> v, cr8 |-> hyp.cr8,
                   fpu |-> Moved(hyp.fpu), tag |-> Tagged(hyp.fpu, hyp.tag), ext |-> hyp.ext]
        /\ truth' = [ctl |-> truth.ctl, cs |-> truth.cs, ptr |-> v, tpr |-> truth.tpr,
                     fpu |-> Moved(truth.fpu), tag |-> Tagged(truth.fpu, truth.tag), ext |-> truth.ext]
    BY <2>1 DEF SyncInv, CopiesOK, AfterFpu
  <2>3. Moved(hyp.fpu) \in View /\ Tagged(hyp.fpu, hyp.tag) \in TagByte
    BY ViewStepOK DEF SyncInv, CopiesOK
  <2>. HIDE DEF Moved, Tagged
  <2>4. CopiesOK'
    BY <1>1, <2>2, <2>3 DEF SyncInv, CopiesOK
  <2>5. GapsInv'
    BY <1>1, <2>2 DEF SyncInv, GapsInv
  <2>. QED BY <1>0, <2>4, <2>5 DEF SyncInv
<1>4. CASE VmCr8
  <2>1. PICK v \in Values : hyp' = [hyp EXCEPT !.cr8 = v] /\ truth' = [truth EXCEPT !.tpr = <<v, 0>>]
    BY <1>4 DEF VmCr8
  <2>2. /\ hyp' = [ctl |-> hyp.ctl, cs |-> hyp.cs, ptr |-> hyp.ptr, cr8 |-> v,
                   fpu |-> hyp.fpu, tag |-> hyp.tag, ext |-> hyp.ext]
        /\ truth' = [ctl |-> truth.ctl, cs |-> truth.cs, ptr |-> truth.ptr, tpr |-> <<v, 0>>,
                     fpu |-> truth.fpu, tag |-> truth.tag, ext |-> truth.ext]
    BY <2>1 DEF SyncInv, CopiesOK
  <2>3. CopiesOK'
    BY <1>1, <2>2, ValueAssumption DEF SyncInv, CopiesOK
  <2>4. GapsInv'
    BY <1>1, <2>2 DEF SyncInv, GapsInv
  <2>. QED BY <1>0, <2>3, <2>4 DEF SyncInv
<1>5. CASE VmExt
  <2>1. PICK v \in Values : hyp' = [hyp EXCEPT !.ext = v] /\ truth' = [truth EXCEPT !.ext = v]
    BY <1>5 DEF VmExt
  <2>2. /\ hyp' = [ctl |-> hyp.ctl, cs |-> hyp.cs, ptr |-> hyp.ptr, cr8 |-> hyp.cr8,
                   fpu |-> hyp.fpu, tag |-> hyp.tag, ext |-> v]
        /\ truth' = [ctl |-> truth.ctl, cs |-> truth.cs, ptr |-> truth.ptr, tpr |-> truth.tpr,
                     fpu |-> truth.fpu, tag |-> truth.tag, ext |-> v]
    BY <2>1 DEF SyncInv, CopiesOK
  <2>3. CopiesOK'
    BY <1>1, <2>2 DEF SyncInv, CopiesOK
  <2>4. GapsInv'
    BY <1>1, <2>2 DEF SyncInv, GapsInv
  <2>. QED BY <1>0, <2>3, <2>4 DEF SyncInv
<1>. QED BY <1>2, <1>3, <1>4, <1>5

\* Both transfers and every instruction keep the invariant.
LEMMA SyncStep == SyncInv /\ [Next]_vars => SyncInv'
<1>1. ASSUME SyncInv, UNCHANGED vars PROVE SyncInv'
  BY <1>1 DEF vars, SyncInv, CopiesOK, DerivedInv, GapsInv
<1>. QED BY <1>1, ToHypervisorKeeps, ToBochsKeeps, BochsStepKeeps, VmStepKeeps DEF Next

\* SyncInv holds in every reachable state.
LEMMA SyncAlways == Spec => []SyncInv
  BY SyncInit, SyncStep, PTL DEF Spec

\* Types: set_context() and the x87 instructions leave BX_CPU_C a legal control
\* state and a well-formed stack.
THEOREM SyncTypeCorrect == Spec => []TypeOK
<1>1. SyncInv => TypeOK
  BY DEF SyncInv, CopiesOK, TypeOK, FpuState
<1>. QED BY <1>1, SyncAlways, PTL

\* The handlers that set_context() ends with, in the order it calls them and each
\* on what the others left, bring mode, privilege, SSE/AVX permission and fetch
\* mode up to date from every mode to every mode.
THEOREM SyncDerivedCoherent == Spec => []DerivedCoherent
<1>1. SyncInv => DerivedCoherent
  <2>. SUFFICES ASSUME SyncInv PROVE DerivedCoherent
    OBVIOUS
  <2>. DEFINE m == Meaning(bochs.ctl)
  <2>1. m \in Derived
    BY DerivedOK DEF SyncInv, CopiesOK
  <2>2. bochs.derived \in {m, [m EXCEPT !.align = (bochs.ctl.rpl = 3 /\ bochs.ctl.am /\ bochs.ctl.ac)]}
    BY DEF SyncInv, DerivedInv, Loaded
  <2>3. m.align = (bochs.ctl.am /\ bochs.ctl.ac /\ m.cpl = 3)
    BY DEF Meaning
  <2>. HIDE DEF m
  <2>4. [bochs.derived EXCEPT !.align = m.align] = m
    BY <2>1, <2>2 DEF Derived
  <2>5. bochs.ctl.rpl = m.cpl => bochs.derived.align = m.align
    BY <2>1, <2>2, <2>3 DEF Derived
  <2>. QED BY <2>4, <2>5 DEF DerivedCoherent, m
<1>. QED BY <1>1, SyncAlways, PTL

\* No transfer between Bochs and the hypervisor loses anything but by the gaps
\* that GapsToHypervisor and GapsToBochs name.
THEOREM SyncOnlyKnownGaps == Spec => []OnlyKnownGaps
<1>1. SyncInv => OnlyKnownGaps
  <2>. SUFFICES ASSUME SyncInv, NEW g \in Groups \ lost
       PROVE  /\ pc = "bochs" => truth[g] = BochsView[g]
              /\ pc = "vm" => IF g = "tpr" THEN truth.tpr[1] = hyp.cr8 ELSE truth[g] = hyp[g]
    BY DEF OnlyKnownGaps
  <2>1. CASE g = "ctl"
    BY <2>1 DEF SyncInv, GapsInv, BochsView
  <2>2. CASE g = "ptr"
    BY <2>2 DEF SyncInv, GapsInv, BochsView
  <2>3. CASE g = "tpr"
    BY <2>3 DEF SyncInv, GapsInv, BochsView
  <2>4. CASE g = "fpu"
    BY <2>4 DEF SyncInv, GapsInv, BochsView
  <2>5. CASE g = "ext"
    BY <2>5 DEF SyncInv, GapsInv, BochsView
  <2>6. CASE g = "cs"
    BY <2>6 DEF SyncInv, GapsInv, BochsView
  <2>7. CASE g = "tag"
    BY <2>7 DEF SyncInv, GapsInv, BochsView
  <2>. QED BY <2>1, <2>2, <2>3, <2>4, <2>5, <2>6, <2>7 DEF Groups
<1>. QED BY <1>1, SyncAlways, PTL
=============================================================================
