---------------------------- MODULE AtomExec_proofs ----------------------------
(***************************************************************************)
(* Proofs about AtomExec for every set of threads, every image and every   *)
(* nesting of its tables: executions and the tables in them do not         *)
(* disturb each other, work spaces belong to frames, and a table that is   *)
(* given up ends its execution, which reports it.                          *)
(***************************************************************************)
EXTENDS AtomExec, SequenceTheorems, TLAPS

(* An execution owns the mutex while it has a frame, and until it ends.    *)
Owner == \A t \in Thread :
    /\ mutex = t <=> pc[t] \in {"run", "unlock"}
    /\ pc[t] = "run" <=> Len(stack[t]) > 0
    /\ pc[t] = "run" => index[t] \in DOMAIN Program

(* Each frame's parameters begin after the whole words of every frame      *)
(* below it.                                                               *)
Bases == \A t \in Thread : \A i, j \in DOMAIN stack[t] :
    i < j => CalleeBase(stack[t][i]) <= stack[t][j].base

(* The abort flag is up in the innermost frame alone, and exactly when     *)
(* some table of the execution has been given up.                          *)
Given == \A t \in Thread :
    /\ pc[t] \in {"idle", "lock"} => ~ failed[t]
    /\ \A i \in DOMAIN stack[t] :
          stack[t][i].abort <=> failed[t] /\ i = Len(stack[t])

IInv ==
    /\ TypeOK /\ Owner /\ Bases /\ Given
    /\ Isolated /\ WorkSpacesOfFrames /\ FailureReported

-----------------------------------------------------------------------------
(* A sequence with another last element.                                   *)
LEMMA ReplaceLast ==
    ASSUME NEW S, NEW s \in Seq(S), Len(s) > 0, NEW e \in S
    PROVE  /\ Append(Front(s), e) \in Seq(S)
           /\ Len(Append(Front(s), e)) = Len(s)
           /\ DOMAIN Append(Front(s), e) = DOMAIN s
           /\ Append(Front(s), e)[Len(s)] = e
           /\ \A i \in DOMAIN s : i # Len(s) => Append(Front(s), e)[i] = s[i]
  <1>1. Len(s) \in Nat /\ DOMAIN s = 1 .. Len(s) /\ \A i \in DOMAIN s : s[i] \in S
    BY LenProperties, ElementOfSeq
  <1>2. /\ Front(s) \in Seq(S)
        /\ Len(Front(s)) = Len(s) - 1
        /\ \A i \in 1 .. Len(s) - 1 : Front(s)[i] = s[i]
    <2>1. \A i \in 1 .. Len(s) - 1 : s[i] \in S
      BY <1>1
    <2> QED
      BY <1>1, <2>1, SubSeqProperties DEF Front
  <1> DEFINE u == Append(Front(s), e)
  <1>3. /\ u \in Seq(S)
        /\ Len(u) = Len(Front(s)) + 1
        /\ \A i \in 1 .. Len(Front(s)) : u[i] = Front(s)[i]
        /\ u[Len(Front(s)) + 1] = e
    BY <1>2, AppendProperties
  <1>4. DOMAIN u = 1 .. Len(u)
    BY <1>3, LenProperties
  <1>5. \A i \in DOMAIN s : i # Len(s) => i \in 1 .. Len(s) - 1
    BY <1>1
  <1> HIDE DEF u
  <1>6. Len(u) = Len(s) /\ u[Len(s)] = e /\ DOMAIN u = DOMAIN s
    BY <1>1, <1>2, <1>3, <1>4
  <1>7. \A i \in DOMAIN s : i # Len(s) => u[i] = s[i]
    BY <1>2, <1>3, <1>5
  <1> QED
    BY <1>3, <1>6, <1>7 DEF u

(* The frames of a thread that has any.                                    *)
LEMMA FrontLast ==
    ASSUME NEW S, NEW s \in Seq(S), Len(s) > 0
    PROVE  /\ Last(s) = s[Len(s)]
           /\ Last(s) \in S
           /\ Len(s) \in Nat \ {0}
           /\ DOMAIN s = 1 .. Len(s)
           /\ \A i \in DOMAIN s : s[i] \in S
           /\ Front(s) \in Seq(S)
           /\ Len(Front(s)) = Len(s) - 1
           /\ \A i \in 1 .. Len(s) - 1 : Front(s)[i] = s[i]
  <1>1. Len(s) \in Nat /\ DOMAIN s = 1 .. Len(s) /\ \A i \in DOMAIN s : s[i] \in S
    BY LenProperties, ElementOfSeq
  <1>2. \A i \in 1 .. Len(s) - 1 : s[i] \in S
    BY <1>1
  <1> QED
    BY <1>1, <1>2, SubSeqProperties DEF Front, Last

(* What the instructions of a table are made of.                           *)
LEMMA InstructionType ==
    ASSUME NEW T \in DOMAIN Program, NEW i \in DOMAIN Program[T]
    PROVE  LET ins == Program[T][i]
           IN  /\ i \in Nat
               /\ ins.op = "Set" =>
                     ins.reg \in Register \ Flag /\ ins.val \in Value
               /\ ins.op = "SetPs" => ins.idx \in Nat /\ ins.val \in Value
               /\ ins.op = "Jump" => ins.target \in DOMAIN Program[T]
               /\ ins.op = "Switch" => ins.cases \subseteq DOMAIN Program[T]
               /\ ins.op = "Call" => ins.table \in Table
               /\ \/ i + 1 \in DOMAIN Program[T]
                  \/ ins.op \in {"Eot", "Invalid"}
                  \/ ins.op = "Jump" /\ ins.cond = "ALWAYS"
  <1> DEFINE n == Len(Program[T])
             ins == Program[T][i]
  <1>1. /\ n \in Nat \ {0}
        /\ DOMAIN Program[T] = 1 .. n
        /\ IsInstruction(ins, Program[T])
        /\ \/ Program[T][n].op \in {"Eot", "Invalid"}
           \/ Program[T][n].op = "Jump" /\ Program[T][n].cond = "ALWAYS"
    BY ProgramAssumption
  <1>2. i = n \/ i + 1 \in 1 .. n
    BY <1>1
  <1>3. /\ ins.op = "Set" => ins.reg \in Register \ Flag /\ ins.val \in Value
        /\ ins.op = "SetPs" => ins.idx \in Nat /\ ins.val \in Value
        /\ ins.op = "Jump" => ins.target \in DOMAIN Program[T]
        /\ ins.op = "Switch" => ins.cases \subseteq DOMAIN Program[T]
        /\ ins.op = "Call" => ins.table \in Table
    BY <1>1 DEF IsInstruction
  <1> QED
    BY <1>1, <1>2, <1>3

-----------------------------------------------------------------------------
(* Where the words of a frame are, and those of the tables that it calls.  *)
LEMMA BaseType ==
    ASSUME NEW f \in Frame
    PROVE  /\ f.base \in Nat
           /\ PsBytes[f.table] \in Nat
           /\ PsShift(f.table) \in Nat
           /\ 4 * PsShift(f.table) <= PsBytes[f.table]
           /\ PsBytes[f.table] < 4 * PsShift(f.table) + 4
           /\ CalleeBase(f) \in Nat
           /\ f.base <= CalleeBase(f)
  <1>1. f.base \in Nat /\ PsBytes[f.table] \in Nat
    BY TableAssumption, ProgramAssumption DEF Frame
  <1>2. \A k \in Nat : k \div 4 \in Nat /\ 4 * (k \div 4) <= k /\ k < 4 * (k \div 4) + 4
    OBVIOUS
  <1> QED
    BY <1>1, <1>2 DEF CalleeBase, PsShift

(* A frame's own words end before those of the tables that it calls.       *)
LEMMA WordInside ==
    ASSUME NEW f \in Frame, NEW w \in OwnWords(f)
    PROVE  w < CalleeBase(f)
  <1>1. w \in Nat /\ w >= f.base /\ 4 * (w - f.base) + 4 <= PsBytes[f.table]
    BY TableAssumption DEF OwnWords
  <1> QED
    BY <1>1, BaseType DEF CalleeBase

-----------------------------------------------------------------------------
(* The frames of the thread that runs, and of the others.                  *)
LEMMA Frames ==
    ASSUME TypeOK, Owner, NEW t \in Thread, pc[t] = "run"
    PROVE  /\ stack[t] \in Seq(Frame)
           /\ Len(stack[t]) \in Nat \ {0}
           /\ DOMAIN stack[t] = 1 .. Len(stack[t])
           /\ \A i \in DOMAIN stack[t] :
                 /\ stack[t][i] \in Frame
                 /\ stack[t][i].ptr \in DOMAIN Program[stack[t][i].table]
           /\ Top(t) = stack[t][Len(stack[t])]
           /\ Top(t) \in Frame
           /\ Top(t).table \in DOMAIN Program
           /\ Top(t).ptr \in DOMAIN Program[Top(t).table]
           /\ mutex = t
           /\ \A u \in Thread : u # t =>
                 pc[u] \in {"idle", "lock"} /\ Len(stack[u]) = 0
  <1>1. stack[t] \in Seq(Frame) /\ Len(stack[t]) > 0
    BY DEF TypeOK, Owner
  <1>2. /\ Top(t) = stack[t][Len(stack[t])]
        /\ Top(t) \in Frame
        /\ Len(stack[t]) \in Nat \ {0}
        /\ DOMAIN stack[t] = 1 .. Len(stack[t])
        /\ \A i \in DOMAIN stack[t] : stack[t][i] \in Frame
    BY <1>1, FrontLast DEF Top
  <1>3. /\ \A i \in DOMAIN stack[t] :
              stack[t][i].ptr \in DOMAIN Program[stack[t][i].table]
        /\ Len(stack[t]) \in DOMAIN stack[t]
    BY <1>2 DEF TypeOK
  <1>4. mutex = t
    BY DEF Owner
  <1>5. ASSUME NEW u \in Thread, u # t
        PROVE  pc[u] \in {"idle", "lock"} /\ Len(stack[u]) = 0
    <2>1. pc[u] \notin {"run", "unlock"}
      BY <1>4, <1>5 DEF Owner
    <2>2. Len(stack[u]) \in Nat
      BY LenProperties DEF TypeOK
    <2> QED
      BY <2>1, <2>2 DEF TypeOK, Owner
  <1>6. Top(t).table \in DOMAIN Program
    BY <1>2 DEF Frame
  <1> QED
    BY <1>1, <1>2, <1>3, <1>4, <1>5, <1>6

(* An instruction that only changes its own frame keeps the invariant, if  *)
(* the registers and the words it sets are those that it notes.            *)
LEMMA TopChanges ==
    ASSUME IInv, NEW t \in Thread, pc[t] = "run",
           NEW g \in Frame,
           g.table = Top(t).table, g.base = Top(t).base,
           g.ptr \in DOMAIN Program[g.table],
           ReplaceTop(t, g),
           UNCHANGED <<mutex, pc, index, ret, heap>>,
           ctx' \in [Register -> Content],
           own' \in [Thread -> [Register -> Content \cup {Inherited}]],
           \A r \in Register : own'[t][r] # Inherited => ctx'[r] = own'[t][r],
           NEW b \in BOOLEAN, failed' = [failed EXCEPT ![t] = b],
           g.abort <=> b,
           \A i \in DOMAIN stack[t] :
               i # Len(stack[t]) => ~ stack[t][i].abort,
           ps' \in [Thread -> [Word -> Value \cup {NoValue}]],
           \A w \in Word :
               \/ ps'[t][w] = ps[t][w] /\ g.mine[w] = Top(t).mine[w]
               \/ w >= Top(t).base /\ ps'[t][w] = g.mine[w]
    PROVE  IInv'
  <1> DEFINE n == Len(stack[t])
  <1>0. TypeOK /\ Owner /\ Bases /\ Isolated /\ WorkSpacesOfFrames
    BY DEF IInv
  <1>1. /\ stack[t] \in Seq(Frame)
        /\ n \in Nat \ {0}
        /\ DOMAIN stack[t] = 1 .. n
        /\ \A i \in DOMAIN stack[t] :
              /\ stack[t][i] \in Frame
              /\ stack[t][i].ptr \in DOMAIN Program[stack[t][i].table]
        /\ Top(t) = stack[t][n]
        /\ mutex = t
        /\ \A u \in Thread : u # t => pc[u] \in {"idle", "lock"} /\ Len(stack[u]) = 0
    BY <1>0, Frames
  <1>2. /\ stack' = [stack EXCEPT ![t] = stack'[t]]
        /\ stack'[t] = Append(Front(stack[t]), g)
        /\ \A u \in Thread : u # t => stack'[u] = stack[u]
    BY <1>0 DEF ReplaceTop, Below, TypeOK
  <1>3. /\ stack'[t] \in Seq(Frame)
        /\ Len(stack'[t]) = n
        /\ DOMAIN stack'[t] = 1 .. n
        /\ stack'[t][n] = g
        /\ \A i \in 1 .. n : i # n => stack'[t][i] = stack[t][i]
    <2>1. Len(stack[t]) > 0
      BY <1>1
    <2>2. /\ Append(Front(stack[t]), g) \in Seq(Frame)
          /\ Len(Append(Front(stack[t]), g)) = Len(stack[t])
          /\ DOMAIN Append(Front(stack[t]), g) = DOMAIN stack[t]
          /\ Append(Front(stack[t]), g)[Len(stack[t])] = g
          /\ \A i \in DOMAIN stack[t] : i # Len(stack[t]) =>
                Append(Front(stack[t]), g)[i] = stack[t][i]
      BY <1>1, <2>1, ReplaceLast
    <2> QED
      BY <1>1, <1>2, <2>2
  <1>4. \A i \in 1 .. n : /\ stack'[t][i].table = stack[t][i].table
                          /\ stack'[t][i].base = stack[t][i].base
    BY <1>1, <1>3
  <1>5. TypeOK'
    <2>1. stack' \in [Thread -> Seq(Frame)]
      BY <1>0, <1>2, <1>3 DEF TypeOK
    <2>2. \A u \in Thread : \A i \in DOMAIN stack'[u] :
            stack'[u][i].ptr \in DOMAIN Program[stack'[u][i].table]
      <3>1. \A i \in DOMAIN stack'[t] :
              stack'[t][i].ptr \in DOMAIN Program[stack'[t][i].table]
        BY <1>1, <1>3
      <3> QED
        BY <1>0, <1>2, <3>1 DEF TypeOK
    <2>3. failed' \in [Thread -> BOOLEAN]
      BY <1>0 DEF TypeOK
    <2> QED
      BY <1>0, <2>1, <2>2, <2>3 DEF TypeOK
  <1>6. Owner'
    BY <1>0, <1>2, <1>3 DEF Owner
  <1>7. Bases'
    <2>1. \A i, j \in DOMAIN stack'[t] :
            i < j => CalleeBase(stack'[t][i]) <= stack'[t][j].base
      BY <1>0, <1>1, <1>3, <1>4 DEF Bases, CalleeBase, PsShift
    <2> QED
      BY <1>0, <1>2, <2>1 DEF Bases, CalleeBase, PsShift
  <1>8. Given'
    <2>1. \A u \in Thread : pc'[u] \in {"idle", "lock"} => ~ failed'[u]
      BY <1>0 DEF IInv, Given, TypeOK
    <2>2. failed'[t] = b
      BY <1>0 DEF TypeOK
    <2>3. \A i \in DOMAIN stack'[t] :
            stack'[t][i].abort <=> failed'[t] /\ i = Len(stack'[t])
      BY <1>1, <1>3, <2>2
    <2>4. \A u \in Thread : u # t => failed'[u] = failed[u]
      BY <1>0 DEF TypeOK
    <2>5. Given
      BY DEF IInv
    <2>6. ASSUME NEW u \in Thread, u # t
          PROVE  \A i \in DOMAIN stack'[u] :
                    stack'[u][i].abort <=> failed'[u] /\ i = Len(stack'[u])
      BY <1>2, <2>4, <2>5, <2>6 DEF Given
    <2> QED
      BY <2>1, <2>3, <2>6 DEF Given
  <1>9. Isolated'
    <2>1. \A u \in Thread : pc'[u] = "run" => u = t
      BY <1>1
    <2>2. ASSUME NEW i \in 1 .. n, NEW w \in OwnWords(stack'[t][i])
          PROVE  ps'[t][w] = stack'[t][i].mine[w]
      <3>1. /\ w \in OwnWords(stack[t][i])
            /\ w \in Word /\ w \in Nat
        BY <1>4, TableAssumption DEF OwnWords
      <3>2. ps[t][w] = stack[t][i].mine[w]
        BY <1>0, <1>1, <3>1 DEF Isolated
      <3>3. CASE i = n
        BY <1>1, <1>3, <3>1, <3>2, <3>3
      <3>4. CASE i # n
        <4>1. CalleeBase(stack[t][i]) <= Top(t).base
          <5>1. i \in DOMAIN stack[t] /\ n \in DOMAIN stack[t] /\ i < n
            BY <1>1, <3>4
          <5> QED
            BY <1>0, <1>1, <5>1 DEF Bases
        <4>2. w < CalleeBase(stack[t][i])
          BY <3>1, <1>1, WordInside
        <4>3. ~ (w >= Top(t).base)
          <5>1. Top(t).base \in Nat /\ CalleeBase(stack[t][i]) \in Nat
            BY <1>1, BaseType
          <5> QED
            BY <4>1, <4>2, <3>1, <5>1
        <4> QED
          BY <1>3, <3>1, <3>2, <3>4, <4>3
      <3> QED
        BY <3>3, <3>4
    <2>3. \A i \in DOMAIN stack'[t] : \A w \in OwnWords(stack'[t][i]) :
            ps'[t][w] = stack'[t][i].mine[w]
      BY <1>3, <2>2
    <2> QED
      BY <1>1, <2>1, <2>3 DEF Isolated
  <1>10. WorkSpacesOfFrames'
    <2>1. {i \in DOMAIN stack'[t] : stack'[t][i].table \in HasWs}
            = {i \in DOMAIN stack[t] : stack[t][i].table \in HasWs}
      BY <1>1, <1>3, <1>4
    <2> QED
      BY <1>0, <1>2, <2>1 DEF WorkSpacesOfFrames
  <1>11. FailureReported'
    BY <1>1 DEF FailureReported
  <1> QED
    BY <1>5, <1>6, <1>7, <1>8, <1>9, <1>10, <1>11 DEF IInv

(* The frame that a call or an execution begins with.                      *)
LEMMA NewFrameType ==
    ASSUME TypeOK, NEW t \in Thread, NEW i \in DOMAIN Program, NEW base \in Nat
    PROVE  LET f == NewFrame(i, base, ps[t])
           IN  /\ f \in Frame
               /\ f.ptr \in DOMAIN Program[f.table]
               /\ f.table = i /\ f.base = base /\ ~ f.abort /\ f.mine = ps[t]
  <1>1. 1 \in DOMAIN Program[i]
    BY ProgramAssumption
  <1>2. ps[t] \in [Word -> Value \cup {NoValue}]
    BY DEF TypeOK
  <1> QED
    BY <1>1, <1>2 DEF NewFrame, Frame

(* A nested table goes, and its caller may be given up with it.            *)
LEMMA ReturnsTo ==
    ASSUME TypeOK, Owner, NEW t \in Thread, pc[t] = "run",
           NEW r \in {"0", "EINVAL"}, Return(t, r), Len(stack[t]) # 1
    PROVE  /\ stack' = [stack EXCEPT ![t] = stack'[t]]
           /\ UNCHANGED <<pc, ret>>
           /\ stack'[t] \in Seq(Frame)
           /\ Len(stack'[t]) = Len(stack[t]) - 1
           /\ DOMAIN stack'[t] = 1 .. Len(stack[t]) - 1
           /\ Len(stack[t]) - 1 \in 1 .. Len(stack[t]) - 1
           /\ \A i \in 1 .. Len(stack[t]) - 1 :
                 /\ i \in DOMAIN stack[t]
                 /\ stack'[t][i].table = stack[t][i].table
                 /\ stack'[t][i].base = stack[t][i].base
                 /\ stack'[t][i].ptr = stack[t][i].ptr
                 /\ stack'[t][i].mine = stack[t][i].mine
                 /\ stack'[t][i].abort <=>
                       \/ stack[t][i].abort
                       \/ i = Len(stack[t]) - 1 /\ r = "EINVAL"
  <1> DEFINE s == stack[t]
             n == Len(stack[t])
             F == Front(s)
             g == Resume(Last(F), r)
  <1>1. /\ s \in Seq(Frame)
        /\ n \in Nat \ {0}
        /\ DOMAIN s = 1 .. n
        /\ \A i \in DOMAIN s : s[i] \in Frame
    BY Frames
  <1>2. /\ stack' = [stack EXCEPT ![t] = Append(Front(F), g)]
        /\ UNCHANGED <<pc, ret>>
    BY DEF Return, Below
  <1>3. n \in Nat /\ n > 1 /\ n - 1 \in 1 .. n - 1
    <2>1. n \in Nat \ {0}
      BY <1>1
    <2>2. \A k \in Nat \ {0} : k # 1 => k \in Nat /\ k > 1 /\ k - 1 \in 1 .. k - 1
      OBVIOUS
    <2> QED
      BY <2>1, <2>2
  <1>4. /\ F \in Seq(Frame) /\ Len(F) = n - 1
        /\ \A i \in 1 .. n - 1 : F[i] = s[i]
    <2>1. Len(stack[t]) > 0 /\ stack[t] \in Seq(Frame)
      BY <1>1
    <2> QED
      BY <2>1, FrontLast
  <1>5. Len(F) > 0
    <2>1. Len(F) = n - 1
      BY <1>4
    <2> QED
      BY <1>3, <2>1
  <1>6. Last(F) = s[n - 1] /\ Last(F) \in Frame /\ DOMAIN F = 1 .. n - 1
    <2>1. /\ Last(F) = F[Len(F)] /\ Last(F) \in Frame
          /\ DOMAIN F = 1 .. Len(F)
      BY <1>4, <1>5, FrontLast
    <2>2. Last(F) = F[n - 1] /\ DOMAIN F = 1 .. n - 1
      BY <1>4, <2>1
    <2>3. F[n - 1] = s[n - 1]
      BY <1>3, <1>4
    <2> QED
      BY <2>1, <2>2, <2>3
  <1>7. /\ g \in Frame
        /\ g.table = s[n - 1].table /\ g.base = s[n - 1].base
        /\ g.ptr = s[n - 1].ptr /\ g.mine = s[n - 1].mine
        /\ g.abort <=> s[n - 1].abort \/ r = "EINVAL"
    BY <1>6 DEF Resume, Frame
  <1> HIDE DEF g
  <1>8. /\ Append(Front(F), g) \in Seq(Frame)
        /\ Len(Append(Front(F), g)) = n - 1
        /\ DOMAIN Append(Front(F), g) = 1 .. n - 1
        /\ Append(Front(F), g)[n - 1] = g
        /\ \A i \in 1 .. n - 1 : i # n - 1 => Append(Front(F), g)[i] = F[i]
    <2>1. /\ Append(Front(F), g) \in Seq(Frame)
          /\ Len(Append(Front(F), g)) = Len(F)
          /\ DOMAIN Append(Front(F), g) = DOMAIN F
          /\ Append(Front(F), g)[Len(F)] = g
          /\ \A i \in DOMAIN F : i # Len(F) => Append(Front(F), g)[i] = F[i]
      BY <1>4, <1>5, <1>7, ReplaceLast
    <2> QED
      BY <1>4, <1>6, <2>1
  <1>9. /\ stack'[t] = Append(Front(F), g)
        /\ stack' = [stack EXCEPT ![t] = stack'[t]]
    BY <1>2 DEF TypeOK
  <1>10. /\ stack'[t][n - 1] = g
         /\ \A i \in 1 .. n - 1 : i # n - 1 => stack'[t][i] = s[i]
    BY <1>4, <1>8, <1>9
  <1>11. ASSUME NEW i \in 1 .. n - 1
         PROVE  /\ i \in DOMAIN s
                /\ stack'[t][i].table = s[i].table
                /\ stack'[t][i].base = s[i].base
                /\ stack'[t][i].ptr = s[i].ptr
                /\ stack'[t][i].mine = s[i].mine
                /\ stack'[t][i].abort <=>
                      s[i].abort \/ (i = n - 1 /\ r = "EINVAL")
    <2>1. i \in DOMAIN s
      BY <1>1
    <2>2. CASE i = n - 1
      BY <1>7, <1>10, <2>1, <2>2
    <2>3. CASE i # n - 1
      BY <1>10, <2>1, <2>3
    <2> QED
      BY <2>2, <2>3
  <1> QED
    BY <1>2, <1>3, <1>8, <1>9, <1>11

(* The end of a table, with frames below it or with none.                  *)
LEMMA ReturnKeeps ==
    ASSUME IInv, NEW t \in Thread, pc[t] = "run",
           NEW r \in {"0", "EINVAL"}, r = "EINVAL" <=> Top(t).abort,
           Return(t, r)
    PROVE  IInv'
  <1> DEFINE n == Len(stack[t])
             s == stack[t]
  <1>0. /\ TypeOK /\ Owner /\ Bases /\ Given
        /\ Isolated /\ WorkSpacesOfFrames /\ FailureReported
    BY DEF IInv
  <1>1. /\ s \in Seq(Frame)
        /\ n \in Nat \ {0}
        /\ DOMAIN s = 1 .. n
        /\ \A i \in DOMAIN s :
              s[i] \in Frame /\ s[i].ptr \in DOMAIN Program[s[i].table]
        /\ Top(t) = s[n]
        /\ mutex = t
        /\ \A u \in Thread : u # t => pc[u] \in {"idle", "lock"} /\ Len(stack[u]) = 0
    BY <1>0, Frames
  <1>2. /\ UNCHANGED <<mutex, index, ctx, ps, own, failed>>
        /\ heap' = [heap EXCEPT ![t] = heap[t] \ {n}]
    BY DEF Return, FreeWs
  <1>3. heap[t] = {i \in 1 .. n : s[i].table \in HasWs}
    BY <1>0, <1>1 DEF WorkSpacesOfFrames
  <1>4. failed[t] <=> r = "EINVAL"
    BY <1>0, <1>1 DEF Given
  <1>5. \A i \in 1 .. n - 1 : ~ s[i].abort
    <2>1. \A i \in 1 .. n - 1 : i \in DOMAIN s /\ i # n
      BY <1>1
    <2> QED
      BY <1>0, <2>1 DEF Given
  <1>6. heap' \in [Thread -> SUBSET Nat]
    BY <1>0, <1>2 DEF TypeOK
  <1>7. CASE n = 1
    <2>1. /\ stack' = [stack EXCEPT ![t] = <<>>]
          /\ pc' = [pc EXCEPT ![t] = "unlock"]
          /\ ret' = [ret EXCEPT ![t] = r]
      BY <1>7 DEF Return
    <2>2. /\ stack' \in [Thread -> Seq(Frame)]
          /\ Len(stack'[t]) = 0 /\ DOMAIN stack'[t] = {}
          /\ \A u \in Thread : u # t => stack'[u] = stack[u]
          /\ pc' \in [Thread -> {"idle", "lock", "run", "unlock"}]
          /\ ret' \in [Thread -> {"none", "0", "EINVAL"}]
      BY <1>0, <2>1, EmptySeq DEF TypeOK
    <2>3. TypeOK'
      BY <1>0, <1>2, <1>6, <2>2 DEF TypeOK
    <2>4. Owner'
      BY <1>0, <1>1, <1>2, <2>1, <2>2 DEF Owner, TypeOK
    <2>5. Bases'
      BY <1>0, <2>2 DEF Bases, CalleeBase, PsShift
    <2>6. Given'
      BY <1>0, <1>2, <2>1, <2>2 DEF Given, TypeOK
    <2>7. Isolated'
      <3>1. \A u \in Thread : pc'[u] # "run"
        BY <1>0, <1>1, <2>1 DEF TypeOK
      <3> QED
        BY <3>1 DEF Isolated
    <2>8. WorkSpacesOfFrames'
      <3>1. heap'[t] = {}
        BY <1>0, <1>2, <1>3, <1>7 DEF TypeOK
      <3> QED
        BY <1>0, <1>2, <2>2, <3>1 DEF WorkSpacesOfFrames, TypeOK
    <2>9. FailureReported'
      <3>1. index[t] \in DOMAIN Program
        BY <1>0 DEF Owner
      <3> QED
        BY <1>0, <1>2, <1>4, <2>1, <3>1 DEF FailureReported, TypeOK
    <2> QED
      BY <2>3, <2>4, <2>5, <2>6, <2>7, <2>8, <2>9 DEF IInv
  <1>8. CASE n # 1
    <2>1. /\ stack' = [stack EXCEPT ![t] = stack'[t]]
          /\ UNCHANGED <<pc, ret>>
          /\ stack'[t] \in Seq(Frame)
          /\ Len(stack'[t]) = n - 1
          /\ DOMAIN stack'[t] = 1 .. n - 1
          /\ n - 1 \in 1 .. n - 1
          /\ \A u \in Thread : u # t => stack'[u] = stack[u]
      BY <1>0, <1>8, ReturnsTo DEF TypeOK
    <2>2. \A i \in 1 .. n - 1 :
             /\ i \in DOMAIN s
             /\ stack'[t][i].table = s[i].table
             /\ stack'[t][i].base = s[i].base
             /\ stack'[t][i].ptr = s[i].ptr
             /\ stack'[t][i].mine = s[i].mine
             /\ stack'[t][i].abort <=> i = n - 1 /\ r = "EINVAL"
      BY <1>0, <1>5, <1>8, ReturnsTo
    <2>3. TypeOK'
      <3>1. stack' \in [Thread -> Seq(Frame)]
        BY <1>0, <2>1 DEF TypeOK
      <3>2. \A i \in DOMAIN stack'[t] :
              stack'[t][i].ptr \in DOMAIN Program[stack'[t][i].table]
        BY <1>1, <2>1, <2>2
      <3>3. ASSUME NEW u \in Thread, u # t, NEW i \in DOMAIN stack'[u]
            PROVE  stack'[u][i].ptr \in DOMAIN Program[stack'[u][i].table]
        BY <1>0, <2>1, <3>3 DEF TypeOK
      <3>4. \A u \in Thread : \A i \in DOMAIN stack'[u] :
              stack'[u][i].ptr \in DOMAIN Program[stack'[u][i].table]
        BY <3>2, <3>3
      <3> QED
        BY <1>0, <1>2, <1>6, <2>1, <3>1, <3>4 DEF TypeOK
    <2>4. Owner'
      BY <1>0, <1>1, <1>2, <1>8, <2>1 DEF Owner
    <2>5. Bases'
      <3>1. \A i, j \in DOMAIN stack'[t] :
              i < j => CalleeBase(stack'[t][i]) <= stack'[t][j].base
        BY <1>0, <2>1, <2>2 DEF Bases, CalleeBase, PsShift
      <3> QED
        BY <1>0, <2>1, <3>1 DEF Bases, CalleeBase, PsShift
    <2>6. Given'
      <3>1. \A i \in DOMAIN stack'[t] :
              stack'[t][i].abort <=> failed'[t] /\ i = Len(stack'[t])
        BY <1>1, <1>2, <1>4, <1>5, <2>1, <2>2
      <3>2. \A u \in Thread : pc'[u] \in {"idle", "lock"} => ~ failed'[u]
        BY <1>0, <1>2, <2>1 DEF Given
      <3>3. ASSUME NEW u \in Thread, u # t
            PROVE  \A i \in DOMAIN stack'[u] :
                      stack'[u][i].abort <=> failed'[u] /\ i = Len(stack'[u])
        BY <1>0, <1>2, <2>1, <3>3 DEF Given
      <3> QED
        BY <3>1, <3>2, <3>3 DEF Given
    <2>7. Isolated'
      <3>1. \A u \in Thread : pc'[u] = "run" => u = t
        BY <1>1, <2>1
      <3>2. \A i \in DOMAIN stack'[t] : \A w \in OwnWords(stack'[t][i]) :
              ps'[t][w] = stack'[t][i].mine[w]
        <4>1. ASSUME NEW i \in 1 .. n - 1, NEW w \in OwnWords(stack'[t][i])
              PROVE  ps'[t][w] = stack'[t][i].mine[w]
          <5>1. /\ i \in DOMAIN s
                /\ w \in OwnWords(s[i])
                /\ stack'[t][i].mine = s[i].mine
            BY <2>2 DEF OwnWords
          <5>2. ps[t][w] = s[i].mine[w]
            BY <1>0, <5>1 DEF Isolated
          <5> QED
            BY <1>2, <5>1, <5>2
        <4> QED
          BY <2>1, <4>1
      <3>3. \A v \in Register : own'[t][v] # Inherited => ctx'[v] = own'[t][v]
        BY <1>0, <1>2 DEF Isolated
      <3>4. mutex' = t
        BY <1>1, <1>2
      <3> QED
        BY <3>1, <3>2, <3>3, <3>4 DEF Isolated
    <2>8. WorkSpacesOfFrames'
      <3>1. heap'[t] = {i \in 1 .. n : s[i].table \in HasWs} \ {n}
        BY <1>0, <1>2, <1>3 DEF TypeOK
      <3>2. heap'[t] = {i \in DOMAIN stack'[t] : stack'[t][i].table \in HasWs}
        <4>1. \A i : i \in (1 .. n) \ {n} <=> i \in DOMAIN stack'[t]
          BY <1>1, <2>1
        <4> QED
          BY <2>1, <2>2, <3>1, <4>1
      <3> QED
        BY <1>0, <1>2, <2>1, <3>2 DEF WorkSpacesOfFrames, TypeOK
    <2>9. FailureReported'
      BY <1>0, <1>2, <2>1 DEF FailureReported
    <2> QED
      BY <2>3, <2>4, <2>5, <2>6, <2>7, <2>8, <2>9 DEF IInv
  <1> QED
    BY <1>7, <1>8

(* Before an abort nothing has been given up.                              *)
LEMMA NotGivenUp ==
    ASSUME TypeOK, Owner, Given, NEW t \in Thread, pc[t] = "run"
    PROVE  /\ Top(t).abort <=> failed[t]
           /\ failed[t] \in BOOLEAN
           /\ \A i \in DOMAIN stack[t] : i # Len(stack[t]) => ~ stack[t][i].abort
  <1>1. /\ Top(t) = stack[t][Len(stack[t])]
        /\ DOMAIN stack[t] = 1 .. Len(stack[t])
        /\ Len(stack[t]) \in Nat \ {0}
    BY Frames
  <1>2. Len(stack[t]) \in DOMAIN stack[t]
    BY <1>1
  <1> QED
    BY <1>1, <1>2 DEF Given, TypeOK

(* An instruction that goes to another place of its table and leaves the   *)
(* parameters alone.                                                       *)
LEMMA GoesTo ==
    ASSUME IInv, NEW t \in Thread, pc[t] = "run", Runs(t),
           NEW p \in DOMAIN Program[Top(t).table],
           ReplaceTop(t, [Top(t) EXCEPT !.ptr = p]),
           UNCHANGED <<mutex, pc, index, ret, heap, ps, failed>>,
           ctx' \in [Register -> Content],
           own' \in [Thread -> [Register -> Content \cup {Inherited}]],
           \A r \in Register : own'[t][r] # Inherited => ctx'[r] = own'[t][r]
    PROVE  IInv'
  <1> DEFINE g == [Top(t) EXCEPT !.ptr = p]
  <1>1. TypeOK /\ Owner /\ Given
    BY DEF IInv
  <1>2. Top(t) \in Frame /\ Top(t).table \in DOMAIN Program
    BY <1>1, Frames
  <1>3. p \in Nat
    BY <1>2, InstructionType
  <1>4. /\ g \in Frame /\ g.table = Top(t).table /\ g.base = Top(t).base
        /\ g.ptr = p /\ g.abort = Top(t).abort /\ g.mine = Top(t).mine
    BY <1>2, <1>3 DEF Frame
  <1>5. /\ failed' = [failed EXCEPT ![t] = FALSE]
        /\ ~ g.abort
        /\ \A i \in DOMAIN stack[t] : i # Len(stack[t]) => ~ stack[t][i].abort
    BY <1>1, <1>4, NotGivenUp DEF Runs, TypeOK
  <1>6. ps' \in [Thread -> [Word -> Value \cup {NoValue}]]
    BY <1>1 DEF TypeOK
  <1>7. \A w \in Word : ps'[t][w] = ps[t][w] /\ g.mine[w] = Top(t).mine[w]
    BY <1>4
  <1>8. ReplaceTop(t, g)
    OBVIOUS
  <1> HIDE DEF g
  <1> QED
    BY <1>4, <1>5, <1>6, <1>7, <1>8, TopChanges

(* The registers where an instruction sets none.                           *)
LEMMA RegistersKept ==
    ASSUME TypeOK, Isolated, NEW t \in Thread, pc[t] = "run",
           UNCHANGED <<ctx, own>>
    PROVE  /\ ctx' \in [Register -> Content]
           /\ own' \in [Thread -> [Register -> Content \cup {Inherited}]]
           /\ \A r \in Register : own'[t][r] # Inherited => ctx'[r] = own'[t][r]
  BY DEF TypeOK, Isolated

(* Where the next instruction is.                                          *)
LEMMA NextPlace ==
    ASSUME TypeOK, Owner, NEW t \in Thread, pc[t] = "run",
           Instr(t).op \notin {"Eot", "Invalid"},
           Instr(t).op = "Jump" => Instr(t).cond # "ALWAYS"
    PROVE  Top(t).ptr + 1 \in DOMAIN Program[Top(t).table]
  BY Frames, InstructionType DEF Instr

(* A register that is set is noted as set.                                 *)
LEMMA SetKeeps ==
    ASSUME IInv, NEW t \in Thread, Set(t)
    PROVE  IInv'
  <1>1. pc[t] = "run" /\ Runs(t) /\ Instr(t).op = "Set" /\ TypeOK /\ Owner /\ Isolated
    BY DEF Set, At, Instr, IInv
  <1>2. Top(t).ptr + 1 \in DOMAIN Program[Top(t).table]
    BY <1>1, NextPlace
  <1>3. Instr(t).reg \in Register /\ Instr(t).val \in Content
    BY <1>1, Frames, InstructionType DEF Instr, Content
  <1>4. /\ ctx' = [ctx EXCEPT ![Instr(t).reg] = Instr(t).val]
        /\ own' = [own EXCEPT ![t] = [own[t] EXCEPT ![Instr(t).reg] = Instr(t).val]]
    BY DEF Set
  <1>5. /\ ctx' \in [Register -> Content]
        /\ own' \in [Thread -> [Register -> Content \cup {Inherited}]]
        /\ \A r \in Register : own'[t][r] # Inherited => ctx'[r] = own'[t][r]
    BY <1>1, <1>3, <1>4 DEF TypeOK, Isolated
  <1> QED
    BY <1>1, <1>2, <1>5, GoesTo DEF Set, Continue

(* So are the flags of a comparison.                                       *)
LEMMA CompareKeeps ==
    ASSUME IInv, NEW t \in Thread, Compare(t)
    PROVE  IInv'
  <1>1. pc[t] = "run" /\ Runs(t) /\ Instr(t).op = "Compare" /\ TypeOK /\ Owner /\ Isolated
    BY DEF Compare, At, Instr, IInv
  <1>2. Top(t).ptr + 1 \in DOMAIN Program[Top(t).table]
    BY <1>1, NextPlace
  <1>3. PICK e \in BOOLEAN, a \in BOOLEAN :
          /\ ctx' = [ctx EXCEPT !["cs_equal"] = Yes(e), !["cs_above"] = Yes(a)]
          /\ own' = [own EXCEPT ![t]["cs_equal"] = Yes(e),
                                ![t]["cs_above"] = Yes(a)]
    BY DEF Compare
  <1>4. /\ Yes(e) \in Content /\ Yes(a) \in Content
        /\ "cs_equal" \in Register /\ "cs_above" \in Register
    BY DEF Yes, Content, Register, Flag
  <1>5. own[t] \in [Register -> Content \cup {Inherited}]
    BY <1>1 DEF TypeOK
  <1>6. own' = [own EXCEPT ![t] = [own[t] EXCEPT !["cs_equal"] = Yes(e),
                                                !["cs_above"] = Yes(a)]]
    BY <1>1, <1>3 DEF TypeOK
  <1>7. /\ ctx' \in [Register -> Content]
        /\ own' \in [Thread -> [Register -> Content \cup {Inherited}]]
    <2>1. ctx' \in [Register -> Content]
      BY <1>1, <1>3, <1>4 DEF TypeOK
    <2>2. [own[t] EXCEPT !["cs_equal"] = Yes(e), !["cs_above"] = Yes(a)]
             \in [Register -> Content \cup {Inherited}]
      BY <1>4, <1>5
    <2> QED
      BY <1>1, <1>6, <2>1, <2>2 DEF TypeOK
  <1>8. \A r \in Register : own'[t][r] # Inherited => ctx'[r] = own'[t][r]
    BY <1>1, <1>3, <1>4, <1>5, <1>6 DEF TypeOK, Isolated
  <1> QED
    BY <1>1, <1>2, <1>7, <1>8, GoesTo DEF Compare, Continue

(* So is the flag of a test.                                               *)
LEMMA TestKeeps ==
    ASSUME IInv, NEW t \in Thread, Test(t)
    PROVE  IInv'
  <1>1. pc[t] = "run" /\ Runs(t) /\ Instr(t).op = "Test" /\ TypeOK /\ Owner /\ Isolated
    BY DEF Test, At, Instr, IInv
  <1>2. Top(t).ptr + 1 \in DOMAIN Program[Top(t).table]
    BY <1>1, NextPlace
  <1>3. PICK e \in BOOLEAN :
          /\ ctx' = [ctx EXCEPT !["cs_equal"] = Yes(e)]
          /\ own' = [own EXCEPT ![t] = [own[t] EXCEPT !["cs_equal"] = Yes(e)]]
    BY DEF Test
  <1>4. Yes(e) \in Content /\ "cs_equal" \in Register
    BY DEF Yes, Content, Register, Flag
  <1>5. /\ ctx' \in [Register -> Content]
        /\ own' \in [Thread -> [Register -> Content \cup {Inherited}]]
        /\ \A r \in Register : own'[t][r] # Inherited => ctx'[r] = own'[t][r]
    BY <1>1, <1>3, <1>4 DEF TypeOK, Isolated
  <1> QED
    <2>1. /\ ReplaceTop(t, [Top(t) EXCEPT !.ptr = Top(t).ptr + 1])
          /\ UNCHANGED <<mutex, pc, index, ret, heap, ps, failed>>
      BY DEF Test, Continue
    <2> QED
      BY <1>1, <1>2, <1>5, <2>1, GoesTo

(* A use, a jump that is not taken and a switch only go on.                *)
LEMMA OnlyMoves ==
    ASSUME IInv, NEW t \in Thread, Use(t) \/ JumpNotTaken(t) \/ Switch(t)
    PROVE  IInv'
  <1>1. /\ pc[t] = "run" /\ Runs(t) /\ TypeOK /\ Owner /\ Isolated
        /\ UNCHANGED <<mutex, pc, index, ret, heap, ps, failed, ctx, own>>
        /\ Instr(t).op \in {"Use", "Jump", "Switch"}
        /\ Instr(t).op = "Jump" => ~ Taken(Instr(t).cond)
    BY DEF Use, JumpNotTaken, Switch, At, Instr, IInv
  <1>2. Instr(t).op = "Jump" => Instr(t).cond # "ALWAYS"
    BY <1>1 DEF Taken
  <1>3. Top(t).ptr + 1 \in DOMAIN Program[Top(t).table]
    BY <1>1, <1>2, NextPlace
  <1>4. PICK p \in DOMAIN Program[Top(t).table] :
          ReplaceTop(t, [Top(t) EXCEPT !.ptr = p])
    <2>1. CASE Continue(t)
      BY <1>3, <2>1 DEF Continue
    <2>2. CASE Instr(t).op = "Switch" /\ \E target \in Instr(t).cases :
                 ReplaceTop(t, [Top(t) EXCEPT !.ptr = target])
      <3>1. Instr(t).cases \subseteq DOMAIN Program[Top(t).table]
        BY <1>1, <2>2, Frames, InstructionType DEF Instr
      <3> QED
        BY <2>2, <3>1
    <2> QED
      BY <2>1, <2>2 DEF Use, JumpNotTaken, Switch, At, Instr
  <1> QED
    BY <1>1, <1>4, RegistersKept, GoesTo

(* A jump stays in its table, and may give it up.                          *)
LEMMA JumpKeeps ==
    ASSUME IInv, NEW t \in Thread, Jump(t)
    PROVE  IInv'
  <1> DEFINE f == Top(t)
             target == Instr(t).target
             b == TimedOut(f, target)
             g == [f EXCEPT !.ptr = target, !.last = target,
                            !.expired = @ /\ f.last = target, !.abort = b]
  <1>1. /\ pc[t] = "run" /\ Runs(t) /\ Instr(t).op = "Jump"
        /\ TypeOK /\ Owner /\ Given /\ Isolated
        /\ UNCHANGED <<mutex, pc, index, ret, ctx, ps, heap, own>>
    BY DEF Jump, At, Instr, IInv
  <1>2. f \in Frame /\ f.table \in DOMAIN Program
    BY <1>1, Frames
  <1>3. target \in DOMAIN Program[f.table]
    BY <1>1, Frames, InstructionType DEF Instr
  <1>4. target \in Nat
    BY <1>2, <1>3, InstructionType
  <1>5. b \in BOOLEAN
    BY <1>2 DEF TimedOut, Frame
  <1>6. /\ ReplaceTop(t, g)
        /\ failed' = [failed EXCEPT ![t] = failed[t] \/ b]
    BY DEF Jump, JumpTo
  <1>7. /\ ~ failed[t]
        /\ \A i \in DOMAIN stack[t] : i # Len(stack[t]) => ~ stack[t][i].abort
    BY <1>1, NotGivenUp DEF Runs
  <1>8. failed' = [failed EXCEPT ![t] = b]
    BY <1>5, <1>6, <1>7
  <1> HIDE DEF b
  <1>9. /\ g \in Frame /\ g.table = f.table /\ g.base = f.base
        /\ g.ptr = target /\ g.mine = f.mine /\ (g.abort <=> b)
    BY <1>2, <1>4, <1>5 DEF Frame
  <1>10. ps' \in [Thread -> [Word -> Value \cup {NoValue}]]
    BY <1>1 DEF TypeOK
  <1>11. \A w \in Word : ps'[t][w] = ps[t][w] /\ g.mine[w] = f.mine[w]
    BY <1>1, <1>9
  <1> HIDE DEF g, target
  <1> QED
    BY <1>1, <1>3, <1>5, <1>6, <1>7, <1>8, <1>9, <1>10, <1>11,
       RegistersKept, TopChanges

(* A parameter that is set is among the frame's own words, or behind them. *)
LEMMA SetPsKeeps ==
    ASSUME IInv, NEW t \in Thread, SetPs(t)
    PROVE  IInv'
  <1> DEFINE f == Top(t)
             w == f.base + Instr(t).idx
             g == [f EXCEPT !.ptr = @ + 1]
             h == [g EXCEPT !.mine[w] = Instr(t).val]
  <1>1. /\ pc[t] = "run" /\ Runs(t) /\ Instr(t).op = "SetPs"
        /\ TypeOK /\ Owner /\ Given /\ Isolated
        /\ UNCHANGED <<mutex, pc, index, ret, ctx, heap, own, failed>>
    BY DEF SetPs, At, Instr, IInv
  <1>2. f \in Frame /\ f.table \in DOMAIN Program
    BY <1>1, Frames
  <1>3. f.ptr + 1 \in DOMAIN Program[f.table]
    BY <1>1, NextPlace
  <1>4. /\ Instr(t).idx \in Nat /\ Instr(t).val \in Value
    BY <1>1, Frames, InstructionType DEF Instr
  <1>5. CASE w \notin Word
    <2>1. ReplaceTop(t, [Top(t) EXCEPT !.ptr = f.ptr + 1]) /\ UNCHANGED ps
      BY <1>5 DEF SetPs
    <2> QED
      BY <1>1, <1>3, <2>1, RegistersKept, GoesTo
  <1>6. CASE w \in Word
    <2>1. /\ ps' = [ps EXCEPT ![t] = [ps[t] EXCEPT ![w] = Instr(t).val]]
          /\ ReplaceTop(t, h)
      BY <1>6 DEF SetPs
    <2>2. f.ptr + 1 \in Nat
      BY <1>2 DEF Frame
    <2>3. f.mine \in [Word -> Value \cup {NoValue}]
      BY <1>2 DEF Frame
    <2>4. h = [f EXCEPT !.ptr = f.ptr + 1,
                        !.mine = [f.mine EXCEPT ![w] = Instr(t).val]]
      BY <1>2 DEF Frame
    <2>5. [f.mine EXCEPT ![w] = Instr(t).val] \in [Word -> Value \cup {NoValue}]
      BY <1>4, <2>3
    <2>6. /\ h \in Frame /\ h.table = f.table /\ h.base = f.base
          /\ h.ptr = f.ptr + 1 /\ h.abort = f.abort
          /\ h.mine = [f.mine EXCEPT ![w] = Instr(t).val]
      BY <1>2, <2>2, <2>4, <2>5 DEF Frame
    <2>7. w >= f.base
      BY <1>2, <1>4 DEF Frame
    <2>8. ps[t] \in [Word -> Value \cup {NoValue}]
      BY <1>1 DEF TypeOK
    <2>9. ps' \in [Thread -> [Word -> Value \cup {NoValue}]]
      BY <1>1, <1>4, <2>1, <2>8 DEF TypeOK
    <2>10. \A v \in Word :
             \/ ps'[t][v] = ps[t][v] /\ h.mine[v] = f.mine[v]
             \/ v >= f.base /\ ps'[t][v] = h.mine[v]
      <3>1. ps'[t] = [ps[t] EXCEPT ![w] = Instr(t).val]
        BY <1>1, <2>1 DEF TypeOK
      <3> QED
        BY <1>6, <2>3, <2>6, <2>7, <2>8, <3>1
    <2>11. /\ failed' = [failed EXCEPT ![t] = FALSE]
           /\ ~ h.abort
           /\ \A i \in DOMAIN stack[t] : i # Len(stack[t]) => ~ stack[t][i].abort
      BY <1>1, <2>6, NotGivenUp DEF Runs, TypeOK
    <2> HIDE DEF h, w
    <2>12. h.ptr \in DOMAIN Program[h.table]
      BY <1>3, <2>6
    <2>13. /\ ctx' \in [Register -> Content]
           /\ own' \in [Thread -> [Register -> Content \cup {Inherited}]]
           /\ \A r \in Register : own'[t][r] # Inherited => ctx'[r] = own'[t][r]
      BY <1>1, RegistersKept
    <2>14. UNCHANGED <<mutex, pc, index, ret, heap>>
      BY <1>1
    <2>15. pc[t] = "run"
      BY <1>1
    <2>16. h \in Frame /\ h.table = Top(t).table /\ h.base = Top(t).base
      BY <2>6
    <2>17. FALSE \in BOOLEAN /\ (h.abort <=> FALSE)
      BY <2>11
    <2>18. ReplaceTop(t, h)
      BY <2>1
    <2> QED
      BY <2>9, <2>10, <2>11, <2>12, <2>13, <2>14, <2>15, <2>16, <2>17, <2>18,
         TopChanges
  <1> QED
    BY <1>5, <1>6

(* A call puts a frame on top, whose words are after those of its caller.  *)
LEMMA CallKeeps ==
    ASSUME IInv, NEW t \in Thread, CallTable(t)
    PROVE  IInv'
  <1> DEFINE s == stack[t]
             n == Len(stack[t])
             i == Instr(t).table
             g == [Top(t) EXCEPT !.ptr = @ + 1]
             here == Append(Front(s), g)
             f == NewFrame(i, CalleeBase(Top(t)), ps[t])
  <1>0. /\ TypeOK /\ Owner /\ Bases /\ Given
        /\ Isolated /\ WorkSpacesOfFrames /\ FailureReported
    BY DEF IInv
  <1>1. /\ pc[t] = "run" /\ Runs(t) /\ Instr(t).op = "Call"
        /\ UNCHANGED <<mutex, pc, index, ret, ctx, ps, own, failed>>
    BY DEF CallTable, At, Instr
  <1>2. Top(t).ptr + 1 \in DOMAIN Program[Top(t).table]
    BY <1>0, <1>1, NextPlace
  <1>3. CASE i \notin DOMAIN Program
    <2>1. ReplaceTop(t, [Top(t) EXCEPT !.ptr = Top(t).ptr + 1]) /\ UNCHANGED heap
      BY <1>3 DEF CallTable, ReplaceTop
    <2> QED
      BY <1>0, <1>1, <1>2, <2>1, RegistersKept, GoesTo
  <1>4. CASE i \in DOMAIN Program
    <2>1. /\ s \in Seq(Frame)
          /\ n \in Nat \ {0}
          /\ DOMAIN s = 1 .. n
          /\ \A k \in DOMAIN s :
                s[k] \in Frame /\ s[k].ptr \in DOMAIN Program[s[k].table]
          /\ Top(t) = s[n]
          /\ Top(t) \in Frame
          /\ mutex = t
          /\ \A u \in Thread : u # t => pc[u] \in {"idle", "lock"} /\ Len(stack[u]) = 0
      BY <1>0, <1>1, Frames
    <2>2. /\ stack' = [stack EXCEPT ![t] = Append(here, f)]
          /\ heap' = IF i \in HasWs THEN [heap EXCEPT ![t] = @ \cup {n + 1}] ELSE heap
      BY <1>4 DEF CallTable, Allocate, Below
    <2>3. /\ g \in Frame /\ g.table = s[n].table /\ g.base = s[n].base
          /\ g.ptr = s[n].ptr + 1 /\ g.mine = s[n].mine /\ g.abort = s[n].abort
      <3>1. \A x \in Frame :
              LET y == [x EXCEPT !.ptr = @ + 1]
              IN  /\ y \in Frame /\ y.table = x.table /\ y.base = x.base
                  /\ y.ptr = x.ptr + 1 /\ y.mine = x.mine /\ y.abort = x.abort
        BY DEF Frame
      <3> QED
        BY <2>1, <3>1
    <2>4. /\ f \in Frame /\ f.ptr \in DOMAIN Program[f.table] /\ f.table = i
          /\ f.base = CalleeBase(s[n]) /\ ~ f.abort /\ f.mine = ps[t]
      <3>1. CalleeBase(Top(t)) \in Nat
        BY <2>1, BaseType
      <3> QED
        BY <1>0, <1>4, <2>1, <3>1, NewFrameType
    <2>5. /\ ~ failed[t]
          /\ \A k \in DOMAIN s : ~ s[k].abort
      BY <1>0, <1>1, <2>1, NotGivenUp DEF Runs, Given
    <2> HIDE DEF f, g
    <2>6. /\ here \in Seq(Frame) /\ Len(here) = n
          /\ DOMAIN here = 1 .. n /\ here[n] = g
          /\ \A k \in 1 .. n : k # n => here[k] = s[k]
      <3>1. Len(s) > 0
        BY <2>1
      <3>2. /\ Append(Front(s), g) \in Seq(Frame)
            /\ Len(Append(Front(s), g)) = Len(s)
            /\ DOMAIN Append(Front(s), g) = DOMAIN s
            /\ Append(Front(s), g)[Len(s)] = g
            /\ \A k \in DOMAIN s : k # Len(s) => Append(Front(s), g)[k] = s[k]
        BY <2>1, <2>3, <3>1, ReplaceLast
      <3> QED
        BY <2>1, <3>2
    <2> HIDE DEF here
    <2>7. /\ Append(here, f) \in Seq(Frame)
          /\ Len(Append(here, f)) = n + 1
          /\ \A k \in 1 .. n : Append(here, f)[k] = here[k]
          /\ Append(here, f)[n + 1] = f
          /\ DOMAIN Append(here, f) = 1 .. n + 1
      <3>1. /\ Append(here, f) \in Seq(Frame)
            /\ Len(Append(here, f)) = Len(here) + 1
            /\ \A k \in 1 .. Len(here) : Append(here, f)[k] = here[k]
            /\ Append(here, f)[Len(here) + 1] = f
        BY <2>4, <2>6, AppendProperties
      <3>2. DOMAIN Append(here, f) = 1 .. Len(Append(here, f))
        BY <3>1, LenProperties
      <3> QED
        BY <2>6, <3>1, <3>2
    <2>8. /\ stack'[t] \in Seq(Frame)
          /\ Len(stack'[t]) = n + 1
          /\ DOMAIN stack'[t] = 1 .. n + 1
          /\ stack'[t][n + 1] = f
          /\ \A u \in Thread : u # t => stack'[u] = stack[u]
      BY <1>0, <2>2, <2>7 DEF TypeOK
    <2>9. ASSUME NEW k \in 1 .. n + 1, k # n + 1
          PROVE  /\ k \in 1 .. n /\ k \in DOMAIN s
                 /\ stack'[t][k].table = s[k].table
                 /\ stack'[t][k].base = s[k].base
                 /\ stack'[t][k].mine = s[k].mine
                 /\ stack'[t][k].abort = s[k].abort
                 /\ stack'[t][k].ptr \in DOMAIN Program[s[k].table]
      <3>1. k \in 1 .. n
        BY <2>1, <2>9
      <3>2. stack'[t][k] = IF k = n THEN g ELSE s[k]
        BY <1>0, <2>2, <2>6, <2>7, <3>1 DEF TypeOK
      <3> QED
        BY <1>2, <2>1, <2>3, <3>1, <3>2
    <2>10. TypeOK'
      <3>1. stack' \in [Thread -> Seq(Frame)]
        BY <1>0, <2>2, <2>8 DEF TypeOK
      <3>2. heap' \in [Thread -> SUBSET Nat]
        <4>1. n + 1 \in Nat
          BY <2>1
        <4> QED
          BY <1>0, <2>2, <4>1 DEF TypeOK
      <3>3. \A k \in DOMAIN stack'[t] :
              stack'[t][k].ptr \in DOMAIN Program[stack'[t][k].table]
        BY <2>4, <2>8, <2>9
      <3>4. ASSUME NEW u \in Thread, u # t, NEW k \in DOMAIN stack'[u]
            PROVE  stack'[u][k].ptr \in DOMAIN Program[stack'[u][k].table]
        BY <1>0, <2>8, <3>4 DEF TypeOK
      <3>5. \A u \in Thread : \A k \in DOMAIN stack'[u] :
              stack'[u][k].ptr \in DOMAIN Program[stack'[u][k].table]
        BY <3>3, <3>4
      <3> QED
        BY <1>0, <1>1, <3>1, <3>2, <3>5 DEF TypeOK
    <2>11. Owner'
      <3>1. Len(stack'[t]) > 0
        BY <2>1, <2>8
      <3> QED
        BY <1>0, <1>1, <2>8, <3>1 DEF Owner
    <2>12. Bases'
      <3>1. ASSUME NEW k \in 1 .. n
            PROVE  CalleeBase(s[k]) <= CalleeBase(s[n])
        <4>1. CASE k = n
          BY <2>1, <4>1, BaseType
        <4>2. CASE k # n
          <5>1. CalleeBase(s[k]) <= s[n].base
            <6>1. k \in DOMAIN s /\ n \in DOMAIN s /\ k < n
              BY <2>1, <4>2
            <6> QED
              BY <1>0, <6>1 DEF Bases
          <5>2. /\ CalleeBase(s[k]) \in Nat
                /\ s[n].base \in Nat
                /\ CalleeBase(s[n]) \in Nat
                /\ s[n].base <= CalleeBase(s[n])
            <6>1. s[k] \in Frame /\ s[n] \in Frame
              BY <2>1
            <6> QED
              BY <6>1, BaseType
          <5> QED
            BY <5>1, <5>2
        <4> QED
          BY <4>1, <4>2
      <3>2. ASSUME NEW k \in 1 .. n + 1, NEW j \in 1 .. n + 1, k < j
            PROVE  CalleeBase(stack'[t][k]) <= stack'[t][j].base
        <4>1. k # n + 1
          BY <2>1, <3>2
        <4>2. CalleeBase(stack'[t][k]) = CalleeBase(s[k])
          BY <2>9, <4>1 DEF CalleeBase, PsShift
        <4>3. CASE j = n + 1
          BY <2>4, <2>8, <2>9, <3>1, <4>1, <4>2, <4>3
        <4>4. CASE j # n + 1
          BY <1>0, <2>9, <3>2, <4>1, <4>2, <4>4 DEF Bases
        <4> QED
          BY <4>3, <4>4
      <3>3. \A k, j \in DOMAIN stack'[t] :
              k < j => CalleeBase(stack'[t][k]) <= stack'[t][j].base
        BY <2>8, <3>2
      <3> QED
        BY <1>0, <2>8, <3>3 DEF Bases, CalleeBase, PsShift
    <2>13. Given'
      <3>1. \A k \in DOMAIN stack'[t] :
              stack'[t][k].abort <=> failed'[t] /\ k = Len(stack'[t])
        BY <1>1, <2>4, <2>5, <2>8, <2>9
      <3>2. \A u \in Thread : pc'[u] \in {"idle", "lock"} => ~ failed'[u]
        BY <1>0, <1>1 DEF Given
      <3>3. ASSUME NEW u \in Thread, u # t
            PROVE  \A k \in DOMAIN stack'[u] :
                      stack'[u][k].abort <=> failed'[u] /\ k = Len(stack'[u])
        BY <1>0, <1>1, <2>8, <3>3 DEF Given
      <3> QED
        BY <3>1, <3>2, <3>3 DEF Given
    <2>14. Isolated'
      <3>1. \A u \in Thread : pc'[u] = "run" => u = t
        BY <1>1, <2>1
      <3>2. ASSUME NEW k \in 1 .. n + 1, NEW w \in OwnWords(stack'[t][k])
            PROVE  ps'[t][w] = stack'[t][k].mine[w]
        <4>1. CASE k = n + 1
          BY <1>1, <2>4, <2>8, <4>1 DEF OwnWords
        <4>2. CASE k # n + 1
          <5>1. w \in OwnWords(s[k])
            BY <2>9, <4>2 DEF OwnWords
          <5> QED
            BY <1>0, <1>1, <2>9, <4>2, <5>1 DEF Isolated
        <4> QED
          BY <4>1, <4>2
      <3>3. \A k \in DOMAIN stack'[t] : \A w \in OwnWords(stack'[t][k]) :
              ps'[t][w] = stack'[t][k].mine[w]
        BY <2>8, <3>2
      <3> QED
        BY <1>0, <1>1, <2>1, <3>1, <3>3 DEF Isolated
    <2>15. WorkSpacesOfFrames'
      <3>1. heap[t] = {k \in 1 .. n : s[k].table \in HasWs}
        BY <1>0, <2>1 DEF WorkSpacesOfFrames
      <3>2. heap'[t] = heap[t] \cup {k \in {n + 1} : i \in HasWs}
        BY <1>0, <2>2 DEF TypeOK
      <3>3. \A k : k \in 1 .. n + 1 <=> k \in 1 .. n \/ k = n + 1
        BY <2>1
      <3>4. n + 1 \notin 1 .. n
        BY <2>1
      <3>5. \A k : k \in heap'[t] <=>
                      k \in 1 .. n + 1 /\ stack'[t][k].table \in HasWs
        BY <2>4, <2>8, <2>9, <3>1, <3>2, <3>3, <3>4
      <3>6. heap'[t] = {k \in DOMAIN stack'[t] : stack'[t][k].table \in HasWs}
        BY <2>8, <3>5
      <3>7. \A u \in Thread : u # t => heap'[u] = heap[u]
        BY <1>0, <2>2 DEF TypeOK
      <3> QED
        BY <1>0, <2>8, <3>6, <3>7 DEF WorkSpacesOfFrames
    <2>16. FailureReported'
      BY <1>0, <1>1 DEF FailureReported
    <2> QED
      BY <2>10, <2>11, <2>12, <2>13, <2>14, <2>15, <2>16 DEF IInv
  <1> QED
    BY <1>3, <1>4

(* A caller waits for the mutex.                                           *)
LEMMA ExecuteKeeps ==
    ASSUME IInv, NEW t \in Thread, NEW i \in Table, Execute(t, i)
    PROVE  IInv'
  <1>0. /\ TypeOK /\ Owner /\ Bases /\ Given
        /\ Isolated /\ WorkSpacesOfFrames /\ FailureReported
    BY DEF IInv
  <1>1. /\ pc[t] = "idle" /\ pc' = [pc EXCEPT ![t] = "lock"]
        /\ index' = [index EXCEPT ![t] = i]
        /\ UNCHANGED <<mutex, stack, ret, ctx, ps, heap, own, failed>>
    BY DEF Execute
  <1>2. TypeOK'
    BY <1>0, <1>1 DEF TypeOK
  <1>3. Owner'
    BY <1>0, <1>1 DEF Owner, TypeOK
  <1>4. Bases'
    BY <1>0, <1>1 DEF Bases, CalleeBase, PsShift
  <1>5. Given'
    BY <1>0, <1>1 DEF Given, TypeOK
  <1>6. Isolated'
    BY <1>0, <1>1 DEF Isolated, TypeOK, OwnWords
  <1>7. WorkSpacesOfFrames'
    BY <1>0, <1>1 DEF WorkSpacesOfFrames
  <1>8. FailureReported'
    BY <1>0, <1>1 DEF FailureReported, TypeOK
  <1> QED
    BY <1>2, <1>3, <1>4, <1>5, <1>6, <1>7, <1>8 DEF IInv

(* An execution begins on registers that are reset, with one frame.        *)
LEMMA BeginKeeps ==
    ASSUME IInv, NEW t \in Thread, Begin(t)
    PROVE  IInv'
  <1>0. /\ TypeOK /\ Owner /\ Bases /\ Given
        /\ Isolated /\ WorkSpacesOfFrames /\ FailureReported
    BY DEF IInv
  <1>1. /\ pc[t] = "lock" /\ mutex = NoThread /\ mutex' = t
        /\ ctx' = ResetRegisters
        /\ own' = [own EXCEPT ![t] = KnownAtFirst]
        /\ UNCHANGED <<index, ps, failed>>
    BY DEF Begin
  <1>2. /\ \A u \in Thread : pc[u] \in {"idle", "lock"}
        /\ \A u \in Thread : Len(stack[u]) = 0 /\ stack[u] \in Seq(Frame)
        /\ ~ failed[t]
    <2>1. \A u \in Thread : mutex # u
      BY <1>1, ThreadAssumption
    <2>2. \A u \in Thread : stack[u] \in Seq(Frame) /\ Len(stack[u]) \in Nat
      BY <1>0, LenProperties DEF TypeOK
    <2> QED
      BY <1>0, <1>1, <2>1, <2>2 DEF Owner, Given, TypeOK
  <1>3. /\ ctx' \in [Register -> Content]
        /\ own' \in [Thread -> [Register -> Content \cup {Inherited}]]
    BY <1>0, <1>1 DEF TypeOK, ResetRegisters, KnownAtFirst, Content
  <1>4. \A r \in Register : own'[t][r] # Inherited => ctx'[r] = own'[t][r]
    BY <1>0, <1>1 DEF TypeOK, ResetRegisters, KnownAtFirst
  <1>5. heap[t] = {}
    <2>1. DOMAIN stack[t] = {}
      <3>1. DOMAIN stack[t] = 1 .. 0
        BY <1>2, LenProperties
      <3> QED
        BY <3>1
    <2> QED
      BY <1>0, <2>1 DEF WorkSpacesOfFrames
  <1>6. CASE index[t] \in DOMAIN Program
    <2> DEFINE f == NewFrame(index[t], 0, ps[t])
    <2>1. /\ stack' = [stack EXCEPT ![t] = <<f>>]
          /\ heap' = IF index[t] \in HasWs
                     THEN [heap EXCEPT ![t] = @ \cup {1}] ELSE heap
          /\ pc' = [pc EXCEPT ![t] = "run"]
          /\ UNCHANGED ret
      BY <1>6 DEF Begin, Allocate
    <2>2. /\ f \in Frame /\ f.ptr \in DOMAIN Program[f.table]
          /\ f.table = index[t] /\ f.base = 0 /\ ~ f.abort /\ f.mine = ps[t]
      BY <1>0, <1>6, NewFrameType
    <2> HIDE DEF f
    <2>3. /\ stack'[t] = <<f>>
          /\ \A u \in Thread : u # t => stack'[u] = stack[u]
      BY <1>0, <2>1 DEF TypeOK
    <2>4. /\ stack'[t] \in Seq(Frame) /\ Len(stack'[t]) = 1
          /\ DOMAIN stack'[t] = {1} /\ stack'[t][1] = f
      BY <2>2, <2>3
    <2>5. TypeOK'
      <3>1. stack' \in [Thread -> Seq(Frame)]
        BY <1>0, <2>1, <2>3, <2>4 DEF TypeOK
      <3>2. heap' \in [Thread -> SUBSET Nat]
        BY <1>0, <2>1 DEF TypeOK
      <3>3. ASSUME NEW u \in Thread, NEW k \in DOMAIN stack'[u]
            PROVE  stack'[u][k].ptr \in DOMAIN Program[stack'[u][k].table]
        BY <1>0, <2>2, <2>3, <2>4, <3>3 DEF TypeOK
      <3>4. pc' \in [Thread -> {"idle", "lock", "run", "unlock"}]
        BY <1>0, <2>1 DEF TypeOK
      <3> QED
        BY <1>0, <1>1, <1>3, <2>1, <3>1, <3>2, <3>3, <3>4 DEF TypeOK
    <2>6. Owner'
      BY <1>0, <1>1, <1>2, <1>6, <2>1, <2>3, <2>4 DEF Owner, TypeOK
    <2>7. Bases'
      <3>1. \A k, j \in DOMAIN stack'[t] : ~ (k < j)
        BY <2>4
      <3> QED
        BY <1>0, <2>3, <3>1 DEF Bases, CalleeBase, PsShift
    <2>8. Given'
      <3>1. \A k \in DOMAIN stack'[t] : ~ stack'[t][k].abort
        BY <2>2, <2>4
      <3> QED
        BY <1>0, <1>1, <1>2, <2>1, <2>3, <3>1 DEF Given, TypeOK
    <2>9. Isolated'
      <3>1. \A u \in Thread : pc'[u] = "run" => u = t
        BY <1>0, <1>2, <2>1 DEF TypeOK
      <3>2. \A k \in DOMAIN stack'[t] : \A w \in OwnWords(stack'[t][k]) :
              ps'[t][w] = stack'[t][k].mine[w]
        BY <1>1, <2>2, <2>4
      <3> QED
        BY <1>1, <1>4, <3>1, <3>2 DEF Isolated
    <2>10. WorkSpacesOfFrames'
      <3>1. heap'[t] = {k \in DOMAIN stack'[t] : stack'[t][k].table \in HasWs}
        BY <1>0, <1>5, <2>1, <2>2, <2>4 DEF TypeOK
      <3>2. \A u \in Thread : u # t => heap'[u] = heap[u]
        BY <1>0, <2>1 DEF TypeOK
      <3> QED
        BY <1>0, <2>3, <3>1, <3>2 DEF WorkSpacesOfFrames
    <2>11. FailureReported'
      BY <1>0, <1>2, <2>1 DEF FailureReported, TypeOK
    <2> QED
      BY <2>5, <2>6, <2>7, <2>8, <2>9, <2>10, <2>11 DEF IInv
  <1>7. CASE index[t] \notin DOMAIN Program
    <2>1. /\ pc' = [pc EXCEPT ![t] = "unlock"]
          /\ ret' = [ret EXCEPT ![t] = "EINVAL"]
          /\ UNCHANGED <<stack, heap>>
      BY <1>7 DEF Begin
    <2>2. TypeOK'
      BY <1>0, <1>1, <1>3, <2>1 DEF TypeOK
    <2>3. Owner'
      BY <1>0, <1>1, <1>2, <2>1 DEF Owner, TypeOK
    <2>4. Bases'
      BY <1>0, <2>1 DEF Bases, CalleeBase, PsShift
    <2>5. Given'
      BY <1>0, <1>1, <2>1 DEF Given, TypeOK
    <2>6. Isolated'
      <3>1. \A u \in Thread : pc'[u] # "run"
        BY <1>0, <1>2, <2>1 DEF TypeOK
      <3> QED
        BY <3>1 DEF Isolated
    <2>7. WorkSpacesOfFrames'
      BY <1>0, <2>1 DEF WorkSpacesOfFrames
    <2>8. FailureReported'
      BY <1>0, <1>1, <1>2, <1>7, <2>1 DEF FailureReported, TypeOK
    <2> QED
      BY <2>2, <2>3, <2>4, <2>5, <2>6, <2>7, <2>8 DEF IInv
  <1> QED
    BY <1>6, <1>7

(* An execution ends, and the context is free again.                       *)
LEMMA EndKeeps ==
    ASSUME IInv, NEW t \in Thread, End(t)
    PROVE  IInv'
  <1>0. /\ TypeOK /\ Owner /\ Bases /\ Given
        /\ Isolated /\ WorkSpacesOfFrames /\ FailureReported
    BY DEF IInv
  <1>1. /\ pc[t] = "unlock"
        /\ mutex' = NoThread
        /\ pc' = [pc EXCEPT ![t] = "idle"]
        /\ ret' = [ret EXCEPT ![t] = "none"]
        /\ failed' = [failed EXCEPT ![t] = FALSE]
        /\ ps' = [ps EXCEPT ![t] = NoParameters]
        /\ own' = [own EXCEPT ![t] = ZeroedContext]
        /\ UNCHANGED <<index, stack, ctx, heap>>
    BY DEF End
  <1>2. /\ mutex = t
        /\ Len(stack[t]) \in Nat /\ ~ Len(stack[t]) > 0
        /\ \A u \in Thread : u # t => pc[u] \in {"idle", "lock"}
    BY <1>0, <1>1, LenProperties DEF Owner, TypeOK
  <1>3. DOMAIN stack[t] = {}
    <2>1. Len(stack[t]) = 0
      BY <1>2
    <2>2. DOMAIN stack[t] = 1 .. 0
      BY <1>0, <2>1, LenProperties DEF TypeOK
    <2> QED
      BY <2>2
  <1>4. TypeOK'
    <2>1. NoParameters \in [Word -> Value \cup {NoValue}]
      BY DEF NoParameters
    <2>2. ZeroedContext \in [Register -> Content \cup {Inherited}]
      BY DEF ZeroedContext, Content, Yes
    <2> QED
      BY <1>0, <1>1, <2>1, <2>2 DEF TypeOK
  <1>5. Owner'
    BY <1>0, <1>1, <1>2, ThreadAssumption DEF Owner, TypeOK
  <1>6. Bases'
    BY <1>0, <1>1 DEF Bases, CalleeBase, PsShift
  <1>7. Given'
    BY <1>0, <1>1, <1>3 DEF Given, TypeOK
  <1>8. Isolated'
    <2>1. \A u \in Thread : pc'[u] # "run"
      BY <1>0, <1>1, <1>2 DEF TypeOK
    <2> QED
      BY <2>1 DEF Isolated
  <1>9. WorkSpacesOfFrames'
    BY <1>0, <1>1 DEF WorkSpacesOfFrames
  <1>10. FailureReported'
    BY <1>0, <1>1 DEF FailureReported, TypeOK
  <1> QED
    BY <1>4, <1>5, <1>6, <1>7, <1>8, <1>9, <1>10 DEF IInv

(* Time that goes by changes one frame's clock.                            *)
LEMMA ExpireKeeps ==
    ASSUME IInv, NEW t \in Thread, Expire(t)
    PROVE  IInv'
  <1>0. /\ TypeOK /\ Owner /\ Bases /\ Given
        /\ Isolated /\ WorkSpacesOfFrames /\ FailureReported
    BY DEF IInv
  <1>1. PICK i \in DOMAIN stack[t] :
          stack' = [stack EXCEPT ![t][i].expired = TRUE]
    BY DEF Expire
  <1>2. UNCHANGED <<mutex, pc, index, ret, ctx, ps, heap, own, failed>>
    BY DEF Expire
  <1> DEFINE s == stack[t]
             g == [s[i] EXCEPT !.expired = TRUE]
  <1>3. /\ s \in Seq(Frame)
        /\ i \in 1 .. Len(s)
        /\ DOMAIN s = 1 .. Len(s)
        /\ \A k \in DOMAIN s : s[k] \in Frame
    BY <1>0, LenProperties, ElementOfSeq DEF TypeOK
  <1>4. /\ g \in Frame /\ g.table = s[i].table /\ g.base = s[i].base
        /\ g.ptr = s[i].ptr /\ g.mine = s[i].mine /\ g.abort = s[i].abort
    BY <1>3 DEF Frame
  <1>5. stack' = [stack EXCEPT ![t] = [s EXCEPT ![i] = g]]
    BY <1>1
  <1> HIDE DEF g
  <1>6. /\ [s EXCEPT ![i] = g] \in Seq(Frame)
        /\ Len([s EXCEPT ![i] = g]) = Len(s)
        /\ \A k \in 1 .. Len(s) : [s EXCEPT ![i] = g][k] = IF k = i THEN g ELSE s[k]
    BY <1>3, <1>4, ExceptSeq
  <1>7. /\ stack'[t] \in Seq(Frame)
        /\ Len(stack'[t]) = Len(s)
        /\ DOMAIN stack'[t] = DOMAIN s
        /\ \A u \in Thread : u # t => stack'[u] = stack[u]
    BY <1>0, <1>3, <1>5, <1>6 DEF TypeOK
  <1>8. \A k \in DOMAIN s :
          /\ stack'[t][k].table = s[k].table /\ stack'[t][k].base = s[k].base
          /\ stack'[t][k].ptr = s[k].ptr /\ stack'[t][k].mine = s[k].mine
          /\ stack'[t][k].abort = s[k].abort
    <2>1. \A k \in DOMAIN s : stack'[t][k] = IF k = i THEN g ELSE s[k]
      BY <1>0, <1>3, <1>5, <1>6 DEF TypeOK
    <2> QED
      BY <1>4, <2>1
  <1>9. TypeOK'
    <2>1. stack' \in [Thread -> Seq(Frame)]
      BY <1>0, <1>5, <1>6 DEF TypeOK
    <2>2. ASSUME NEW u \in Thread, NEW k \in DOMAIN stack'[u]
          PROVE  stack'[u][k].ptr \in DOMAIN Program[stack'[u][k].table]
      BY <1>0, <1>7, <1>8, <2>2 DEF TypeOK
    <2> QED
      BY <1>0, <1>2, <2>1, <2>2 DEF TypeOK
  <1>10. Owner'
    BY <1>0, <1>2, <1>7 DEF Owner
  <1>11. Bases'
    <2>1. \A k, j \in DOMAIN stack'[t] :
            k < j => CalleeBase(stack'[t][k]) <= stack'[t][j].base
      BY <1>0, <1>7, <1>8 DEF Bases, CalleeBase, PsShift
    <2> QED
      BY <1>0, <1>7, <2>1 DEF Bases, CalleeBase, PsShift
  <1>12. Given'
    BY <1>0, <1>2, <1>7, <1>8 DEF Given
  <1>13. Isolated'
    <2>1. pc[t] = "run" => \A k \in DOMAIN stack'[t] :
             \A w \in OwnWords(stack'[t][k]) : ps'[t][w] = stack'[t][k].mine[w]
      BY <1>0, <1>2, <1>7, <1>8 DEF Isolated, OwnWords
    <2> QED
      BY <1>0, <1>2, <1>7, <2>1 DEF Isolated, OwnWords
  <1>14. WorkSpacesOfFrames'
    <2>1. {k \in DOMAIN stack'[t] : stack'[t][k].table \in HasWs}
            = {k \in DOMAIN s : s[k].table \in HasWs}
      BY <1>7, <1>8
    <2> QED
      BY <1>0, <1>2, <1>7, <2>1 DEF WorkSpacesOfFrames
  <1>15. FailureReported'
    BY <1>0, <1>2 DEF FailureReported
  <1> QED
    BY <1>9, <1>10, <1>11, <1>12, <1>13, <1>14, <1>15 DEF IInv

-----------------------------------------------------------------------------
(* Nobody runs at first.                                                   *)
LEMMA InitIInv == Init => IInv
  <1> SUFFICES ASSUME Init PROVE IInv
    OBVIOUS
  <1>1. \A t \in Thread : stack[t] = <<>> /\ Len(stack[t]) = 0 /\ DOMAIN stack[t] = {}
    BY DEF Init
  <1>2. TypeOK
    <2>1. (CHOOSE i \in Table : TRUE) \in Table
      BY TableAssumption
    <2>2. stack \in [Thread -> Seq(Frame)]
      BY EmptySeq DEF Init
    <2>3. ZeroedContext \in [Register -> Content]
      BY DEF ZeroedContext, Content, Yes
    <2>4. index \in [Thread -> Table]
      BY <2>1 DEF Init
    <2>5. ctx \in [Register -> Content]
      BY <2>3 DEF Init
    <2>6. own \in [Thread -> [Register -> Content \cup {Inherited}]]
      BY <2>3 DEF Init
    <2>7. ps \in [Thread -> [Word -> Value \cup {NoValue}]]
      BY DEF Init, NoParameters
    <2> QED
      BY <1>1, <2>2, <2>4, <2>5, <2>6, <2>7 DEF Init, TypeOK
  <1>3. Owner
    BY <1>1, ThreadAssumption DEF Init, Owner
  <1>4. Bases
    BY <1>1 DEF Bases
  <1>5. Given
    BY <1>1 DEF Init, Given
  <1>6. Isolated
    BY DEF Init, Isolated
  <1>7. WorkSpacesOfFrames
    BY <1>1 DEF Init, WorkSpacesOfFrames
  <1>8. FailureReported
    BY DEF Init, FailureReported
  <1> QED
    BY <1>2, <1>3, <1>4, <1>5, <1>6, <1>7, <1>8 DEF IInv

(* A table that is given up returns -EINVAL, and only such a table does.   *)
LEMMA AbortKeeps ==
    ASSUME IInv, NEW t \in Thread, Abort(t)
    PROVE  IInv'
  BY ReturnKeeps DEF Abort

(* A table that ends returns 0.                                            *)
LEMMA EndOfTableKeeps ==
    ASSUME IInv, NEW t \in Thread, EndOfTable(t)
    PROVE  IInv'
  <1>1. /\ pc[t] = "run" /\ Runs(t) /\ Return(t, "0")
    BY DEF EndOfTable, At
  <1> QED
    BY <1>1, ReturnKeeps DEF Runs

(* Nothing that the invariant speaks of changes in a stuttering step.      *)
LEMMA StutterKeeps ==
    ASSUME IInv, UNCHANGED vars
    PROVE  IInv'
  BY DEF vars, IInv, TypeOK, Owner, Bases, CalleeBase, PsShift, Given,
         Isolated, OwnWords, WorkSpacesOfFrames, FailureReported

(* Every step of the executions and of time keeps the invariant.           *)
THEOREM Inductive == Spec => []IInv
  <1>1. ASSUME IInv, [Next]_vars
        PROVE  IInv'
    <2>1. CASE UNCHANGED vars
      BY <1>1, <2>1, StutterKeeps
    <2>2. ASSUME NEW t \in Thread, Begin(t)
          PROVE  IInv'
      BY <1>1, <2>2, BeginKeeps
    <2>3. ASSUME NEW t \in Thread, End(t)
          PROVE  IInv'
      BY <1>1, <2>3, EndKeeps
    <2>4. ASSUME NEW t \in Thread, Expire(t)
          PROVE  IInv'
      BY <1>1, <2>4, ExpireKeeps
    <2>5. ASSUME NEW t \in Thread, NEW i \in Table, Execute(t, i)
          PROVE  IInv'
      BY <1>1, <2>5, ExecuteKeeps
    <2>6. ASSUME NEW t \in Thread, Run(t)
          PROVE  IInv'
      <3>1. CASE Abort(t)
        BY <1>1, <3>1, AbortKeeps
      <3>2. CASE EndOfTable(t)
        BY <1>1, <3>2, EndOfTableKeeps
      <3>3. CASE Set(t)
        BY <1>1, <3>3, SetKeeps
      <3>4. CASE SetPs(t)
        BY <1>1, <3>4, SetPsKeeps
      <3>5. CASE Compare(t)
        BY <1>1, <3>5, CompareKeeps
      <3>6. CASE Test(t)
        BY <1>1, <3>6, TestKeeps
      <3>7. CASE Jump(t)
        BY <1>1, <3>7, JumpKeeps
      <3>8. CASE Use(t) \/ JumpNotTaken(t) \/ Switch(t)
        BY <1>1, <3>8, OnlyMoves
      <3>9. CASE CallTable(t)
        BY <1>1, <3>9, CallKeeps
      <3> QED
        BY <2>6, <3>1, <3>2, <3>3, <3>4, <3>5, <3>6, <3>7, <3>8, <3>9 DEF Run
    <2> QED
      BY <1>1, <2>1, <2>2, <2>3, <2>4, <2>5, <2>6 DEF Next, Step
  <1> QED
    BY <1>1, InitIInv, PTL DEF Spec

(* In every reachable state each variable has its type: no table runs past *)
(* its end, and no frame is of a table that the BIOS does not have.        *)
THEOREM TypeTheorem == Spec => []TypeOK
  <1>1. IInv => TypeOK
    BY DEF IInv
  <1> QED
    BY <1>1, Inductive, PTL

(* For any number of users, any nesting and any sizes of parameters, an    *)
(* execution sees what it and its tables set and nothing of the others.    *)
THEOREM IsolatedTheorem == Spec => []Isolated
  <1>1. IInv => Isolated
    BY DEF IInv
  <1> QED
    BY <1>1, Inductive, PTL

(* No work space is leaked or missing, however deep the tables nest.       *)
THEOREM WorkSpacesTheorem == Spec => []WorkSpacesOfFrames
  <1>1. IInv => WorkSpacesOfFrames
    BY DEF IInv
  <1> QED
    BY <1>1, Inductive, PTL

(* A table that is given up, at any depth, fails its whole execution, and  *)
(* nothing else but a missing table does.                                  *)
THEOREM FailureReportedTheorem == Spec => []FailureReported
  <1>1. IInv => FailureReported
    BY DEF IInv
  <1> QED
    BY <1>1, Inductive, PTL

-----------------------------------------------------------------------------
(* What may happen while an execution that has been given up unwinds.      *)
LEMMA GivenUpOnlyUnwinds ==
    ASSUME IInv, [Next]_vars, NEW t \in Thread, failed[t], pc[t] = "run"
    PROVE  /\ UNCHANGED <<ctx, ps>>
           /\ Len(stack'[t]) <= Len(stack[t])
           /\ \A i \in DOMAIN stack'[t] : stack'[t][i].ptr = stack[t][i].ptr
  <1> DEFINE s == stack[t]
             n == Len(stack[t])
  <1>0. TypeOK /\ Owner /\ Given
    BY DEF IInv
  <1>1. /\ s \in Seq(Frame) /\ n \in Nat \ {0} /\ DOMAIN s = 1 .. n
        /\ \A i \in DOMAIN s : s[i] \in Frame
        /\ mutex = t
        /\ \A u \in Thread : u # t => pc[u] \in {"idle", "lock"} /\ Len(stack[u]) = 0
    BY <1>0, Frames
  <1>2. ~ Runs(t)
    BY <1>0, NotGivenUp DEF Runs
  <1>3. n <= n
    BY <1>1
  <1>4. CASE UNCHANGED <<stack, ctx, ps>>
    BY <1>3, <1>4
  <1>5. ASSUME NEW u \in Thread, Begin(u)
        PROVE  FALSE
    BY <1>1, <1>5, ThreadAssumption DEF Begin
  <1>6. ASSUME NEW u \in Thread, End(u)
        PROVE  FALSE
    BY <1>1, <1>6 DEF End
  <1>7. ASSUME NEW u \in Thread, Run(u)
        PROVE  u = t /\ Return(t, "EINVAL")
    <2>1. pc[u] = "run"
      BY <1>7 DEF Run, Abort, EndOfTable, Set, Use, SetPs, Compare, Test, Jump,
                  JumpNotTaken, Switch, CallTable, At
    <2>2. u = t
      BY <1>1, <2>1
    <2> QED
      BY <1>2, <1>7, <2>2 DEF Run, Abort, EndOfTable, Set, Use, SetPs, Compare,
                  Test, Jump, JumpNotTaken, Switch, CallTable, At
  <1>8. CASE Return(t, "EINVAL")
    <2>1. UNCHANGED <<ctx, ps>>
      BY <1>8 DEF Return
    <2>2. CASE n = 1
      <3>1. stack'[t] = <<>>
        BY <1>0, <1>8, <2>2 DEF Return, TypeOK
      <3>2. Len(stack'[t]) = 0 /\ DOMAIN stack'[t] = {}
        BY <3>1
      <3> QED
        BY <2>1, <2>2, <3>2
    <2>3. CASE n # 1
      <3>1. /\ Len(stack'[t]) = n - 1
            /\ DOMAIN stack'[t] = 1 .. n - 1
            /\ \A i \in 1 .. n - 1 : stack'[t][i].ptr = stack[t][i].ptr
        BY <1>0, <1>8, <2>3, ReturnsTo
      <3>2. n - 1 <= n
        BY <1>1
      <3> QED
        BY <2>1, <3>1, <3>2
    <2> QED
      BY <2>2, <2>3
  <1>9. ASSUME NEW u \in Thread, Expire(u)
        PROVE  /\ UNCHANGED <<ctx, ps>>
               /\ Len(stack'[t]) <= n
               /\ \A i \in DOMAIN stack'[t] : stack'[t][i].ptr = s[i].ptr
    <2>1. UNCHANGED <<ctx, ps>>
      BY <1>9 DEF Expire
    <2>2. PICK j \in DOMAIN stack[u] :
            stack' = [stack EXCEPT ![u][j].expired = TRUE]
      BY <1>9 DEF Expire
    <2>3. CASE u # t
      <3>1. stack'[t] = s
        BY <1>0, <2>2, <2>3 DEF TypeOK
      <3> QED
        BY <1>3, <2>1, <3>1
    <2>4. CASE u = t
      <3> DEFINE g == [s[j] EXCEPT !.expired = TRUE]
      <3>1. j \in 1 .. n /\ s[j] \in Frame
        BY <1>1, <2>2, <2>4
      <3>2. stack'[t] = [s EXCEPT ![j] = g]
        BY <1>0, <2>2, <2>4 DEF TypeOK
      <3>3. g \in Frame /\ g.ptr = s[j].ptr
        BY <3>1 DEF Frame
      <3> HIDE DEF g
      <3>4. /\ Len([s EXCEPT ![j] = g]) = n
            /\ \A i \in 1 .. n : [s EXCEPT ![j] = g][i] = IF i = j THEN g ELSE s[i]
        BY <1>1, <3>1, <3>3, ExceptSeq
      <3>5. DOMAIN stack'[t] = 1 .. n
        BY <1>1, <3>2
      <3> QED
        BY <1>3, <2>1, <3>2, <3>3, <3>4, <3>5
    <2> QED
      BY <2>3, <2>4
  <1>10. ASSUME NEW u \in Thread, NEW i \in Table, Execute(u, i)
         PROVE  UNCHANGED <<stack, ctx, ps>>
    BY <1>10 DEF Execute
  <1> QED
    BY <1>4, <1>5, <1>6, <1>7, <1>8, <1>9, <1>10 DEF Next, Step, vars

(* Once a table of an execution has been given up, neither the registers   *)
(* nor the parameters change any more until that execution has ended, and  *)
(* none of the tables that called it goes on, however many there are.      *)
THEOREM NothingAfterAbortTheorem == Spec => NothingAfterAbort
  <1>1. ASSUME IInv, [Next]_vars
        PROVE  [\A t \in Thread : failed[t] /\ pc[t] = "run" =>
                  /\ UNCHANGED <<ctx, ps>>
                  /\ Len(stack'[t]) <= Len(stack[t])
                  /\ \A i \in DOMAIN stack'[t] :
                        stack'[t][i].ptr = stack[t][i].ptr]_vars
    BY <1>1, GivenUpOnlyUnwinds
  <1> QED
    BY <1>1, Inductive, PTL DEF Spec, NothingAfterAbort
=============================================================================
