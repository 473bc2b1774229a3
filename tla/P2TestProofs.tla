---------------------------- MODULE P2TestProofs ----------------------------
(***************************************************************************)
(* Proofs about the test of Phase 2, for any number of PCBs, any length of *)
(* its loops and any time slices: print() has the transmitter to itself    *)
(* and gets its own answer, so that the test uses the terminal as DevIO    *)
(* does and all that holds of DevIO holds under the test.                  *)
(*                                                                         *)
(* Of the programs the proofs use only what their text shows: that it      *)
(* takes term_mut before it uses the terminal, uses it once and lets       *)
(* term_mut go, and where its jumps lead.                                  *)
(***************************************************************************)
EXTENDS MCP2Test, DevIOProofs

Mutex == "term_mut"

\* The programs that may run with handlers set: p5 and what its traps lead to.
Handling == {"p5", "p5prog", "p5a", "p5mm", "p5sys", "p5b"}

Names == Handling \cup
  {"test", "p2", "p3", "p4", "p4a", "p4b", "p4c", "p6", "p7", "p8root", "child1",
   "intermediate", "child2", "p8leaf", "curiousleaf"}
-----------------------------------------------------------------------------
(* The text of a program                                                   *)

Section(x) == x[1] \in {"IO", "Next"} \/ x = <<"V", Mutex>>

\* Where instructions go to.
Targets ==
  {<<"p4c", 1>>, <<"p5a", 1>>, <<"p5b", 1>>, <<"p5b", 2>>, <<"curiousleaf", 7>>,
   <<"curiousleaf", 15>>}

\* What program n may contain.
Fit(n, x) ==
  /\ x[1] = "P" => x[2] \in UserSem \ {Mutex}
  /\ x[1] = "V" => x[2] \in UserSem /\ x = <<"V", x[2]>>
  /\ x[1] = "Passup" => x[2] \in TrapType /\ n \in Handling
  /\ x[1] = "Trap" => x[2] \in TrapType /\ x = <<"Trap", x[2]>>
  /\ x[1] = "Create" => x[2] \in Names /\ n \notin Handling
  /\ x[1] = "Tutor" => n \notin Handling
  /\ x[1] = "Kill" => n \notin Handling
  /\ x[1] = "Switch" => n \notin Handling
  /\ x[1] = "Judge" => <<n, x[2]>> = <<"curiousleaf", 15>>
  /\ x[1] = "Goto" =>
       /\ <<x[2], x[3]>> \in Targets
       /\ n \in Handling <=> x[2] \in Handling

\* Instruction y after x.
Follows(x, y) ==
  /\ x[1] = "Lock" <=> y[1] = "IO"
  /\ x[1] = "IO" <=> y[1] = "Next"
  /\ x[1] = "Next" <=> y = <<"V", Mutex>>
  /\ x[1] = "Maybe" => y[1] = "Clock"

Opens(x)  == ~Section(x)
Closes(x) == x[1] \notin {"Lock", "IO", "Next", "Maybe"}

Text(s) == s \in Seq(Range(s))

\* The end of a loop leads back into s, and not into the middle of print().
Returning(s) ==
  \A i \in 1..Len(s) : s[i][1] = "Until" =>
    /\ s[i][3] \in Nat
    /\ i - s[i][3] \in 1..Len(s)
    /\ Opens(s[i - s[i][3]])

\* A part of program n that can stand between others.
Part(n, s) ==
  /\ Text(s) /\ Returning(s)
  /\ \A i \in 1..Len(s) : Fit(n, s[i])
  /\ \A i \in 1..(Len(s) - 1) : Follows(s[i], s[i + 1])
  /\ Len(s) > 0 => Opens(s[1]) /\ Closes(s[Len(s)])

\* Instructions behind which their program does not go on.
Leaving == {"Die", "Trap", "Goto", "Switch"}

\* A whole program never runs past its end, nor is it resumed there.
Whole(n, s) ==
  /\ Part(n, s)
  /\ Len(s) > 0
  /\ s[Len(s)][1] \in Leaving
  /\ n \in Handling => s[Len(s)] # <<"Trap", "SYSBP">>

LEMMA SeqText ==
  ASSUME NEW S, NEW s \in Seq(S)
  PROVE  Text(s)
BY DEF Text, Range

LEMMA TextCat ==
  ASSUME NEW s, NEW t, Text(s), Text(t)
  PROVE  /\ Text(s \o t) /\ Len(s \o t) = Len(s) + Len(t)
         /\ Len(s) \in Nat /\ Len(t) \in Nat
         /\ \A i \in 1..Len(s) : (s \o t)[i] = s[i]
         /\ \A i \in 1..Len(t) : (s \o t)[Len(s) + i] = t[i]
<1> DEFINE w == s \o t
<1>1. s \in Seq(Range(s) \cup Range(t)) /\ t \in Seq(Range(s) \cup Range(t))
  BY SeqDef DEF Text, Range
<1>2. /\ w \in Seq(Range(s) \cup Range(t)) /\ Len(w) = Len(s) + Len(t)
      /\ Len(s) \in Nat /\ Len(t) \in Nat
      /\ \A i \in 1..Len(s) : w[i] = s[i]
      /\ \A i \in 1..Len(t) : w[Len(s) + i] = t[i]
  BY <1>1
<1> HIDE DEF w
<1>3. Text(w)
  BY <1>2, SeqText
<1> QED BY <1>2, <1>3 DEF w

LEMMA PartCat ==
  ASSUME NEW n, NEW s, NEW t, Part(n, s), Part(n, t)
  PROVE  Part(n, s \o t)
<1> DEFINE w == s \o t
<1>2. /\ Text(w) /\ Len(w) = Len(s) + Len(t)
      /\ Len(s) \in Nat /\ Len(t) \in Nat
      /\ \A i \in 1..Len(s) : w[i] = s[i]
      /\ \A i \in 1..Len(t) : w[Len(s) + i] = t[i]
  BY TextCat DEF Part
<1>3. \A i \in 1..Len(w) : i \in 1..Len(s) \/ (i - Len(s) \in 1..Len(t) /\ i = Len(s) + (i - Len(s)))
  BY <1>2
<1> HIDE DEF w
<1>4. \A i \in 1..Len(w) : Fit(n, w[i])
  BY <1>2, <1>3 DEF Part
<1>5. ASSUME NEW i \in 1..(Len(w) - 1) PROVE Follows(w[i], w[i + 1])
  <2>1. CASE i < Len(s)
    <3>1. i \in 1..(Len(s) - 1) /\ i \in 1..Len(s) /\ i + 1 \in 1..Len(s)
      BY <1>2, <2>1
    <3>2. w[i] = s[i] /\ w[i + 1] = s[i + 1] /\ Follows(s[i], s[i + 1])
      BY <1>2, <3>1 DEF Part
    <3> QED BY <3>2
  <2>2. CASE i = Len(s)
    <3>1. w[i] = s[Len(s)] /\ w[i + 1] = t[1] /\ Len(s) > 0 /\ Len(t) > 0
      BY <1>2, <2>2
    <3>2. Closes(s[Len(s)]) /\ Opens(t[1])
      BY <3>1 DEF Part
    <3> QED BY <3>1, <3>2 DEF Closes, Opens, Section, Follows
  <2>3. CASE i > Len(s)
    <3> DEFINE j == i - Len(s)
    <3>1. /\ j \in 1..(Len(t) - 1) /\ j \in 1..Len(t) /\ j + 1 \in 1..Len(t)
          /\ i = Len(s) + j /\ i + 1 = Len(s) + (j + 1)
      BY <1>2, <2>3
    <3> HIDE DEF j
    <3>2. w[i] = t[j] /\ w[i + 1] = t[j + 1] /\ Follows(t[j], t[j + 1])
      BY <1>2, <3>1 DEF Part
    <3> QED BY <3>2
  <2> QED BY <1>2, <2>1, <2>2, <2>3
<1>6. Len(w) > 0 => Opens(w[1]) /\ Closes(w[Len(w)])
  <2>1. Len(s) > 0 => Opens(w[1])
    BY <1>2 DEF Part
  <2>2. Len(s) = 0 /\ Len(t) > 0 => Opens(w[1])
    BY <1>2 DEF Part
  <2>3. Len(t) > 0 => Closes(w[Len(w)])
    BY <1>2 DEF Part
  <2>4. Len(t) = 0 /\ Len(s) > 0 => Closes(w[Len(w)])
    BY <1>2 DEF Part
  <2> QED BY <1>2, <2>1, <2>2, <2>3, <2>4
<1>7. ASSUME NEW i \in 1..Len(w), w[i][1] = "Until"
      PROVE  /\ w[i][3] \in Nat /\ i - w[i][3] \in 1..Len(w)
             /\ Opens(w[i - w[i][3]])
  <2>1. CASE i \in 1..Len(s)
    <3>1. w[i] = s[i]
      BY <1>2, <2>1
    <3> DEFINE k == i - s[i][3]
    <3>2. s[i][3] \in Nat /\ k \in 1..Len(s) /\ Opens(s[k])
      BY <1>7, <2>1, <3>1 DEF Part, Returning
    <3> HIDE DEF k
    <3>3. k \in 1..Len(w) /\ w[k] = s[k]
      BY <1>2, <3>2
    <3> QED BY <3>1, <3>2, <3>3 DEF k
  <2>2. CASE i - Len(s) \in 1..Len(t) /\ i = Len(s) + (i - Len(s))
    <3> DEFINE j == i - Len(s)
    <3>1. j \in 1..Len(t) /\ i = Len(s) + j /\ j \in Int
      BY <1>2, <2>2
    <3> HIDE DEF j
    <3>2. w[i] = t[j]
      BY <1>2, <3>1
    <3> DEFINE k == j - t[j][3]
    <3>3. t[j][3] \in Nat /\ k \in 1..Len(t) /\ Opens(t[k])
      BY <1>7, <3>1, <3>2 DEF Part, Returning
    <3>4. i - w[i][3] = Len(s) + k
      BY <1>2, <3>1, <3>2, <3>3
    <3> HIDE DEF k
    <3>5. Len(s) + k \in 1..Len(w) /\ w[Len(s) + k] = t[k]
      BY <1>2, <3>3
    <3> QED BY <3>2, <3>3, <3>4, <3>5
  <2> QED BY <1>3, <2>1, <2>2
<1>8. Returning(w)
  BY <1>7 DEF Returning
<1> QED BY <1>2, <1>4, <1>5, <1>6, <1>8 DEF Part, w

LEMMA WholeCat ==
  ASSUME NEW n, NEW s, NEW t, Part(n, s), Whole(n, t)
  PROVE  Whole(n, s \o t)
<1> DEFINE w == s \o t
<1>1. /\ Len(w) = Len(s) + Len(t) /\ Len(s) \in Nat /\ Len(t) \in Nat
      /\ \A i \in 1..Len(t) : w[Len(s) + i] = t[i]
  BY TextCat DEF Whole, Part
<1>2. Len(w) = Len(s) + Len(t) /\ w[Len(w)] = t[Len(t)] /\ Len(w) > 0
  BY <1>1 DEF Whole
<1> HIDE DEF w
<1> QED BY <1>2, PartCat DEF Whole, w

\* Instructions that are no part of print() and do not end a loop.
Single(n, x) == Fit(n, x) /\ Opens(x) /\ Closes(x) /\ x[1] # "Until"
Plain(n, s) ==
  /\ Text(s) /\ Len(s) > 0
  /\ \A i \in 1..Len(s) : Single(n, s[i])

LEMMA PlainPart ==
  ASSUME NEW n, NEW s, Plain(n, s)
  PROVE  Part(n, s)
<1>1. Len(s) \in Nat
  BY DEF Plain, Text
<1>2. ASSUME NEW i \in 1..(Len(s) - 1) PROVE Follows(s[i], s[i + 1])
  <2>1. i \in 1..Len(s) /\ i + 1 \in 1..Len(s)
    BY <1>1
  <2> QED BY <2>1 DEF Plain, Single, Opens, Closes, Section, Follows
<1> QED BY <1>1, <1>2 DEF Plain, Single, Part, Returning

LEMMA LoopPart ==
  ASSUME NEW n, NEW m, NEW s, Plain(n, s)
  PROVE  Part(n, Loop(m, s))
<1> DEFINE l == Len(s)
           u == << <<"From0">> >>
           v == << <<"Until", m, l>> >>
           w == (u \o s) \o v
<1>1. /\ Text(u) /\ Text(v) /\ Text(s) /\ l \in Nat /\ l > 0
      /\ Len(u) = 1 /\ u[1] = <<"From0">> /\ Len(v) = 1 /\ v[1] = <<"Until", m, l>>
  BY DEF Plain, Text, Range
<1> HIDE DEF l, u, v
<1>2. /\ Text(u \o s) /\ Len(u \o s) = 1 + l /\ (u \o s)[1] = <<"From0">>
      /\ \A i \in 1..l : (u \o s)[1 + i] = s[i]
  <2>1. /\ Text(u \o s) /\ Len(u \o s) = Len(u) + Len(s)
        /\ \A i \in 1..Len(u) : (u \o s)[i] = u[i]
        /\ \A i \in 1..Len(s) : (u \o s)[Len(u) + i] = s[i]
    <3>1. Text(u) /\ Text(s)
      BY <1>1
    <3> QED BY <3>1, TextCat
  <2> QED BY <1>1, <2>1 DEF l
<1>3. /\ Text(w) /\ Len(w) = l + 2
      /\ \A i \in 1..(1 + l) : w[i] = (u \o s)[i]
      /\ w[(1 + l) + 1] = v[1]
  <2> DEFINE x == u \o s
  <2>1. Text(x) /\ Len(x) = 1 + l /\ w = x \o v
    BY <1>2
  <2> HIDE DEF x, w
  <2>2. /\ Text(w) /\ Len(w) = Len(x) + Len(v)
        /\ \A i \in 1..Len(x) : w[i] = x[i]
        /\ \A i \in 1..Len(v) : w[Len(x) + i] = v[i]
    <3>1. Text(x) /\ Text(v)
      BY <1>1, <2>1
    <3> DEFINE y == x \o v
    <3>2. /\ Text(y) /\ Len(y) = Len(x) + Len(v)
          /\ \A i \in 1..Len(x) : y[i] = x[i]
          /\ \A i \in 1..Len(v) : y[Len(x) + i] = v[i]
      BY <3>1, TextCat
    <3> HIDE DEF y
    <3>3. w = y
      BY <2>1 DEF y
    <3> QED BY <3>2, <3>3
  <2>3. w[Len(x) + 1] = v[1]
    BY <1>1, <2>2
  <2> QED BY <1>1, <2>1, <2>2, <2>3 DEF x
<1>4. /\ w[1] = <<"From0">> /\ w[l + 2] = <<"Until", m, l>>
      /\ \A i \in 1..l : w[1 + i] = s[i]
  BY <1>1, <1>2, <1>3
<1> HIDE DEF w
<1>5. ASSUME NEW i \in 1..Len(w)
      PROVE  /\ Fit(n, w[i]) /\ Opens(w[i]) /\ Closes(w[i])
             /\ w[i][1] = "Until" => i = l + 2
  <2>1. CASE i = 1
    BY <1>1, <1>4, <2>1 DEF Fit, Opens, Closes, Section
  <2>2. CASE i = l + 2
    BY <1>4, <2>2 DEF Fit, Opens, Closes, Section
  <2>3. CASE i # 1 /\ i # l + 2
    <3>1. i - 1 \in 1..l /\ i = 1 + (i - 1)
      BY <1>1, <1>3, <2>3
    <3>2. w[i] = s[i - 1]
      BY <1>4, <3>1
    <3>3. Single(n, s[i - 1])
      BY <3>1 DEF Plain, l
    <3> QED BY <3>2, <3>3 DEF Single
  <2> QED BY <2>1, <2>2, <2>3
<1>6. ASSUME NEW i \in 1..(Len(w) - 1) PROVE Follows(w[i], w[i + 1])
  <2>1. i \in 1..Len(w) /\ i + 1 \in 1..Len(w)
    BY <1>1, <1>3
  <2>2. Opens(w[i]) /\ Closes(w[i]) /\ Opens(w[i + 1]) /\ Closes(w[i + 1])
    BY <1>5, <2>1
  <2> QED BY <2>2 DEF Opens, Closes, Section, Follows
<1>7. Returning(w)
  <2>1. 2 \in 1..Len(w)
    BY <1>1, <1>3
  <2>2. ASSUME NEW i \in 1..Len(w), w[i][1] = "Until"
        PROVE  /\ w[i][3] = l /\ i - w[i][3] = 2
    BY <1>1, <1>4, <1>5, <2>2
  <2> QED BY <1>1, <1>5, <2>1, <2>2 DEF Returning
<1>8. 1 \in 1..Len(w) /\ Len(w) \in 1..Len(w)
  BY <1>1, <1>3
<1>9. Part(n, w)
  BY <1>3, <1>5, <1>6, <1>7, <1>8 DEF Part
<1>10. Loop(m, s) = w
  BY DEF Loop, l, u, v, w
<1> QED BY <1>9, <1>10

LEMMA PrintPart ==
  ASSUME NEW n
  PROVE  Part(n, PrintMsg)
<1> DEFINE s == PrintMsg
<1>1. /\ Len(s) = 4 /\ s[1] = <<"Lock">> /\ s[2] = <<"IO">> /\ s[3] = <<"Next">>
      /\ s[4] = <<"V", Mutex>>
  BY DEF PrintMsg, Mutex
<1>2. Text(s)
  BY DEF PrintMsg, Text, Range
<1> HIDE DEF s
<1>3. \A i \in 1..Len(s) : Fit(n, s[i])
  <2>1. Mutex \in UserSem
    BY P2TestAssumption DEF Mutex
  <2>2. Fit(n, s[1]) /\ Fit(n, s[2]) /\ Fit(n, s[3])
    BY <1>1 DEF Fit
  <2>3. Fit(n, s[4])
    BY <1>1, <2>1 DEF Fit
  <2> QED BY <1>1, <2>2, <2>3
<1>4. \A i \in 1..(Len(s) - 1) : Follows(s[i], s[i + 1])
  <2>1. Follows(s[1], s[2]) /\ Follows(s[2], s[3]) /\ Follows(s[3], s[4])
    BY <1>1 DEF Follows, Mutex
  <2> QED BY <1>1, <2>1
<1>5. Opens(s[1]) /\ Closes(s[4])
  BY <1>1 DEF Opens, Closes, Section, Mutex
<1>6. Returning(s)
  BY <1>1 DEF Returning, Mutex
<1> QED BY <1>1, <1>2, <1>3, <1>4, <1>5, <1>6 DEF Part, s

\* Most instructions fit every program.
LEMMA Singles ==
  ASSUME NEW n
  PROVE  /\ \A x \in {"Result", "Die", "Clock", "Synch", "SetSynch", "First", "Second",
                     "Parent", "KillParent"} : Single(n, <<x>>)
         /\ \A k \in UserSem \ {Mutex} : Single(n, <<"P", k>>) /\ Single(n, <<"V", k>>)
         /\ \A t \in TrapType : Single(n, <<"Trap", t>>) /\ Single(n, <<"Again", t>>)
         /\ \A a, b : Single(n, <<"Expect", a, b>>)
         /\ n \notin Handling => \A c \in Names : \A a : Single(n, <<"Create", c, a>>)
         /\ n \in Handling => \A t \in TrapType : Single(n, <<"Passup", t>>)
<1>1. ASSUME NEW x \in {"Result", "Die", "Clock", "Synch", "SetSynch", "First", "Second",
                       "Parent", "KillParent"}
      PROVE  Single(n, <<x>>)
  BY <1>1 DEF Single, Fit, Opens, Closes, Section
<1>2. ASSUME NEW k \in UserSem \ {Mutex}
      PROVE  Single(n, <<"P", k>>) /\ Single(n, <<"V", k>>)
  BY <1>2 DEF Single, Fit, Opens, Closes, Section
<1>3. ASSUME NEW t \in TrapType
      PROVE  Single(n, <<"Trap", t>>) /\ Single(n, <<"Again", t>>)
  BY <1>3 DEF Single, Fit, Opens, Closes, Section
<1>4. ASSUME NEW a, NEW b PROVE Single(n, <<"Expect", a, b>>)
  BY DEF Single, Fit, Opens, Closes, Section
<1>5. ASSUME n \notin Handling, NEW c \in Names, NEW a
      PROVE  Single(n, <<"Create", c, a>>)
  BY <1>5 DEF Single, Fit, Opens, Closes, Section
<1>6. ASSUME n \in Handling, NEW t \in TrapType PROVE Single(n, <<"Passup", t>>)
  BY <1>6 DEF Single, Fit, Opens, Closes, Section
<1> QED BY <1>1, <1>2, <1>3, <1>4, <1>5, <1>6

LEMMA Plain1 ==
  ASSUME NEW n, NEW a,
         Single(n, a)
  PROVE  Plain(n, <<a>>)
BY DEF Plain, Text, Range

LEMMA Plain2 ==
  ASSUME NEW n, NEW a, NEW b,
         Single(n, a), Single(n, b)
  PROVE  Plain(n, <<a, b>>)
BY DEF Plain, Text, Range

LEMMA Plain3 ==
  ASSUME NEW n, NEW a, NEW b, NEW c,
         Single(n, a), Single(n, b), Single(n, c)
  PROVE  Plain(n, <<a, b, c>>)
BY DEF Plain, Text, Range

LEMMA Plain4 ==
  ASSUME NEW n, NEW a, NEW b, NEW c, NEW d,
         Single(n, a), Single(n, b), Single(n, c), Single(n, d)
  PROVE  Plain(n, <<a, b, c, d>>)
BY DEF Plain, Text, Range

LEMMA Plain5 ==
  ASSUME NEW n, NEW a, NEW b, NEW c, NEW d, NEW e,
         Single(n, a), Single(n, b), Single(n, c), Single(n, d), Single(n, e)
  PROVE  Plain(n, <<a, b, c, d, e>>)
BY DEF Plain, Text, Range

LEMMA Plain6 ==
  ASSUME NEW n, NEW a, NEW b, NEW c, NEW d, NEW e, NEW f,
         Single(n, a), Single(n, b), Single(n, c), Single(n, d), Single(n, e), Single(n, f)
  PROVE  Plain(n, <<a, b, c, d, e, f>>)
BY DEF Plain, Text, Range

\* What may end a program.
LastIn(n, x) ==
  /\ x[1] \in Leaving
  /\ n \in Handling => x # <<"Trap", "SYSBP">>

LEMMA PlainWhole ==
  ASSUME NEW n, NEW s, Plain(n, s), LastIn(n, s[Len(s)])
  PROVE  Whole(n, s)
BY PlainPart DEF Plain, Whole, LastIn, Leaving

\* The semaphores of the test other than term_mut.
LEMMA SemSingles ==
  ASSUME NEW n,
         NEW k \in {"s", "testsem", "startp2", "endp2", "endp3", "blkp4", "synp4",
                    "endp4", "endp5", "endp8", "endcreate", "blkp8"}
  PROVE  Single(n, <<"P", k>>) /\ Single(n, <<"V", k>>)
BY Singles, P2TestAssumption DEF Mutex

LEMMA GotoSingle ==
  ASSUME NEW n, NEW m, NEW i, <<m, i>> \in Targets, n \in Handling <=> m \in Handling
  PROVE  Single(n, <<"Goto", m, i>>)
BY DEF Single, Fit, Opens, Closes, Section

\* Half a clock interval: p3 and p5 wait for one tick or two.
LEMMA IntervalPart ==
  ASSUME NEW n
  PROVE  Part(n, HalfInterval)
<1> DEFINE s == HalfInterval
<1>1. Len(s) = 3 /\ s[1] = <<"Clock">> /\ s[2] = <<"Maybe">> /\ s[3] = <<"Clock">>
  BY DEF HalfInterval
<1>2. Text(s)
  BY DEF HalfInterval, Text, Range
<1> HIDE DEF s
<1>3. \A i \in 1..Len(s) : Fit(n, s[i])
  <2>1. Fit(n, s[1]) /\ Fit(n, s[2]) /\ Fit(n, s[3])
    BY <1>1 DEF Fit
  <2> QED BY <1>1, <2>1
<1>4. \A i \in 1..(Len(s) - 1) : Follows(s[i], s[i + 1])
  <2>1. Follows(s[1], s[2]) /\ Follows(s[2], s[3])
    BY <1>1 DEF Follows, Mutex
  <2> QED BY <1>1, <2>1
<1>5. Opens(s[1]) /\ Closes(s[3])
  BY <1>1 DEF Opens, Closes, Section, Mutex
<1>6. Returning(s)
  BY <1>1 DEF Returning, Mutex
<1> QED BY <1>1, <1>2, <1>3, <1>4, <1>5, <1>6 DEF Part, s
-----------------------------------------------------------------------------
(* The programs of the test, piece by piece                                *)

\* The end of the processes that wait for blkp8 and pass it on.
LEMMA PassOnWhole ==
  ASSUME NEW n, n \notin Handling
  PROVE  Whole(n, PassOn)
<1> DEFINE a == << <<"P", "blkp8">>, <<"V", "blkp8">>, <<"Die">> >>
<1>1. Plain(n, a)
  BY Singles, SemSingles, Plain3
<1>2. a[Len(a)] = <<"Die">>
  OBVIOUS
<1> HIDE DEF a
<1>3. LastIn(n, a[Len(a)])
  BY <1>2 DEF LastIn, Leaving
<1>4. Whole(n, a)
  BY <1>1, <1>3, PlainWhole
<1> QED BY <1>4 DEF PassOn, a

LEMMA Other ==
  ASSUME NEW n, n \notin Handling
  PROVE  /\ Single(n, <<"Tutor">>) /\ Single(n, <<"Kill", "p42id">>)
         /\ n = "curiousleaf" => Single(n, <<"Judge", 15>>)
BY DEF Single, Fit, Opens, Closes, Section

LEMMA TestWhole == Whole("test", TestCode)
<1> DEFINE n == "test"
           a == << <<"V", "testsem">>, <<"Expect", "testsem", 1>> >>
           b == << <<"Create", "p2", "none">> >>
           c == << <<"V", "startp2">>, <<"P", "endp2">>, <<"Synch">>,
                   <<"Create", "p3", "none">> >>
           d == << <<"P", "endp3">>, <<"Create", "p4", "p4pid">>,
                   <<"Create", "p5", "none">>,
                   <<"Create", "p6", "none">>,
                   <<"Create", "p7", "none">>, <<"P", "endp5">> >>
           e == << <<"P", "blkp4">> >>
           f == << <<"Create", "p8root", "none">>, <<"P", "endp8">> >>
           g == << <<"Trap", "PGT">> >>
<1>1. n \notin Handling
  BY DEF Handling
<1>2. Plain(n, a)
  BY <1>1, SemSingles, Singles, Plain2
<1>3. Plain(n, b)
  BY <1>1, Singles, Plain1 DEF Names
<1>4. Plain(n, c)
  BY <1>1, SemSingles, Singles, Plain4 DEF Names
<1>5. Plain(n, d)
  <2>1. /\ Single(n, <<"Create", "p4", "p4pid">>)
        /\ Single(n, <<"Create", "p5", "none">>)
        /\ Single(n, <<"Create", "p6", "none">>)
        /\ Single(n, <<"Create", "p7", "none">>)
    BY <1>1, Singles DEF Names, Handling
  <2>2. Single(n, <<"P", "endp3">>) /\ Single(n, <<"P", "endp5">>)
    BY SemSingles
  <2> QED BY <2>1, <2>2, Plain6
<1>6. Plain(n, e)
  BY <1>1, SemSingles, Plain1
<1>7. Plain(n, f)
  BY <1>1, SemSingles, Singles, Plain2 DEF Names
<1>8. Plain(n, g)
  BY <1>1, Singles, Plain1 DEF TrapType
<1>9. g[Len(g)] = <<"Trap", "PGT">>
  OBVIOUS
<1> HIDE DEF a, b, c, d, e, f, g
<1>10. Whole(n, g)
  BY <1>8, <1>9, PlainWhole DEF LastIn, Leaving, Handling
<1>11. /\ Part(n, a) /\ Part(n, b) /\ Part(n, c)
      /\ Part(n, d) /\ Part(n, e) /\ Part(n, Loop(Incarnations, f))
  BY <1>2, <1>3, <1>4, <1>5, <1>6, <1>7, PlainPart, LoopPart, P2TestAssumption
<1>12. Part(n, a \o PrintMsg \o b \o PrintMsg \o c \o PrintMsg \o d \o
               PrintMsg \o e \o Loop(Incarnations, f) \o PrintMsg \o
               PrintMsg)
  BY <1>11, PrintPart, PartCat
<1> QED BY <1>10, <1>12, WholeCat DEF TestCode, a, b, c, d, e, f, g

LEMMA P2Whole == Whole("p2", P2Code)
<1> DEFINE n == "p2"
           a == << <<"P", "startp2">> >>
           b == << <<"V", "s">>, <<"P", "s">>, <<"Expect", "s", 0>> >>
           c == << <<"Result">>, <<"Result">> >>
           d == << <<"SetSynch">>, <<"V", "endp2">>, <<"Die">> >>
<1>1. n \notin Handling
  BY DEF Handling
<1>2. Plain(n, a)
  BY <1>1, SemSingles, Plain1
<1>3. Plain(n, b)
  BY <1>1, SemSingles, Singles, Plain3
<1>4. Plain(n, c)
  BY <1>1, Singles, Plain2
<1>5. Plain(n, d)
  BY <1>1, SemSingles, Singles, Plain3
<1>6. d[Len(d)] = <<"Die">>
  OBVIOUS
<1> HIDE DEF a, b, c, d
<1>7. Whole(n, d)
  BY <1>5, <1>6, PlainWhole DEF LastIn, Leaving, Handling
<1>8. /\ Part(n, a) /\ Part(n, Loop(MAXSEM + 1, b)) /\ Part(n, c)
  BY <1>2, <1>3, <1>4, PlainPart, LoopPart, P2TestAssumption
<1>9. Part(n, a \o PrintMsg \o Loop(MAXSEM + 1, b) \o PrintMsg \o c \o
              PrintMsg)
  BY <1>8, PrintPart, PartCat
<1> QED BY <1>7, <1>9, WholeCat DEF P2Code, a, b, c, d

LEMMA P3Whole == Whole("p3", P3Code)
<1> DEFINE n == "p3"
           a == << <<"Result">> >>
           b == << <<"Clock">> >>
           c == << <<"Result">> >>
           d == << <<"V", "endp3">>, <<"Die">> >>
<1>1. n \notin Handling
  BY DEF Handling
<1>2. Plain(n, a)
  BY <1>1, Singles, Plain1
<1>3. Plain(n, b)
  BY <1>1, Singles, Plain1
<1>4. Plain(n, c)
  BY <1>1, Singles, Plain1
<1>5. Plain(n, d)
  BY <1>1, SemSingles, Singles, Plain2
<1>6. d[Len(d)] = <<"Die">>
  OBVIOUS
<1> HIDE DEF a, b, c, d
<1>7. Whole(n, d)
  BY <1>5, <1>6, PlainWhole DEF LastIn, Leaving, Handling
<1>8. /\ Part(n, a) /\ Part(n, Loop(CLOCKLOOP, b)) /\ Part(n, c)
  BY <1>2, <1>3, <1>4, PlainPart, LoopPart, P2TestAssumption
<1>9. Part(n, HalfInterval \o PrintMsg \o a \o Loop(CLOCKLOOP, b) \o
              c \o PrintMsg)
  BY <1>8, PrintPart, IntervalPart, PartCat
<1> QED BY <1>7, <1>9, WholeCat DEF P3Code, a, b, c, d

LEMMA P4Whole == Whole("p4", P4Code)
<1> DEFINE n == "p4"
           a == << <<"Switch">> >>
<1>1. n \notin Handling
  BY DEF Handling
<1>2. Single(n, <<"Switch">>)
  BY <1>1 DEF Single, Fit, Opens, Closes, Section
<1>3. Plain(n, a) /\ a[Len(a)] = <<"Switch">>
  BY <1>2, Plain1
<1> HIDE DEF a
<1>4. Whole(n, a)
  BY <1>1, <1>3, PlainWhole DEF LastIn, Leaving
<1> QED BY <1>4 DEF P4Code, a

LEMMA P4aWhole == Whole("p4a", P4aCode)
<1> DEFINE n == "p4a"
           a == << <<"Result">>, <<"First">>, <<"Goto", "p4c", 1>> >>
<1>1. n \notin Handling
  BY DEF Handling
<1>2. Plain(n, a)
  BY <1>1, Singles, GotoSingle, Plain3 DEF Targets, Handling
<1>3. a[Len(a)] = <<"Goto", "p4c", 1>>
  OBVIOUS
<1> HIDE DEF a
<1>4. Whole(n, a)
  BY <1>1, <1>2, <1>3, PlainWhole DEF LastIn, Leaving
<1> QED BY <1>4, PrintPart, WholeCat DEF P4aCode, a

LEMMA P4bWhole == Whole("p4b", P4bCode)
<1> DEFINE n == "p4b"
           a == << <<"Result">>, <<"Second">>, <<"Goto", "p4c", 1>> >>
<1>1. n \notin Handling
  BY DEF Handling
<1>2. Plain(n, a)
  BY <1>1, Singles, GotoSingle, Plain3 DEF Targets, Handling
<1>3. a[Len(a)] = <<"Goto", "p4c", 1>>
  OBVIOUS
<1> HIDE DEF a
<1>4. Whole(n, a)
  BY <1>1, <1>2, <1>3, PlainWhole DEF LastIn, Leaving
<1> QED BY <1>4, PrintPart, WholeCat DEF P4bCode, a

LEMMA P4cWhole == Whole("p4c", P4cCode)
<1> DEFINE n == "p4c"
           a == << <<"V", "synp4">>, <<"P", "blkp4">>, <<"P", "synp4">> >>
           b == << <<"Create", "p4", "p42id">>, <<"P", "synp4">> >>
           c == << <<"Kill", "p42id">> >>
           d == << <<"V", "endp4">> >>
           e == << <<"Die">> >>
<1>1. n \notin Handling
  BY DEF Handling
<1>2. Plain(n, a)
  BY <1>1, SemSingles, Singles, Plain3
<1>3. Plain(n, b)
  BY <1>1, SemSingles, Singles, Plain2 DEF Names
<1>4. Plain(n, c)
  BY <1>1, Other, Plain1
<1>5. Plain(n, d)
  BY <1>1, SemSingles, Plain1
<1>6. Plain(n, e)
  BY <1>1, Singles, Plain1
<1>7. e[Len(e)] = <<"Die">>
  OBVIOUS
<1> HIDE DEF a, b, c, d, e
<1>8. Whole(n, e)
  BY <1>6, <1>7, PlainWhole DEF LastIn, Leaving, Handling
<1>9. /\ Part(n, a) /\ Part(n, b) /\ Part(n, c)
      /\ Part(n, d)
  BY <1>2, <1>3, <1>4, <1>5, PlainPart
<1>10. Part(n, a \o PrintMsg \o b \o PrintMsg \o c \o PrintMsg \o d \o PrintMsg)
  BY <1>9, PrintPart, PartCat
<1> QED BY <1>8, <1>10, WholeCat DEF P4cCode, a, b, c, d, e

LEMMA P5Whole == Whole("p5", P5Code)
<1> DEFINE n == "p5"
           a == << <<"Passup", "PGT">>, <<"Passup", "TLB">>,
                   <<"Passup", "SYSBP">> >>
           b == << <<"Trap", "PGT">> >>
<1>1. n \in Handling
  BY DEF Handling
<1>2. Plain(n, a)
  BY <1>1, Singles, Plain3 DEF TrapType
<1>3. Plain(n, b)
  BY <1>1, Singles, Plain1 DEF TrapType
<1>4. b[Len(b)] = <<"Trap", "PGT">>
  OBVIOUS
<1> HIDE DEF a, b
<1>5. Whole(n, b)
  BY <1>3, <1>4, PlainWhole DEF LastIn, Leaving
<1>6. Part(n, a)
  BY <1>2, PlainPart
<1>7. Part(n, PrintMsg \o a \o PrintMsg)
  BY <1>6, PrintPart, PartCat
<1> QED BY <1>5, <1>7, WholeCat DEF P5Code, a, b

LEMMA P5ProgWhole == Whole("p5prog", P5ProgCode)
<1> DEFINE n == "p5prog"
           a == << <<"Goto", "p5a", 1>> >>
<1>1. n \in Handling
  BY DEF Handling
<1>2. Plain(n, a)
  BY <1>1, GotoSingle, Plain1 DEF Targets, Handling
<1>3. a[Len(a)] = <<"Goto", "p5a", 1>>
  OBVIOUS
<1> HIDE DEF a
<1>4. Whole(n, a)
  BY <1>2, <1>3, PlainWhole DEF LastIn, Leaving
<1> QED BY <1>4, PrintPart, WholeCat DEF P5ProgCode, a

LEMMA P5aWhole == Whole("p5a", P5aCode)
<1> DEFINE n == "p5a"
           a == << <<"Trap", "TLB">> >>
<1>1. n \in Handling
  BY DEF Handling
<1>2. Plain(n, a)
  BY <1>1, Singles, Plain1 DEF TrapType
<1>3. a[Len(a)] = <<"Trap", "TLB">>
  OBVIOUS
<1> HIDE DEF a
<1>4. Whole(n, a)
  BY <1>2, <1>3, PlainWhole DEF LastIn, Leaving
<1> QED BY <1>4, PrintPart, WholeCat DEF P5aCode, a

LEMMA P5mmWhole == Whole("p5mm", P5mmCode)
<1> DEFINE n == "p5mm"
           a == << <<"Goto", "p5b", 1>> >>
<1>1. n \in Handling
  BY DEF Handling
<1>2. Plain(n, a)
  BY <1>1, GotoSingle, Plain1 DEF Targets, Handling
<1>3. a[Len(a)] = <<"Goto", "p5b", 1>>
  OBVIOUS
<1> HIDE DEF a
<1>4. Whole(n, a)
  BY <1>2, <1>3, PlainWhole DEF LastIn, Leaving
<1>5. Part(n, PrintMsg \o PrintMsg)
  BY PrintPart, PartCat
<1> QED BY <1>4, <1>5, WholeCat DEF P5mmCode, a

LEMMA P5sysWhole == Whole("p5sys", P5sysCode)
<1> DEFINE n == "p5sys"
           a == << <<"Goto", "p5b", 2>> >>
<1>1. n \in Handling
  BY DEF Handling
<1>2. Plain(n, a)
  BY <1>1, GotoSingle, Plain1 DEF Targets, Handling
<1>3. a[Len(a)] = <<"Goto", "p5b", 2>>
  OBVIOUS
<1> HIDE DEF a
<1>4. Whole(n, a)
  BY <1>2, <1>3, PlainWhole DEF LastIn, Leaving
<1>5. Part(n, PrintMsg \o PrintMsg)
  BY PrintPart, PartCat
<1> QED BY <1>4, <1>5, WholeCat DEF P5sysCode, a

LEMMA P5bWhole == Whole("p5b", P5bCode)
<1> DEFINE n == "p5b"
           a == << <<"Trap", "SYSBP">>, <<"P", "endp4">> >>
           b == << <<"V", "blkp4">>, <<"V", "endp5">> >>
           c == << <<"Again", "PGT">>, <<"Die">> >>
<1>1. n \in Handling
  BY DEF Handling
<1>2. Plain(n, a)
  BY <1>1, SemSingles, Singles, Plain2 DEF TrapType
<1>3. Plain(n, b)
  BY <1>1, SemSingles, Plain2
<1>4. Plain(n, c)
  BY <1>1, Singles, Plain2 DEF TrapType
<1>5. c[Len(c)] = <<"Die">>
  OBVIOUS
<1> HIDE DEF a, b, c
<1>6. Whole(n, c)
  BY <1>4, <1>5, PlainWhole DEF LastIn, Leaving
<1>7. Part(n, a) /\ Part(n, b)
  BY <1>2, <1>3, PlainPart
<1>8. Part(n, a \o HalfInterval \o b \o PrintMsg)
  BY <1>7, PrintPart, IntervalPart, PartCat
<1> QED BY <1>6, <1>8, WholeCat DEF P5bCode, a, b, c

LEMMA P6Whole == Whole("p6", P6Code)
<1> DEFINE n == "p6"
           a == << <<"Trap", "SYSBP">> >>
<1>1. n \notin Handling
  BY DEF Handling
<1>2. Plain(n, a)
  BY <1>1, Singles, Plain1 DEF TrapType
<1>3. a[Len(a)] = <<"Trap", "SYSBP">>
  OBVIOUS
<1> HIDE DEF a
<1>4. Whole(n, a)
  BY <1>2, <1>3, PlainWhole DEF LastIn, Leaving, Handling
<1> QED BY <1>4, PrintPart, WholeCat DEF P6Code, a

LEMMA P7Whole == Whole("p7", P7Code)
<1> DEFINE n == "p7"
           a == << <<"Trap", "PGT">> >>
<1>1. n \notin Handling
  BY DEF Handling
<1>2. Plain(n, a)
  BY <1>1, Singles, Plain1 DEF TrapType
<1>3. a[Len(a)] = <<"Trap", "PGT">>
  OBVIOUS
<1> HIDE DEF a
<1>4. Whole(n, a)
  BY <1>2, <1>3, PlainWhole DEF LastIn, Leaving, Handling
<1> QED BY <1>4, PrintPart, WholeCat DEF P7Code, a

LEMMA P8rootWhole == Whole("p8root", P8rootCode)
<1> DEFINE n == "p8root"
           a == << <<"P", "blkp8">>, <<"Create", "child1", "childpid">>,
                   <<"Create", "child2", "none">> >>
           b == << <<"P", "endcreate">> >>
           c == << <<"V", "blkp8">>, <<"V", "endp8">>, <<"Die">> >>
<1>1. n \notin Handling
  BY DEF Handling
<1>2. Plain(n, a)
  BY <1>1, SemSingles, Singles, Plain3 DEF Names
<1>3. Plain(n, b)
  BY <1>1, SemSingles, Plain1
<1>4. Plain(n, c)
  BY <1>1, SemSingles, Singles, Plain3
<1>5. c[Len(c)] = <<"Die">>
  OBVIOUS
<1> HIDE DEF a, b, c
<1>6. Whole(n, c)
  BY <1>4, <1>5, PlainWhole DEF LastIn, Leaving, Handling
<1>7. Part(n, a) /\ Part(n, Loop(4, b))
  BY <1>2, <1>3, PlainPart, LoopPart
<1>8. Part(n, PrintMsg \o a \o Loop(4, b))
  BY <1>7, PrintPart, PartCat
<1> QED BY <1>6, <1>8, WholeCat DEF P8rootCode, a, b, c

LEMMA Child1Whole == Whole("child1", Child1Code)
<1> DEFINE n == "child1"
           a == << <<"Tutor">>,
                   <<"Create", "intermediate", "intermediatepid">> >>
<1>1. n \notin Handling
  BY DEF Handling
<1>2. Plain(n, a)
  BY <1>1, Other, Singles, Plain2 DEF Names
<1> HIDE DEF a
<1>3. Whole(n, PassOn)
  BY <1>1, PassOnWhole
<1>4. Part(n, a)
  BY <1>2, PlainPart
<1>5. Part(n, PrintMsg \o a)
  BY <1>4, PrintPart, PartCat
<1> QED BY <1>3, <1>5, WholeCat DEF Child1Code, a

LEMMA IntermediateWhole == Whole("intermediate", IntermediateCode)
<1> DEFINE n == "intermediate"
           a == << <<"Create", "curiousleaf", "none">>,
                   <<"Create", "p8leaf", "none">>, <<"Clock">>,
                   <<"Clock">>, <<"Die">> >>
<1>1. n \notin Handling
  BY DEF Handling
<1>2. Plain(n, a)
  BY <1>1, Singles, Plain5 DEF Names
<1>3. a[Len(a)] = <<"Die">>
  OBVIOUS
<1> HIDE DEF a
<1>4. Whole(n, a)
  BY <1>2, <1>3, PlainWhole DEF LastIn, Leaving, Handling
<1> QED BY <1>4, PrintPart, WholeCat DEF IntermediateCode, a

LEMMA Child2Whole == Whole("child2", Child2Code)
<1> DEFINE n == "child2"
           a == << <<"Create", "p8leaf", "none">>, <<"Create", "p8leaf", "none">> >>
<1>1. n \notin Handling
  BY DEF Handling
<1>2. Plain(n, a)
  BY <1>1, Singles, Plain2 DEF Names
<1> HIDE DEF a
<1>3. Whole(n, PassOn)
  BY <1>1, PassOnWhole
<1>4. Part(n, a)
  BY <1>2, PlainPart
<1>5. Part(n, PrintMsg \o a)
  BY <1>4, PrintPart, PartCat
<1> QED BY <1>3, <1>5, WholeCat DEF Child2Code, a

LEMMA P8leafWhole == Whole("p8leaf", P8leafCode)
<1> DEFINE n == "p8leaf"
           a == << <<"V", "endcreate">> >>
<1>1. n \notin Handling
  BY DEF Handling
<1>2. Plain(n, a)
  BY <1>1, SemSingles, Plain1
<1> HIDE DEF a
<1>3. Whole(n, PassOn)
  BY <1>1, PassOnWhole
<1>4. Part(n, a)
  BY <1>2, PlainPart
<1>5. Part(n, PrintMsg \o a)
  BY <1>4, PrintPart, PartCat
<1> QED BY <1>3, <1>5, WholeCat DEF P8leafCode, a

LEMMA CuriousleafWhole == Whole("curiousleaf", CuriousleafCode)
<1> DEFINE n == "curiousleaf"
           a == << <<"Parent">>, <<"KillParent">>, <<"Parent">>,
                   <<"Judge", 15>> >>
           b == << <<"Clock">>, <<"Goto", "curiousleaf", 7>> >>
           c == << <<"V", "endcreate">> >>
<1>1. n \notin Handling
  BY DEF Handling
<1>2. Plain(n, a)
  BY <1>1, Other, Singles, Plain4
<1>3. Plain(n, b)
  BY <1>1, GotoSingle, Singles, Plain2 DEF Targets, Handling
<1>4. Plain(n, c)
  BY <1>1, SemSingles, Plain1
<1> HIDE DEF a, b, c
<1>5. Whole(n, PassOn)
  BY <1>1, PassOnWhole
<1>6. /\ Part(n, a) /\ Part(n, b) /\ Part(n, c)
  BY <1>2, <1>3, <1>4, PlainPart
<1>7. Part(n, PrintMsg \o a \o PrintMsg \o b \o PrintMsg \o c)
  BY <1>6, PrintPart, PartCat
<1> QED BY <1>5, <1>7, WholeCat DEF CuriousleafCode, a, b, c

LEMMA CodeWhole == \A n \in Names : Whole(n, Code[n])
<1>1. /\ Code["test"] = TestCode /\ Code["p2"] = P2Code /\ Code["p3"] = P3Code
      /\ Code["p4"] = P4Code /\ Code["p4a"] = P4aCode /\ Code["p4b"] = P4bCode
      /\ Code["p4c"] = P4cCode /\ Code["p5"] = P5Code /\ Code["p5prog"] = P5ProgCode
      /\ Code["p5a"] = P5aCode /\ Code["p5mm"] = P5mmCode
      /\ Code["p5sys"] = P5sysCode /\ Code["p5b"] = P5bCode
      /\ Code["p6"] = P6Code /\ Code["p7"] = P7Code /\ Code["p8root"] = P8rootCode
      /\ Code["child1"] = Child1Code /\ Code["intermediate"] = IntermediateCode
      /\ Code["child2"] = Child2Code /\ Code["p8leaf"] = P8leafCode
      /\ Code["curiousleaf"] = CuriousleafCode
  BY DEF Code
<1>2. ASSUME NEW n \in Handling PROVE Whole(n, Code[n])
  BY <1>1, P5Whole, P5ProgWhole, P5aWhole, P5mmWhole, P5sysWhole, P5bWhole
  DEF Handling
<1>3. ASSUME NEW n \in Names \ Handling PROVE Whole(n, Code[n])
  BY <1>1, TestWhole, P2Whole, P3Whole, P4Whole, P4aWhole, P4bWhole, P4cWhole,
     P6Whole, P7Whole, P8rootWhole, Child1Whole, IntermediateWhole, Child2Whole,
     P8leafWhole, CuriousleafWhole
  DEF Names
<1> QED BY <1>2, <1>3
-----------------------------------------------------------------------------
(* Where a process may be                                                  *)

Location == UNION {{<<n, i>> : i \in 1..Len(Code[n])} : n \in Names}

Op(loc)   == Code[loc[1]][loc[2]]
Succ(loc) == <<loc[1], loc[2] + 1>>

LEMMA LocationFacts ==
  ASSUME NEW loc \in Location
  PROVE  /\ loc[1] \in Names /\ loc[2] \in Nat /\ loc[2] \in 1..Len(Code[loc[1]])
         /\ loc = <<loc[1], loc[2]>> /\ Len(Code[loc[1]]) \in Nat
         /\ loc # Ended
<1>1. PICK n \in Names : \E i \in 1..Len(Code[n]) : loc = <<n, i>>
  BY DEF Location
<1>2. PICK i \in 1..Len(Code[n]) : loc = <<n, i>>
  BY <1>1
<1>3. Len(Code[n]) \in Nat /\ i \in Nat /\ i # 0
  BY CodeWhole DEF Whole, Part, Text
<1> QED BY <1>2, <1>3 DEF Ended

\* A process goes on behind its instruction, which fits its program.
LEMMA CodeFacts ==
  ASSUME NEW loc \in Location
  PROVE  /\ Fit(loc[1], Op(loc))
         /\ Op(loc)[1] \notin {"Die", "Trap", "Goto", "Switch"} => Succ(loc) \in Location
         /\ loc[1] \in Handling /\ Op(loc) = <<"Trap", "SYSBP">> => Succ(loc) \in Location
         /\ Succ(loc) \in Location => Follows(Op(loc), Op(Succ(loc)))
<1> DEFINE n == loc[1]
           i == loc[2]
           s == Code[n]
<1>1. n \in Names /\ i \in 1..Len(s) /\ Len(s) \in Nat /\ i \in Nat /\ Op(loc) = s[i]
  BY LocationFacts DEF Op
<1>2. Whole(n, s) /\ Part(n, s)
  BY <1>1, CodeWhole DEF Whole
<1>3. Succ(loc) = <<n, i + 1>> /\ Op(Succ(loc)) = s[i + 1]
  BY DEF Succ, Op
<1>4. i < Len(s) => Succ(loc) \in Location
  BY <1>1, <1>3 DEF Location
<1>5. Succ(loc) \in Location => i + 1 \in 1..Len(s)
  BY <1>3, LocationFacts
<1> HIDE DEF s, n, i
<1>6. Fit(n, s[i])
  BY <1>1, <1>2 DEF Part
<1>7. i = Len(s) => s[i][1] \in Leaving /\ (n \in Handling => s[i] # <<"Trap", "SYSBP">>)
  BY <1>2 DEF Whole
<1>8. i + 1 \in 1..Len(s) => Follows(s[i], s[i + 1])
  BY <1>1, <1>2 DEF Part
<1>9. i < Len(s) \/ i = Len(s)
  BY <1>1
<1>10. Leaving = {"Die", "Trap", "Goto", "Switch"}
  BY DEF Leaving
<1> QED BY <1>1, <1>3, <1>4, <1>5, <1>6, <1>7, <1>8, <1>9, <1>10 DEF n

LEMMA StartFacts ==
  ASSUME NEW n \in Names
  PROVE  Start(n) \in Location /\ Opens(Op(Start(n))) /\ Start(n)[1] = n
<1>1. Whole(n, Code[n])
  BY CodeWhole
<1>2. Len(Code[n]) \in Nat /\ Len(Code[n]) > 0 /\ Opens(Code[n][1])
  BY <1>1 DEF Whole, Part, Text
<1>3. 1 \in 1..Len(Code[n])
  BY <1>2
<1> QED BY <1>2, <1>3 DEF Start, Op, Location

\* The handlers of p5 are programs that p5 may go on with.
LEMMA HandlerFacts ==
  ASSUME NEW t \in TrapType
  PROVE  Handlers[t] \in Handling /\ Handlers[t] \in Names
BY DEF Handlers, TrapType, Handling, Names

\* The instructions p5b and curiousleaf are entered at.
LEMMA P5bSecond == Len(P5bCode) >= 2 /\ P5bCode[2] = <<"P", "endp4">>
<1> DEFINE a == << <<"Trap", "SYSBP">>, <<"P", "endp4">> >>
           b == << <<"V", "blkp4">>, <<"V", "endp5">> >>
           c == << <<"Again", "PGT">>, <<"Die">> >>
<1>1. Text(a) /\ Text(b) /\ Text(c) /\ Len(a) = 2 /\ a[2] = <<"P", "endp4">>
  BY DEF Text, Range
<1>2. Text(PrintMsg) /\ Text(HalfInterval)
  BY PrintPart, IntervalPart DEF Part
<1>3. P5bCode = a \o HalfInterval \o b \o PrintMsg \o c
  BY DEF P5bCode
<1> HIDE DEF a, b, c
<1>4. /\ Text(a \o HalfInterval) /\ Len(a \o HalfInterval) >= 2
      /\ (a \o HalfInterval)[2] = a[2]
  BY <1>1, <1>2, TextCat
<1> DEFINE u == a \o HalfInterval
           v == u \o b
           w == v \o PrintMsg
<1> HIDE DEF u, v, w
<1>5. Text(v) /\ Len(v) >= 2 /\ v[2] = u[2]
  BY <1>1, <1>4, TextCat DEF u, v
<1>6. Text(w) /\ Len(w) >= 2 /\ w[2] = v[2]
  BY <1>2, <1>5, TextCat DEF w
<1>7. Len(w \o c) >= 2 /\ (w \o c)[2] = w[2]
  BY <1>1, <1>6, TextCat
<1> QED BY <1>1, <1>3, <1>4, <1>5, <1>6, <1>7 DEF u, v, w

LEMMA PassOnText == Text(PassOn)
BY DEF PassOn, Text, Range

LEMMA CuriousleafEntries ==
  /\ Len(CuriousleafCode) >= 15
  /\ CuriousleafCode[7] = <<"Parent">> /\ CuriousleafCode[15] = <<"Lock">>
<1> DEFINE a == << <<"Parent">>, <<"KillParent">>, <<"Parent">>, <<"Judge", 15>> >>
           b == << <<"Clock">>, <<"Goto", "curiousleaf", 7>> >>
           c == << <<"V", "endcreate">> >>
<1>1. /\ Text(a) /\ Text(b) /\ Text(c)
      /\ Len(a) = 4 /\ Len(b) = 2 /\ a[3] = <<"Parent">>
  BY DEF Text, Range
<1>2. /\ Text(PrintMsg) /\ Text(PassOn)
      /\ Len(PrintMsg) = 4 /\ PrintMsg[1] = <<"Lock">>
  <2>1. Text(PrintMsg) /\ Text(PassOn)
    BY PrintPart, PassOnText DEF Part
  <2>2. Len(PrintMsg) = 4 /\ PrintMsg[1] = <<"Lock">>
    BY DEF PrintMsg
  <2> QED BY <2>1, <2>2
<1>3. CuriousleafCode = PrintMsg \o a \o PrintMsg \o b \o PrintMsg \o c \o PassOn
  BY DEF CuriousleafCode
<1> DEFINE u == PrintMsg \o a
           v == u \o PrintMsg
           w == v \o b
           x == w \o PrintMsg
           y == x \o c
<1> HIDE DEF a, b, c, u, v, w, x, y
<1>4. Text(u) /\ Len(u) = 8 /\ u[7] = <<"Parent">>
  <2>1. /\ Text(u) /\ Len(u) = Len(PrintMsg) + Len(a)
        /\ \A i \in 1..Len(PrintMsg) : u[i] = PrintMsg[i]
        /\ \A i \in 1..Len(a) : u[Len(PrintMsg) + i] = a[i]
    <3>1. Text(a) /\ Text(PrintMsg)
      BY <1>1, <1>2
    <3> QED BY <3>1, TextCat DEF u
  <2>2. u[Len(PrintMsg) + 3] = a[3]
    BY <1>1, <2>1
  <2> QED BY <1>1, <1>2, <2>1, <2>2
<1>5. Text(v) /\ Len(v) = 12 /\ v[7] = u[7]
  <2>1. /\ Text(v) /\ Len(v) = Len(u) + Len(PrintMsg)
        /\ \A i \in 1..Len(u) : v[i] = u[i]
        /\ \A i \in 1..Len(PrintMsg) : v[Len(u) + i] = PrintMsg[i]
    <3>1. Text(u) /\ Text(PrintMsg)
      BY <1>2, <1>4
    <3> QED BY <3>1, TextCat DEF v
  <2>2. 7 \in 1..Len(u)
    BY <1>4
  <2> QED BY <1>2, <1>4, <2>1, <2>2
<1>6. Text(w) /\ Len(w) = 14 /\ w[7] = v[7]
  <2>1. /\ Text(w) /\ Len(w) = Len(v) + Len(b)
        /\ \A i \in 1..Len(v) : w[i] = v[i]
        /\ \A i \in 1..Len(b) : w[Len(v) + i] = b[i]
    <3>1. Text(v) /\ Text(b)
      BY <1>1, <1>5
    <3> QED BY <3>1, TextCat DEF w
  <2>2. 7 \in 1..Len(v)
    BY <1>5
  <2> QED BY <1>1, <1>5, <2>1, <2>2
<1>7. Text(x) /\ Len(x) = 18 /\ x[7] = w[7] /\ x[15] = <<"Lock">>
  <2>1. /\ Text(x) /\ Len(x) = Len(w) + Len(PrintMsg)
        /\ \A i \in 1..Len(w) : x[i] = w[i]
        /\ \A i \in 1..Len(PrintMsg) : x[Len(w) + i] = PrintMsg[i]
    <3>1. Text(w) /\ Text(PrintMsg)
      BY <1>2, <1>6
    <3> QED BY <3>1, TextCat DEF x
  <2>2. 7 \in 1..Len(w)
    BY <1>6
  <2>3. x[Len(w) + 1] = PrintMsg[1]
    BY <1>2, <2>1
  <2> QED BY <1>2, <1>6, <2>1, <2>2, <2>3
<1>8. Text(y) /\ Len(y) >= 15 /\ y[7] = x[7] /\ y[15] = x[15]
  <2>1. /\ Text(y) /\ Len(y) = Len(x) + Len(c)
        /\ Len(x) \in Nat /\ Len(c) \in Nat
        /\ \A i \in 1..Len(x) : y[i] = x[i]
    <3>1. Text(x) /\ Text(c)
      BY <1>1, <1>7
    <3> QED BY <3>1, TextCat DEF y
  <2>2. 7 \in 1..Len(x) /\ 15 \in 1..Len(x)
    BY <1>7, <2>1
  <2> QED BY <1>7, <2>1, <2>2
<1>9. CuriousleafCode = y \o PassOn
  BY <1>3 DEF u, v, w, x, y
<1> HIDE DEF y
<1>10. Text(CuriousleafCode) /\ Len(CuriousleafCode) >= 15 /\ CuriousleafCode[7] = y[7] /\ CuriousleafCode[15] = y[15]
  <2>1. /\ Text(CuriousleafCode) /\ Len(CuriousleafCode) = Len(y) + Len(PassOn)
        /\ Len(y) \in Nat /\ Len(PassOn) \in Nat
        /\ \A i \in 1..Len(y) : CuriousleafCode[i] = y[i]
    BY <1>2, <1>8, <1>9, TextCat
  <2>2. 7 \in 1..Len(y) /\ 15 \in 1..Len(y)
    BY <1>8, <2>1
  <2> QED BY <1>8, <2>1, <2>2
<1> QED BY <1>4, <1>5, <1>6, <1>7, <1>8, <1>10

LEMMA TargetFacts ==
  ASSUME NEW loc \in Targets
  PROVE  loc \in Location /\ Opens(Op(loc))
<1>1. /\ Start("p5a") = <<"p5a", 1>> /\ Start("p5b") = <<"p5b", 1>>
      /\ Start("p4c") = <<"p4c", 1>>
  BY DEF Start
<1>2. CASE loc = <<"p5a", 1>> \/ loc = <<"p5b", 1>> \/ loc = <<"p4c", 1>>
  BY <1>1, <1>2, StartFacts DEF Names, Handling
<1>3. Code["p5b"] = P5bCode /\ Code["curiousleaf"] = CuriousleafCode
  BY DEF Code
<1>4. Len(P5bCode) \in Nat /\ Len(CuriousleafCode) \in Nat
  BY P5bWhole, CuriousleafWhole DEF Whole, Part, Text
<1>5. CASE loc = <<"p5b", 2>>
  <2>1. 2 \in 1..Len(Code["p5b"]) /\ Op(loc) = <<"P", "endp4">>
    BY <1>3, <1>4, <1>5, P5bSecond DEF Op
  <2>2. loc \in Location
    BY <1>5, <2>1 DEF Location, Names, Handling
  <2> QED BY <2>1, <2>2 DEF Opens, Section
<1>6. CASE loc = <<"curiousleaf", 7>> \/ loc = <<"curiousleaf", 15>>
  <2>1. /\ loc[2] \in 1..Len(Code["curiousleaf"])
        /\ Op(loc) \in {<<"Parent">>, <<"Lock">>}
    <3>1. 7 \in 1..Len(CuriousleafCode) /\ 15 \in 1..Len(CuriousleafCode)
      BY <1>4, CuriousleafEntries
    <3>2. CASE loc = <<"curiousleaf", 7>>
      BY <1>3, <3>1, <3>2, CuriousleafEntries DEF Op
    <3>3. CASE loc = <<"curiousleaf", 15>>
      BY <1>3, <3>1, <3>3, CuriousleafEntries DEF Op
    <3> QED BY <1>6, <3>2, <3>3
  <2>2. loc \in Location
    BY <1>6, <2>1 DEF Location, Names
  <2> QED BY <2>1, <2>2 DEF Opens, Section
<1> QED BY <1>2, <1>5, <1>6 DEF Targets

\* What the process at loc is about to do with the terminal, and holding
\* term_mut, if it does not wait for it.
Kind(loc) ==
  IF loc = Ended THEN "out"
  ELSE IF Op(loc)[1] = "IO" THEN "io"
  ELSE IF Op(loc)[1] = "Next" THEN "next"
  ELSE IF Op(loc) = <<"V", Mutex>> THEN "unlock"
  ELSE "out"

\* print() takes term_mut, starts the output, takes the answer and lets
\* term_mut go, in this order and without a way in or out.
LEMMA KindFacts ==
  ASSUME NEW loc \in Location
  PROVE  /\ Opens(Op(loc)) => Kind(loc) = "out"
         /\ Succ(loc) \in Location =>
              Kind(Succ(loc)) = IF Op(loc)[1] = "Lock" THEN "io"
                                ELSE IF Op(loc)[1] = "IO" THEN "next"
                                ELSE IF Op(loc)[1] = "Next" THEN "unlock"
                                ELSE "out"
<1>1. loc # Ended
  BY LocationFacts
<1>2. Opens(Op(loc)) => Kind(loc) = "out"
  BY <1>1 DEF Kind, Opens, Section
<1>3. ASSUME Succ(loc) \in Location
      PROVE  Kind(Succ(loc)) = IF Op(loc)[1] = "Lock" THEN "io"
                               ELSE IF Op(loc)[1] = "IO" THEN "next"
                               ELSE IF Op(loc)[1] = "Next" THEN "unlock"
                               ELSE "out"
  <2>1. PICK x, y : x = Op(loc) /\ y = Op(Succ(loc))
    OBVIOUS
  <2>2. Follows(x, y) /\ Succ(loc) # Ended
    BY <1>3, <2>1, CodeFacts, LocationFacts
  <2>3. Kind(Succ(loc)) = IF y[1] = "IO" THEN "io"
                          ELSE IF y[1] = "Next" THEN "next"
                          ELSE IF y = <<"V", Mutex>> THEN "unlock" ELSE "out"
    BY <2>1, <2>2 DEF Kind
  <2>4. y = <<"V", Mutex>> => y[1] = "V"
    OBVIOUS
  <2> QED BY <2>1, <2>2, <2>3, <2>4 DEF Follows
<1> QED BY <1>2, <1>3

\* A loop that waits for half a clock interval may end after one tick.
LEMMA MaybeFacts ==
  ASSUME NEW loc \in Location, Op(loc)[1] = "Maybe"
  PROVE  LET over == <<loc[1], loc[2] + 2>> IN
         over \in Location /\ Kind(over) = "out"
<1>1. Succ(loc) \in Location
  BY CodeFacts
<1>2. Op(Succ(loc))[1] = "Clock"
  BY <1>1, CodeFacts DEF Follows
<1>3. Succ(Succ(loc)) \in Location
  BY <1>1, <1>2, CodeFacts
<1>4. Kind(Succ(Succ(loc))) = "out"
  BY <1>1, <1>2, <1>3, KindFacts
<1>5. Succ(Succ(loc)) = <<loc[1], loc[2] + 2>>
  BY LocationFacts DEF Succ
<1> QED BY <1>3, <1>4, <1>5

\* A loop begins again with an instruction outside print().
LEMMA UntilFacts ==
  ASSUME NEW loc \in Location, Op(loc)[1] = "Until"
  PROVE  LET back == <<loc[1], loc[2] - Op(loc)[3]>> IN
         back \in Location /\ Kind(back) = "out"
<1> DEFINE n == loc[1]
           i == loc[2]
           s == Code[n]
           k == i - s[i][3]
           back == <<n, k>>
<1>1. n \in Names /\ i \in 1..Len(s) /\ Op(loc) = s[i]
  BY LocationFacts DEF Op
<1>2. Returning(s)
  BY <1>1, CodeWhole DEF Whole, Part
<1>3. k \in 1..Len(s) /\ Opens(s[k])
  BY <1>1, <1>2 DEF Returning
<1>4. back \in Location /\ Op(back) = s[k]
  BY <1>1, <1>3 DEF Location, Op
<1> HIDE DEF back
<1>5. Kind(back) = "out"
  BY <1>3, <1>4, KindFacts
<1> QED BY <1>1, <1>4, <1>5 DEF back
-----------------------------------------------------------------------------
(* The inductive invariant                                                 *)

Live == Able \cup Blocked

Located ==
  /\ pc \in [Pcb -> Location \cup {Ended}]
  /\ saved \in [Pcb -> Location \cup {Ended}]
  /\ sent \in [Pcb -> BOOLEAN] /\ got \in [Pcb -> Pcb \cup {NoChar}]
  /\ \A p \in Pcb : pc[p] = Ended <=> saved[p] = Ended

\* Exactly the processes that run, are ready or wait have a program left.
Placed ==
  /\ \A p \in Live : pc[p] # Ended
  /\ \A p \in Free : pc[p] = Ended

\* Only p5 has handlers, and neither children nor the duties of a tutor.
Programs ==
  \A p \in Pcb : pc[p] # Ended =>
    /\ pc[p][1] \in Handling <=> saved[p][1] \in Handling
    /\ pc[p][1] \in Handling => ~tutor[p] /\ child[p] = {}
    /\ passup[p] # {} => pc[p][1] \in Handling

\* A time slice takes a process back only within print(), behind SYS6.
Resumes ==
  \A p \in Pcb :
    \/ Kind(saved[p]) = Kind(pc[p])
    \/ Kind(saved[p]) = "next" /\ Kind(pc[p]) = "unlock"

Holder(p) == Kind(pc[p]) # "out" /\ p \notin Waiting(Mutex)

\* At most one process is inside print().  The transmitter is READY unless
\* that process waits for it or has just been woken, and it stays taken when
\* that process is terminated there.
Exclusive ==
  /\ sem[Mutex] <= 1
  /\ \A p \in Waiting(Mutex) : Kind(pc[p]) = "io"
  /\ \A p \in Waiting(TermT) : Kind(pc[p]) = "next"
  /\ \A p, q \in Pcb : Holder(p) /\ Holder(q) => p = q
  /\ \A p \in Pcb : Holder(p) => sem[Mutex] <= 0
  /\ status # "ready" =>
       /\ sem[Mutex] <= 0
       /\ \A p \in Pcb : Holder(p) =>
            Kind(pc[p]) = "next" /\ (p \in Waiting(TermT) \/ cpu = "terminal")

\* The answer a process has got is its own, and it has not used it.
Answered ==
  \A p \in Pcb :
    /\ Kind(pc[p]) \in {"next", "unlock"} => p \in Waiting(TermT) \/ got[p] = p
    /\ Kind(pc[p]) \in {"io", "next"} => (sent[p] => SliceAnywhere)

TestInv ==
  /\ Located /\ Programs /\ Resumes
  /\ Intact => Placed /\ Exclusive /\ Answered

LEMMA MutexFacts ==
  Mutex \in UserSem /\ Mutex \in Sem /\ Mutex # TermT /\ Mutex # Clock
BY P2TestAssumption, TermFacts, NucleusAssumption, ConstantFacts DEF Mutex

\* The running process and its instruction.
LEMMA RunsProgram ==
  ASSUME IoInv, TestInv, cpu = "running"
  PROVE  /\ Intact /\ curr \in Pcb /\ curr \in Live
         /\ curr \notin Waiting(Mutex) /\ curr \notin Waiting(TermT)
         /\ pc[curr] \in Location /\ saved[curr] \in Location
         /\ Instr = Op(pc[curr]) /\ After = Succ(pc[curr])
         /\ Fit(pc[curr][1], Instr)
         /\ pc[curr][1] \in Handling => ~tutor[curr] /\ child[curr] = {}
         /\ passup[curr] # {} => pc[curr][1] \in Handling
         /\ pc[curr][1] \in Handling <=> saved[curr][1] \in Handling
<1>1. /\ Intact /\ curr \in Pcb /\ curr \notin Waiting(Mutex) /\ curr \notin Waiting(TermT)
  BY RunningFacts, MutexFacts, TermFacts DEF IoInv
<1>2. curr \in Live
  BY <1>1, ConstantFacts, AbleFacts DEF Live, IoInv
<1>3. pc[curr] # Ended
  BY <1>1, <1>2 DEF TestInv, Placed
<1>4. pc[curr] \in Location /\ saved[curr] \in Location
  BY <1>1, <1>3 DEF TestInv, Located
<1>5. Fit(pc[curr][1], Op(pc[curr]))
  BY <1>4, CodeFacts
<1> QED BY <1>1, <1>2, <1>3, <1>4, <1>5 DEF TestInv, Programs, Instr, After, Op, Succ
-----------------------------------------------------------------------------
(* The test is a use of the nucleus and of its device                      *)

\* A process about to call SYS6 in print() holds term_mut, and the
\* transmitter is READY.
LEMMA FindsReady ==
  ASSUME IoInv, TestInv, cpu = "running", Kind(pc[curr]) = "io"
  PROVE  status = "ready"
<1>1. Holder(curr) /\ curr \in Pcb /\ Intact
  BY RunsProgram DEF Holder
<1>2. status # "ready" => Kind(pc[curr]) = "next"
  BY <1>1 DEF TestInv, Exclusive
<1> QED BY <1>2

LEMMA RunIsIoStep ==
  ASSUME IoInv, TestInv, Run
  PROVE  [IoNext]_<<vars, ioVars>>
<1> DEFINE Goal == [IoNext]_<<vars, ioVars>>
<1> SUFFICES Goal
  OBVIOUS
<1>1. ASSUME Next, Quiet PROVE Goal
  BY <1>1 DEF IoNext, NucleusStep
<1>2. ASSUME NoEffect PROVE Goal
  BY <1>2 DEF NoEffect
<1>3. ASSUME cpu = "running"
      PROVE  Fit(pc[curr][1], Instr) /\ curr \in Pcb /\ pc[curr] \in Location
             /\ Instr = Op(pc[curr])
  BY <1>3, RunsProgram
<1>4. ASSUME LockCall PROVE Goal
  <2>1. Passeren(Mutex) /\ Quiet
    BY <1>4 DEF LockCall, Mutex
  <2>2. Next
    BY <2>1, MutexFacts DEF Next
  <2> QED BY <1>1, <2>1, <2>2
<1>5. ASSUME IOCall PROVE Goal
  <2>1. cpu = "running" /\ Instr[1] = "IO" /\ WaitIO
    BY <1>5 DEF IOCall, Is, Serving
  <2>2. Kind(pc[curr]) = "io"
    BY <1>3, <2>1, LocationFacts DEF Kind
  <2>3. status = "ready"
    BY <2>1, <2>2, FindsReady
  <2> QED BY <2>1, <2>3 DEF IoNext, PrintIO
<1>6. ASSUME NextChar \/ ResultCall \/ Compute PROVE Goal
  BY <1>2, <1>6 DEF NextChar, ResultCall, Compute
<1>7. ASSUME SemCall PROVE Goal
  <2>1. cpu = "running" /\ Quiet
    BY <1>7 DEF SemCall, Is, Serving
  <2>2. /\ Instr[1] = "P" => Instr[2] \in UserSem
        /\ Instr[1] = "V" => Instr[2] \in UserSem
        /\ Instr[1] = "Passup" => Instr[2] \in PassupTypes
    BY <1>3, <2>1, P2TestAssumption DEF Fit
  <2>3. Next
    BY <1>7, <2>2 DEF SemCall, Is, Next
  <2> QED BY <1>1, <2>1, <2>3
<1>8. ASSUME CreateCall PROVE Goal
  <2>1. NoEffect \/ (CreateProcess(RootPriority, FALSE) /\ Quiet)
    BY <1>8 DEF CreateCall
  <2>2. CreateProcess(RootPriority, FALSE) => Next
    BY P2TestAssumption DEF Next
  <2> QED BY <1>1, <1>2, <2>1, <2>2
<1>9. ASSUME Die PROVE Goal
  BY <1>1, <1>9 DEF Die, Next
<1>10. ASSUME KillCall PROVE Goal
  <2>1. PICK q \in Pcb :
          \/ (TerminateBlocked(q) \/ TerminateReady(q) \/ TerminateParent(q)) /\ Quiet
          \/ NoEffect
    BY <1>10 DEF KillCall
  <2> QED BY <1>1, <1>2, <2>1 DEF Next
<1>11. ASSUME TrapInstr PROVE Goal
  <2>1. cpu = "running" /\ Instr[1] = "Trap"
    BY <1>11 DEF TrapInstr, Is, Serving
  <2>2. Instr[2] \in TrapType
    BY <1>3, <2>1 DEF Fit
  <2>3. NoEffect \/ (Trap(Instr[2]) /\ Quiet)
    BY <1>11 DEF TrapInstr
  <2> QED BY <1>1, <1>2, <2>2, <2>3 DEF Next
<1> HIDE DEF Goal
<1> QED
  BY <1>4, <1>5, <1>6, <1>7, <1>8, <1>9, <1>10, <1>11 DEF Run

\* Whatever the test does is a step of DevIO or none.
LEMMA TestIsIoStep ==
  ASSUME IoInv, TestInv, [P2Next]_p2Vars
  PROVE  [IoNext]_<<vars, ioVars>>
<1>1. CASE Run
  BY <1>1, RunIsIoStep
<1>2. CASE EndOfSlice \/ Ticking
  <2>1. Next /\ Quiet
    BY <1>2 DEF EndOfSlice, Ticking, Next
  <2> QED BY <2>1 DEF IoNext, NucleusStep
<1>3. CASE Transmitting \/ Completed
  BY <1>3 DEF Transmitting, Completed, IoNext
<1>4. CASE Stopped \/ UNCHANGED p2Vars
  BY <1>4 DEF Stopped, p2Vars
<1> QED BY <1>1, <1>2, <1>3, <1>4 DEF P2Next
-----------------------------------------------------------------------------
(* Who comes, who goes, and term_mut                                       *)

\* The processes of gone end, those of new start ...
Population(gone, new) ==
  /\ Live' \subseteq (Live \cup new) \ gone
  /\ Free' \subseteq (Free \cup gone) \ new

\* ... and nothing else changes at term_mut and at the transmitter.
Moves(gone, new) ==
  /\ Population(gone, new)
  /\ Waiting(Mutex)' = Waiting(Mutex) \ gone
  /\ Waiting(TermT)' = Waiting(TermT) \ gone
  /\ sem'[Mutex] = sem[Mutex] \/ sem'[Mutex] <= 0

LEMMA StaysMoves ==
  ASSUME Free' = Free, Able' = Able, UNCHANGED <<asl, sem>>
  PROVE  Moves({}, {})
<1>1. Blocked' = Blocked /\ \A k \in Sem : Waiting(k)' = Waiting(k)
  BY DEF Blocked, Waiting
<1>2. Live' = Live
  BY <1>1 DEF Live
<1> QED BY <1>1, <1>2, MutexFacts, TermFacts DEF Moves, Population

\* A process that ends without waiting anywhere.
LEMMA EndsMoves ==
  ASSUME IInv, Intact, NEW p \in Pcb, Ends(p) \/ (p = Root /\ Drops)
  PROVE  Moves({p}, {})
<1>1. /\ p \in Able /\ Able' = Able \ {p} /\ SameQueues
      /\ Free' \subseteq Free \cup {p}
  BY DEF Ends, Drops
<1>2. Blocked' = Blocked /\ \A k \in Sem : Waiting(k)' = Waiting(k)
  BY <1>1, SameQueuesEffect
<1>3. p \notin Blocked /\ \A k \in Sem : p \notin Waiting(k)
  BY <1>1, PlacesDisjoint, AbleFacts
<1>4. Live' \subseteq Live \ {p}
  BY <1>1, <1>2, <1>3 DEF Live
<1>5. sem' = sem
  BY <1>1 DEF SameQueues
<1> QED BY <1>1, <1>2, <1>3, <1>4, <1>5, MutexFacts, TermFacts DEF Moves, Population

LEMMA StartsMoves ==
  ASSUME IInv, NEW p \in Pcb, Starts(p)
  PROVE  Moves({}, {p})
<1>1. /\ Able' = Able \cup {p} /\ SameQueues /\ Free' = Free \ {p}
  BY DEF Starts
<1>2. Blocked' = Blocked /\ \A k \in Sem : Waiting(k)' = Waiting(k)
  BY <1>1, SameQueuesEffect
<1>3. Live' \subseteq Live \cup {p}
  BY <1>1, <1>2 DEF Live
<1>4. sem' = sem
  BY <1>1 DEF SameQueues
<1> QED BY <1>1, <1>2, <1>3, <1>4, MutexFacts, TermFacts DEF Moves, Population

\* A process that is terminated where it waits, at term_mut too: then the
\* unit it asked for goes to nobody.
LEMMA LeavesMoves ==
  ASSUME IInv, Intact, SemCountsWaiters, NEW q \in Pcb, NEW k \in Sem, LeavesQueue(q, k)
  PROVE  Moves({q}, {})
<1>1. /\ q \in Waiting(k) /\ Able' = Able /\ Free' = Free \cup {q}
      /\ sem' = [sem EXCEPT ![k] = @ + 1]
  BY DEF LeavesQueue
<1>2. Blocked' = Blocked \ {q} /\ \A l \in Sem : Waiting(l)' = Waiting(l) \ {q}
  BY LeavesQueueEffect
<1>3. q \notin Able
  BY <1>1, AbleFacts
<1>4. Live' = Live \ {q}
  BY <1>1, <1>2, <1>3 DEF Live
<1>5. sem'[Mutex] = sem[Mutex] \/ sem'[Mutex] <= 0
  <2>1. sem \in [Sem -> Int] /\ asl[k] \in Seq(Pcb)
    BY PlaceFacts DEF IInv, FieldsOK
  <2>2. Len(asl[k]) > 0
    BY <1>1, <2>1, EmptyRange DEF Waiting, Range
  <2>3. Len(asl[k]) = IF sem[k] < 0 THEN -sem[k] ELSE 0
    BY DEF SemCountsWaiters
  <2>4. sem[k] < 0
    BY <2>2, <2>3
  <2>5. CASE k = Mutex
    BY <1>1, <2>1, <2>4, <2>5, MutexFacts
  <2>6. CASE k # Mutex
    BY <1>1, <2>1, <2>6, MutexFacts
  <2> QED BY <2>5, <2>6
<1> QED BY <1>1, <1>2, <1>4, <1>5, MutexFacts, TermFacts DEF Moves, Population

\* P and V end nobody: who waits is alive, and who is woken was.
LEMMA SemPopulation ==
  ASSUME IInv, Intact, CountInv, NEW k \in Sem,
         Signals(k) \/ Wakes(k) \/ Passes(k) \/ Blocks(k)
  PROVE  Population({}, {})
<1>1. Free' = Free
  BY DEF Signals, Wakes, Passes, Blocks
<1>2. CASE Signals(k) \/ Passes(k)
  BY <1>1, <1>2 DEF Signals, Passes, Live, Blocked, Waiting, Population
<1>3. CASE Wakes(k)
  <2>1. PICK h : h = Head(asl[k])
    OBVIOUS
  <2>2. h \in Blocked /\ Blocked' = Blocked \ {h}
    BY <1>3, <2>1, WakesEffect
  <2>3. Able' = Able \cup {h}
    BY <1>3, <2>1, WakesOwes DEF CountInv
  <2> QED BY <1>1, <2>2, <2>3 DEF Live, Population
<1>4. CASE Blocks(k)
  <2>1. curr \in Able /\ Blocked' = Blocked \cup {curr}
    BY <1>4, BlocksEffect
  <2>2. Able' = Able \ {curr}
    BY <1>4 DEF Blocks
  <2> QED BY <1>1, <2>1, <2>2 DEF Live, Population
<1> QED BY <1>2, <1>3, <1>4

\* They change nothing at the other semaphores.
LEMMA OtherSemKept ==
  ASSUME IInv, Intact, NEW k \in Sem, NEW l \in Sem \ {k},
         Signals(k) \/ Wakes(k) \/ Passes(k) \/ Blocks(k)
  PROVE  asl'[l] = asl[l] /\ Waiting(l)' = Waiting(l) /\ sem'[l] = sem[l]
<1>1. sem'[l] = sem[l]
  BY DEF IInv, FieldsOK, Signals, Wakes, Passes, Blocks
<1>2. asl'[l] = asl[l]
  BY WakesEffect, BlocksEffect DEF Signals, Passes
<1> QED BY <1>1, <1>2 DEF Waiting

LEMMA OtherSemMoves ==
  ASSUME IInv, Intact, CountInv, NEW k \in Sem \ {Mutex, TermT},
         Signals(k) \/ Wakes(k) \/ Passes(k) \/ Blocks(k)
  PROVE  Moves({}, {})
<1>1. Mutex \in Sem \ {k} /\ TermT \in Sem \ {k}
  BY MutexFacts, TermFacts
<1> QED BY <1>1, SemPopulation, OtherSemKept DEF Moves

KindsKept(gone) ==
  \A p \in Pcb :
    \/ p \in gone /\ Kind(pc'[p]) = "out"
    \/ p \notin gone /\ Kind(pc'[p]) = Kind(pc[p])
    \/ /\ p \notin gone /\ SliceAnywhere
       /\ Kind(pc[p]) = "unlock" /\ Kind(pc'[p]) = "next"

LEMMA ExclusiveKept ==
  ASSUME Exclusive, NEW gone, NEW new, Moves(gone, new), KindsKept(gone),
         IInv, IInv',
         \/ status' = "ready"
         \/ status # "ready" /\ (cpu = "terminal" => cpu' = "terminal")
  PROVE  Exclusive'
<1>1. /\ Waiting(Mutex)' = Waiting(Mutex) \ gone
      /\ Waiting(TermT)' = Waiting(TermT) \ gone
      /\ sem'[Mutex] = sem[Mutex] \/ sem'[Mutex] <= 0
  BY DEF Moves
<1>2. /\ sem[Mutex] \in Int /\ sem'[Mutex] \in Int
      /\ Waiting(Mutex) \subseteq Pcb /\ Waiting(TermT) \subseteq Pcb
  <2>1. sem[Mutex] \in Int /\ sem'[Mutex] \in Int
    BY MutexFacts DEF IInv, FieldsOK
  <2> QED BY <2>1, PlaceFacts, MutexFacts, TermFacts DEF IInv
<1>3. (sem[Mutex] <= 1 => sem'[Mutex] <= 1) /\ (sem[Mutex] <= 0 => sem'[Mutex] <= 0)
  BY <1>1, <1>2
<1>4. ASSUME NEW p \in Pcb, Holder(p)'
      PROVE  /\ Holder(p) /\ p \notin gone
             /\ Kind(pc[p]) = "next" => Kind(pc'[p]) = "next"
  <2>1. Kind(pc'[p]) # "out" /\ p \notin Waiting(Mutex)'
    BY <1>4 DEF Holder
  <2>2. p \notin gone /\ Kind(pc[p]) # "out" /\ (Kind(pc[p]) = "next" => Kind(pc'[p]) = "next")
    BY <2>1 DEF KindsKept
  <2> QED BY <1>1, <2>1, <2>2 DEF Holder
<1>5. \A p \in Waiting(Mutex)' : Kind(pc'[p]) = "io"
  BY <1>1, <1>2 DEF KindsKept, Exclusive
<1>6. \A p \in Waiting(TermT)' : Kind(pc'[p]) = "next"
  BY <1>1, <1>2 DEF KindsKept, Exclusive
<1>7. \A p, q \in Pcb : Holder(p)' /\ Holder(q)' => p = q
  BY <1>4 DEF Exclusive
<1>8. \A p \in Pcb : Holder(p)' => sem'[Mutex] <= 0
  BY <1>3, <1>4 DEF Exclusive
<1>9. ASSUME status' # "ready"
      PROVE  /\ sem'[Mutex] <= 0
             /\ \A p \in Pcb : Holder(p)' =>
                  Kind(pc'[p]) = "next" /\ (p \in Waiting(TermT)' \/ cpu' = "terminal")
  <2>1. status # "ready" /\ (cpu = "terminal" => cpu' = "terminal")
    BY <1>9
  <2>2. sem'[Mutex] <= 0
    BY <1>3, <2>1 DEF Exclusive
  <2>3. ASSUME NEW p \in Pcb, Holder(p)'
        PROVE  Kind(pc'[p]) = "next" /\ (p \in Waiting(TermT)' \/ cpu' = "terminal")
    BY <1>1, <1>4, <2>1, <2>3 DEF Exclusive
  <2> QED BY <2>2, <2>3
<1>10. sem'[Mutex] <= 1
  BY <1>3 DEF Exclusive
<1> QED BY <1>5, <1>6, <1>7, <1>8, <1>9, <1>10 DEF Exclusive

LEMMA AnsweredKept ==
  ASSUME Exclusive, Answered, NEW gone, NEW new, Moves(gone, new), KindsKept(gone),
         \A p \in Pcb : p \in gone \/ (got'[p] = got[p] /\ sent'[p] = sent[p])
  PROVE  Answered'
<1>1. Waiting(TermT)' = Waiting(TermT) \ gone
  BY DEF Moves
<1>2. ASSUME NEW p \in Pcb
      PROVE  /\ Kind(pc'[p]) \in {"next", "unlock"} => p \in Waiting(TermT)' \/ got'[p] = p
             /\ Kind(pc'[p]) \in {"io", "next"} => (sent'[p] => SliceAnywhere)
  <2>1. CASE p \in gone
    BY <2>1 DEF KindsKept
  <2>2. CASE p \notin gone
    <3>1. got'[p] = got[p] /\ sent'[p] = sent[p]
      BY <2>2
    <3>2. /\ Kind(pc[p]) \in {"next", "unlock"} => p \in Waiting(TermT) \/ got[p] = p
          /\ Kind(pc[p]) \in {"io", "next"} => (sent[p] => SliceAnywhere)
      BY DEF Answered
    <3> QED BY <1>1, <2>2, <3>1, <3>2 DEF KindsKept
  <2> QED BY <2>1, <2>2
<1> QED BY <1>2 DEF Answered

LEMMA PlacedKept ==
  ASSUME Placed, IInv, IInv', NEW gone, NEW new, Population(gone, new),
         \A p \in gone : pc'[p] = Ended,
         \A p \in new : pc'[p] # Ended,
         \A p \in Pcb \ (gone \cup new) : pc'[p] = Ended <=> pc[p] = Ended
  PROVE  Placed'
<1>1. Live \subseteq Pcb /\ Free \subseteq Pcb /\ Live' \subseteq Pcb /\ Free' \subseteq Pcb
  <2>1. Live \subseteq Pcb /\ Free \subseteq Pcb
    BY AbleFacts, PlaceFacts DEF Live, IInv
  <2>2. ASSUME IInv' PROVE Live' \subseteq Pcb /\ Free' \subseteq Pcb
    <3>1. FieldsOK'
      BY <2>2 DEF IInv
    <3> QED BY <3>1 DEF FieldsOK, Live, Able, Blocked, Free, Ready, Waiting, Range
  <2> QED BY <2>1, <2>2
<1>2. ASSUME NEW p \in Live' PROVE pc'[p] # Ended
  BY <1>1 DEF Population, Placed
<1>3. ASSUME NEW p \in Free' PROVE pc'[p] = Ended
  BY <1>1 DEF Population, Placed
<1> QED BY <1>2, <1>3 DEF Placed
-----------------------------------------------------------------------------
(* What a step does to the program of each process                         *)

Rests(p) ==
  /\ pc'[p] = pc[p] /\ saved'[p] = saved[p]
  /\ tutor'[p] = tutor[p] /\ passup'[p] = passup[p]
  /\ child[p] = {} /\ ~tutor[p] => child'[p] = {}

GoesOn(p) ==
  /\ pc[p] \in Location /\ pc'[p] \in Location /\ saved'[p] \in Location
  /\ \/ Kind(saved'[p]) = Kind(pc'[p])
     \/ Kind(saved'[p]) = "next" /\ Kind(pc'[p]) = "unlock"
  /\ pc'[p][1] \in Handling <=> saved'[p][1] \in Handling
  /\ pc'[p][1] \in Handling => ~tutor'[p] /\ child'[p] = {}
  /\ passup'[p] # {} => pc'[p][1] \in Handling

Begins(p) ==
  /\ pc[p] = Ended
  /\ \E n \in Names : pc'[p] = Start(n) /\ saved'[p] = Start(n)
  /\ ~tutor'[p] /\ child'[p] = {} /\ passup'[p] = {}

Fate(p, gone, new) ==
  \/ p \in gone /\ pc'[p] = Ended /\ saved'[p] = Ended
  \/ p \in new \ gone /\ Begins(p)
  \/ p \notin gone \cup new /\ (Rests(p) \/ GoesOn(p))

Typed ==
  /\ pc \in [Pcb -> Location \cup {Ended}]
  /\ saved \in [Pcb -> Location \cup {Ended}]
  /\ sent \in [Pcb -> BOOLEAN] /\ got \in [Pcb -> Pcb \cup {NoChar}]

LEMMA FateFacts ==
  ASSUME TestInv, NEW gone, NEW new, NEW p \in Pcb, Fate(p, gone, new)
  PROVE  /\ pc'[p] = Ended <=> saved'[p] = Ended
         /\ p \in gone => pc'[p] = Ended
         /\ p \in new \ gone => pc'[p] # Ended
         /\ p \notin gone \cup new => (pc'[p] = Ended <=> pc[p] = Ended)
         /\ pc'[p] # Ended =>
              /\ pc'[p][1] \in Handling <=> saved'[p][1] \in Handling
              /\ pc'[p][1] \in Handling => ~tutor'[p] /\ child'[p] = {}
              /\ passup'[p] # {} => pc'[p][1] \in Handling
         /\ \/ Kind(saved'[p]) = Kind(pc'[p])
            \/ Kind(saved'[p]) = "next" /\ Kind(pc'[p]) = "unlock"
<1> DEFINE Goal ==
         /\ pc'[p] = Ended <=> saved'[p] = Ended
         /\ p \in gone => pc'[p] = Ended
         /\ p \in new \ gone => pc'[p] # Ended
         /\ p \notin gone \cup new => (pc'[p] = Ended <=> pc[p] = Ended)
         /\ pc'[p] # Ended =>
              /\ pc'[p][1] \in Handling <=> saved'[p][1] \in Handling
              /\ pc'[p][1] \in Handling => ~tutor'[p] /\ child'[p] = {}
              /\ passup'[p] # {} => pc'[p][1] \in Handling
         /\ \/ Kind(saved'[p]) = Kind(pc'[p])
            \/ Kind(saved'[p]) = "next" /\ Kind(pc'[p]) = "unlock"
<1> SUFFICES Goal
  OBVIOUS
<1>1. CASE p \in gone /\ pc'[p] = Ended /\ saved'[p] = Ended
  BY <1>1
<1>2. CASE p \in new \ gone /\ Begins(p)
  <2>1. PICK n \in Names : pc'[p] = Start(n) /\ saved'[p] = Start(n)
    BY <1>2 DEF Begins
  <2>2. Start(n) # Ended
    BY StartFacts, LocationFacts
  <2> QED BY <1>2, <2>1, <2>2 DEF Begins
<1>3. CASE p \notin gone \cup new /\ Rests(p)
  <2>1. /\ pc[p] = Ended <=> saved[p] = Ended
        /\ pc[p] # Ended =>
             /\ pc[p][1] \in Handling <=> saved[p][1] \in Handling
             /\ pc[p][1] \in Handling => ~tutor[p] /\ child[p] = {}
             /\ passup[p] # {} => pc[p][1] \in Handling
        /\ \/ Kind(saved[p]) = Kind(pc[p])
           \/ Kind(saved[p]) = "next" /\ Kind(pc[p]) = "unlock"
    BY DEF TestInv, Located, Programs, Resumes
  <2> QED BY <1>3, <2>1 DEF Rests
<1>4. CASE p \notin gone \cup new /\ GoesOn(p)
  <2>1. pc[p] # Ended /\ pc'[p] # Ended /\ saved'[p] # Ended
    BY <1>4, LocationFacts DEF GoesOn
  <2> QED BY <1>4, <2>1 DEF GoesOn
<1> QED BY <1>1, <1>2, <1>3, <1>4 DEF Fate

LEMMA FateKept ==
  ASSUME TestInv, NEW gone, NEW new, Typed', \A p \in Pcb : Fate(p, gone, new)
  PROVE  /\ Located' /\ Programs' /\ Resumes'
         /\ (/\ IInv /\ IInv' /\ Intact /\ Population(gone, new)
             /\ gone \subseteq Pcb /\ new \subseteq Pcb /\ gone \cap new = {})
            => Placed'
<1>1. \A p \in Pcb : pc'[p] = Ended <=> saved'[p] = Ended
  BY FateFacts
<1>2. Located'
  BY <1>1 DEF Typed, Located
<1>3. Programs'
  BY FateFacts DEF Programs
<1>4. Resumes'
  BY FateFacts DEF Resumes
<1>5. ASSUME IInv, IInv', Intact, Population(gone, new),
             gone \subseteq Pcb, new \subseteq Pcb, gone \cap new = {}
      PROVE  Placed'
  <2>1. /\ \A p \in gone : pc'[p] = Ended
        /\ \A p \in new : pc'[p] # Ended
        /\ \A p \in Pcb \ (gone \cup new) : pc'[p] = Ended <=> pc[p] = Ended
    BY <1>5, FateFacts
  <2>2. Placed
    BY <1>5 DEF TestInv
  <2> QED BY <1>5, <2>1, <2>2, PlacedKept
<1> QED BY <1>2, <1>3, <1>4, <1>5

\* A step outside print().
LEMMA QuietKept ==
  ASSUME IoInv, IoInv', TestInv, Intact,
         NEW gone \in SUBSET Pcb, NEW new \in SUBSET Pcb, gone \cap new = {},
         Moves(gone, new), KindsKept(gone), Typed',
         \A p \in Pcb : Fate(p, gone, new),
         \A p \in Pcb : p \in gone \/ (got'[p] = got[p] /\ sent'[p] = sent[p]),
         \/ status' = "ready"
         \/ status # "ready" /\ (cpu = "terminal" => cpu' = "terminal")
  PROVE  TestInv'
<1>1. IInv /\ IInv' /\ Exclusive /\ Answered
  BY DEF IoInv, TestInv
<1>2. Located' /\ Programs' /\ Resumes' /\ Placed'
  BY <1>1, FateKept DEF Moves
<1>3. Exclusive'
  BY <1>1, ExclusiveKept
<1>4. Answered'
  BY <1>1, AnsweredKept
<1> QED BY <1>2, <1>3, <1>4 DEF TestInv

\* Nothing happens to the programs.
LEMMA IdleKept ==
  ASSUME IoInv, IoInv', TestInv, Moves({}, {}),
         UNCHANGED <<pc, saved, sent, got, tree, passup>>,
         Intact' => Intact,
         \/ status' = "ready"
         \/ status # "ready" /\ (cpu = "terminal" => cpu' = "terminal")
  PROVE  TestInv'
<1>1. UNCHANGED <<pc, saved, sent, got, tutor, child, passup>>
  BY DEF tree
<1>2. Typed' /\ \A p \in Pcb : Fate(p, {}, {})
  BY <1>1 DEF TestInv, Located, Typed, Fate, Rests
<1>3. KindsKept({})
  BY <1>1 DEF KindsKept
<1>4. CASE Intact
  BY <1>1, <1>2, <1>3, <1>4, QuietKept
<1>5. CASE ~Intact'
  BY <1>2, <1>5, FateKept DEF TestInv
<1> QED BY <1>4, <1>5

\* The running process goes on outside print().
LEMMA GoOnKept ==
  ASSUME IoInv, IoInv', TestInv, cpu = "running", Moves({}, {}), status' = status,
         UNCHANGED <<got, sent>>,
         NEW loc \in Location, NEW back \in Location,
         pc' = [pc EXCEPT ![curr] = loc], saved' = [saved EXCEPT ![curr] = back],
         Kind(pc[curr]) = "out", Kind(loc) = "out", Kind(back) = "out",
         loc[1] \in Handling <=> back[1] \in Handling,
         loc[1] \in Handling => ~tutor'[curr] /\ child'[curr] = {},
         passup'[curr] # {} => loc[1] \in Handling,
         \A p \in Pcb \ {curr} :
           tutor'[p] = tutor[p] /\ passup'[p] = passup[p] /\ child'[p] = child[p]
  PROVE  TestInv'
<1>1. Intact /\ curr \in Pcb /\ pc[curr] \in Location
  BY RunsProgram
<1>2. Typed
  BY DEF TestInv, Located, Typed
<1>3. /\ pc'[curr] = loc /\ saved'[curr] = back
      /\ \A p \in Pcb \ {curr} : pc'[p] = pc[p] /\ saved'[p] = saved[p]
  BY <1>1, <1>2 DEF Typed
<1>4. Typed'
  BY <1>1, <1>2 DEF Typed
<1>5. ASSUME NEW p \in Pcb PROVE Fate(p, {}, {})
  <2>1. CASE p = curr
    BY <1>1, <1>3, <2>1 DEF Fate, GoesOn
  <2>2. CASE p # curr
    BY <1>3, <2>2 DEF Fate, Rests
  <2> QED BY <2>1, <2>2
<1>6. KindsKept({})
  BY <1>3 DEF KindsKept
<1>7. status' = "ready" \/ (status # "ready" /\ (cpu = "terminal" => cpu' = "terminal"))
  OBVIOUS
<1> QED BY <1>1, <1>4, <1>5, <1>6, <1>7, QuietKept

\* Where the running process is outside print(), and where it goes.
LEMMA RunsOutside ==
  ASSUME IoInv, TestInv, cpu = "running", Opens(Instr)
  PROVE  /\ Kind(pc[curr]) = "out" /\ Kind(saved[curr]) = "out"
         /\ Instr[1] \notin {"Lock", "Die", "Trap", "Goto", "Switch"} =>
              After \in Location /\ Kind(After) = "out" /\ After[1] = pc[curr][1]
<1>1. /\ curr \in Pcb /\ pc[curr] \in Location
      /\ Instr = Op(pc[curr]) /\ After = Succ(pc[curr])
  BY RunsProgram
<1>2. Kind(pc[curr]) = "out"
  BY <1>1, KindFacts
<1>3. Kind(saved[curr]) = "out"
  BY <1>1, <1>2 DEF TestInv, Resumes
<1>4. ASSUME Instr[1] \notin {"Lock", "Die", "Trap", "Goto", "Switch"}
      PROVE  After \in Location /\ Kind(After) = "out" /\ After[1] = pc[curr][1]
  <2>1. Succ(pc[curr]) \in Location
    BY <1>1, <1>4, CodeFacts
  <2>2. Instr[1] \notin {"IO", "Next"}
    BY DEF Opens, Section
  <2>3. Kind(Succ(pc[curr])) = "out"
    BY <1>1, <1>4, <2>1, <2>2, KindFacts
  <2> QED BY <1>1, <2>1, <2>3 DEF Succ
<1> QED BY <1>2, <1>3, <1>4
-----------------------------------------------------------------------------
(* The instructions outside print()                                        *)

LEMMA NothingMoves ==
  ASSUME UNCHANGED <<vars, ioVars>>
  PROVE  /\ Moves({}, {}) /\ status' = status
         /\ UNCHANGED <<tutor, child, passup, cpu, curr, sem, asl>>
<1>1. /\ UNCHANGED <<tutor, child, passup, cpu, curr, sem, asl, readyQ, pcbFree>>
      /\ status' = status
  BY DEF vars, tree, attrs, sched, sems, ioVars, device
<1>2. Free' = Free /\ Able' = Able
  BY <1>1 DEF Free, Able, Ready
<1> QED BY <1>1, <1>2, StaysMoves

\* The running process goes on without any effect on the nucleus.
LEMMA PureKept ==
  ASSUME IoInv, IoInv', TestInv, cpu = "running", UNCHANGED <<vars, ioVars>>,
         UNCHANGED <<got, sent>>, Opens(Instr),
         NEW loc \in Location, Kind(loc) = "out",
         loc[1] \in Handling <=> pc[curr][1] \in Handling,
         ReturnsTo(loc) \/ GoesTo(loc)
  PROVE  TestInv'
<1>1. /\ curr \in Pcb
      /\ pc[curr][1] \in Handling => ~tutor[curr] /\ child[curr] = {}
      /\ passup[curr] # {} => pc[curr][1] \in Handling
      /\ pc[curr][1] \in Handling <=> saved[curr][1] \in Handling
      /\ saved[curr] \in Location
  BY RunsProgram
<1>2. Kind(pc[curr]) = "out" /\ Kind(saved[curr]) = "out"
  BY RunsOutside
<1>3. /\ Moves({}, {}) /\ status' = status
      /\ UNCHANGED <<tutor, child, passup>>
  BY NothingMoves
<1>4. pc' = [pc EXCEPT ![curr] = loc]
  BY DEF ReturnsTo, GoesTo
<1>5. CASE saved' = [saved EXCEPT ![curr] = loc]
  BY <1>1, <1>2, <1>3, <1>4, <1>5, GoOnKept
<1>6. CASE saved' = saved
  <2>1. saved' = [saved EXCEPT ![curr] = saved[curr]]
    BY <1>1, <1>6 DEF TestInv, Located
  <2> QED BY <1>1, <1>2, <1>3, <1>4, <2>1, GoOnKept
<1> QED BY <1>5, <1>6 DEF ReturnsTo, GoesTo

\* A call that fails, or that only reads.
LEMMA FailedCallKept ==
  ASSUME IoInv, IoInv', TestInv, NoEffect, ReturnsTo(After), UNCHANGED <<got, sent>>,
         Is("Result") \/ Is("Parent") \/ Is("Again") \/ Is("KillParent")
           \/ Is("Create") \/ Is("Kill")
  PROVE  TestInv'
<1>1. /\ cpu = "running" /\ UNCHANGED <<vars, ioVars>>
      /\ Instr[1] \in {"Result", "Parent", "Again", "KillParent", "Create", "Kill"}
  BY DEF Is, Serving, NoEffect
<1>2. Opens(Instr)
  BY <1>1 DEF Opens, Section
<1>3. After \in Location /\ Kind(After) = "out" /\ After[1] = pc[curr][1]
  BY <1>1, <1>2, RunsOutside
<1> QED BY <1>1, <1>2, <1>3, PureKept

LEMMA ResultKept ==
  ASSUME IoInv, IoInv', TestInv, ResultCall
  PROVE  TestInv'
BY FailedCallKept DEF ResultCall

LEMMA ComputeKept ==
  ASSUME IoInv, IoInv', TestInv, Compute
  PROVE  TestInv'
<1>1. /\ cpu = "running" /\ UNCHANGED <<vars, ioVars>> /\ UNCHANGED <<got, sent>>
      /\ Instr[1] \in {"Expect", "Synch", "SetSynch", "Switch", "First", "Second",
                     "From0", "Until", "Judge", "Maybe", "Goto"}
  BY DEF Compute, Is, Serving, NoEffect
<1>2. Opens(Instr)
  BY <1>1 DEF Opens, Section
<1>3. /\ curr \in Pcb /\ pc[curr] \in Location /\ Instr = Op(pc[curr])
      /\ Fit(pc[curr][1], Instr)
  BY <1>1, RunsProgram
<1>4. CASE GoesTo(After) /\ Instr[1] \notin {"Goto", "Switch"}
  <2>1. After \in Location /\ Kind(After) = "out" /\ After[1] = pc[curr][1]
    BY <1>1, <1>2, <1>4, RunsOutside
  <2> QED BY <1>1, <1>2, <1>4, <2>1, PureKept
<1>5. CASE Instr[1] = "Judge" /\ GoesTo(<<pc[curr][1], Instr[2]>>)
  <2> DEFINE loc == <<pc[curr][1], Instr[2]>>
  <2>1. loc \in Targets /\ loc[1] = pc[curr][1]
    BY <1>3, <1>5 DEF Fit, Targets
  <2> HIDE DEF loc
  <2>2. loc \in Location /\ Kind(loc) = "out"
    BY <2>1, TargetFacts, KindFacts
  <2>3. GoesTo(loc)
    BY <1>5 DEF loc
  <2> QED BY <1>1, <1>2, <2>1, <2>2, <2>3, PureKept
<1>6. CASE Instr[1] = "Maybe" /\ GoesTo(<<pc[curr][1], pc[curr][2] + 2>>)
  <2> DEFINE loc == <<pc[curr][1], pc[curr][2] + 2>>
  <2>1. loc \in Location /\ Kind(loc) = "out" /\ loc[1] = pc[curr][1]
    BY <1>3, <1>6, MaybeFacts
  <2> HIDE DEF loc
  <2>2. GoesTo(loc)
    BY <1>6 DEF loc
  <2> QED BY <1>1, <1>2, <2>1, <2>2, PureKept
<1>7. CASE Instr[1] = "Goto" /\ GoesTo(<<Instr[2], Instr[3]>>)
  <2> DEFINE loc == <<Instr[2], Instr[3]>>
  <2>1. /\ loc \in Targets
        /\ loc[1] \in Handling <=> pc[curr][1] \in Handling
    BY <1>3, <1>7 DEF Fit
  <2> HIDE DEF loc
  <2>2. loc \in Location /\ Kind(loc) = "out"
    BY <2>1, TargetFacts, KindFacts
  <2>3. GoesTo(loc)
    BY <1>7 DEF loc
  <2> QED BY <1>1, <1>2, <2>1, <2>2, <2>3, PureKept
<1>8. CASE Instr[1] = "Until" /\ GoesTo(<<pc[curr][1], pc[curr][2] - Instr[3]>>)
  <2> DEFINE loc == <<pc[curr][1], pc[curr][2] - Instr[3]>>
  <2>1. loc \in Location /\ Kind(loc) = "out" /\ loc[1] = pc[curr][1]
    BY <1>3, <1>8, UntilFacts
  <2> HIDE DEF loc
  <2>2. GoesTo(loc)
    BY <1>8 DEF loc
  <2> QED BY <1>1, <1>2, <2>1, <2>2, PureKept
<1>9. ASSUME Instr[1] = "Switch", NEW n \in {"p4a", "p4b", "p4c"}, GoesTo(Start(n))
      PROVE  TestInv'
  <2> DEFINE loc == Start(n)
  <2>1. n \in Names /\ n \notin Handling /\ pc[curr][1] \notin Handling
    BY <1>3, <1>9 DEF Fit, Names, Handling
  <2>2. loc \in Location /\ Kind(loc) = "out" /\ loc[1] = n
    BY <2>1, StartFacts, KindFacts
  <2> HIDE DEF loc
  <2>3. GoesTo(loc)
    BY <1>9 DEF loc
  <2> QED BY <1>1, <1>2, <2>1, <2>2, <2>3, PureKept
<1>10. \/ GoesTo(After) /\ Instr[1] \notin {"Goto", "Switch"}
       \/ Instr[1] = "Judge" /\ GoesTo(<<pc[curr][1], Instr[2]>>)
       \/ Instr[1] = "Maybe" /\ GoesTo(<<pc[curr][1], pc[curr][2] + 2>>)
       \/ Instr[1] = "Goto" /\ GoesTo(<<Instr[2], Instr[3]>>)
       \/ Instr[1] = "Until" /\ GoesTo(<<pc[curr][1], pc[curr][2] - Instr[3]>>)
       \/ Instr[1] = "Switch" /\ \E n \in {"p4a", "p4b", "p4c"} : GoesTo(Start(n))
  <2> USE DEF Is
  <2>1. CASE Is("Expect") \/ Is("Synch") \/ Is("SetSynch")
    BY <2>1 DEF Compute
  <2>2. CASE Is("First") \/ Is("Second") \/ Is("From0")
    BY <2>2 DEF Compute
  <2>3. CASE Is("Until")
    BY <2>3 DEF Compute
  <2>4. CASE Is("Switch")
    <3>1. GoesTo(Start(IF mem.p4inc = 1 THEN "p4a"
                       ELSE IF mem.p4inc = 2 THEN "p4b" ELSE "p4c"))
      BY <2>4 DEF Compute
    <3> QED BY <2>4, <3>1
  <2>5. CASE Is("Judge")
    BY <2>5 DEF Compute
  <2>6. CASE Is("Maybe")
    BY <2>6 DEF Compute
  <2>7. CASE Is("Goto")
    BY <2>7 DEF Compute
  <2> QED BY <2>1, <2>2, <2>3, <2>4, <2>5, <2>6, <2>7 DEF Compute
<1> QED BY <1>4, <1>5, <1>6, <1>7, <1>8, <1>9, <1>10

\* P and V on any semaphore but term_mut.
LEMMA PasserenMoves ==
  ASSUME IoInv, NEW k \in Sem \ {Mutex, TermT}, Passeren(k)
  PROVE  Moves({}, {}) /\ UNCHANGED <<tutor, child, passup>>
<1>1. cpu = "running" /\ P(k) /\ UNCHANGED pcbFree /\ UNCHANGED <<tutor, child, passup>>
  BY DEF Passeren, Serving, tree, attrs
<1>2. IInv /\ CountInv /\ Intact
  BY <1>1, RunningFacts DEF IoInv
<1>3. Passes(k) \/ Blocks(k)
  BY <1>1, <1>2, PKinds
<1> QED BY <1>1, <1>2, <1>3, OtherSemMoves

LEMMA VMoves ==
  ASSUME IoInv, Intact, NEW k \in Sem \ {Mutex, TermT}, V(k), UNCHANGED <<pcbFree, curr>>
  PROVE  Moves({}, {})
<1>1. IInv /\ CountInv
  BY DEF IoInv
<1>2. Signals(k) \/ Wakes(k)
  BY <1>1, VKinds
<1> QED BY <1>1, <1>2, OtherSemMoves

LEMMA SemCallKept ==
  ASSUME IoInv, IoInv', TestInv, SemCall, Instr # <<"V", Mutex>>
  PROVE  TestInv'
<1>1. /\ cpu = "running" /\ UNCHANGED <<got, sent>> /\ status' = status
      /\ pc' = [pc EXCEPT ![curr] = After] /\ saved' = [saved EXCEPT ![curr] = After]
      /\ Instr[1] \in {"P", "V", "Clock", "Tutor", "Passup"}
  BY DEF SemCall, Is, Serving, Quiet, device, ReturnsTo
<1>2. /\ curr \in Pcb /\ Fit(pc[curr][1], Instr) /\ Intact
      /\ pc[curr][1] \in Handling => ~tutor[curr] /\ child[curr] = {}
      /\ passup[curr] # {} => pc[curr][1] \in Handling
  BY <1>1, RunsProgram
<1>3. tutor \in [Pcb -> BOOLEAN] /\ passup \in [Pcb -> SUBSET TrapType]
  BY DEF IoInv, IInv, FieldsOK
<1>4. Instr[1] \in {"P", "V"} => Instr[2] \in Sem \ {Mutex, TermT}
  <2>1. Instr[1] = "P" => Instr[2] \in UserSem \ {Mutex}
    BY <1>2 DEF Fit
  <2>2. Instr[1] = "V" => Instr[2] \in UserSem \ {Mutex}
    BY <1>2 DEF Fit
  <2> QED BY <2>1, <2>2, TermFacts, ConstantFacts
<1>5. Opens(Instr)
  BY <1>1 DEF Opens, Section
<1>6. /\ After \in Location /\ Kind(After) = "out" /\ After[1] = pc[curr][1]
      /\ Kind(pc[curr]) = "out"
  BY <1>1, <1>5, RunsOutside
<1> DEFINE Effect ==
      /\ Moves({}, {})
      /\ \A p \in Pcb \ {curr} :
           tutor'[p] = tutor[p] /\ passup'[p] = passup[p] /\ child'[p] = child[p]
      /\ After[1] \in Handling => ~tutor'[curr] /\ child'[curr] = {}
      /\ passup'[curr] # {} => After[1] \in Handling
<1>7. Effect
  <2>1. ASSUME Moves({}, {}), UNCHANGED <<tutor, child, passup>> PROVE Effect
    BY <1>2, <1>6, <2>1
  <2>2. CASE Instr[1] = "P" /\ Passeren(Instr[2])
    BY <1>4, <2>1, <2>2, PasserenMoves
  <2>3. CASE Instr[1] = "V" /\ Verhogen(Instr[2])
    <3>1. UNCHANGED <<tutor, child, passup>> /\ V(Instr[2]) /\ UNCHANGED <<pcbFree, curr>>
      BY <2>3 DEF Verhogen, tree, attrs
    <3> QED BY <1>2, <1>4, <2>1, <2>3, <3>1, VMoves
  <2>4. CASE WaitClock
    BY <2>1, <2>4, PasserenMoves, MutexFacts, TermFacts, ConstantFacts DEF WaitClock
  <2>5. CASE Instr[1] = "Tutor" /\ SetTutor
    <3>1. /\ tutor' = [tutor EXCEPT ![curr] = TRUE]
          /\ UNCHANGED <<child, passup, pcbFree, readyQ, curr, asl, sem>>
      BY <2>5 DEF SetTutor, attrs, sched, sems
    <3>2. Moves({}, {})
      BY <3>1, StaysMoves DEF Free, Able, Ready
    <3>3. pc[curr][1] \notin Handling
      BY <1>2, <2>5 DEF Fit
    <3> QED BY <1>2, <1>3, <1>6, <3>1, <3>2, <3>3
  <2>6. CASE Instr[1] = "Passup" /\ SpecPassup(Instr[2])
    <3>1. /\ passup' = [passup EXCEPT ![curr] = @ \cup {Instr[2]}]
          /\ UNCHANGED <<child, tutor, pcbFree, readyQ, curr, asl, sem>>
      BY <2>6 DEF SpecPassup, tree, sched, sems
    <3>2. Moves({}, {})
      BY <3>1, StaysMoves DEF Free, Able, Ready
    <3>3. pc[curr][1] \in Handling
      BY <1>2, <2>6 DEF Fit
    <3> QED BY <1>2, <1>3, <1>6, <3>1, <3>2, <3>3
  <2> QED BY <2>2, <2>3, <2>4, <2>5, <2>6 DEF SemCall, Is
<1> QED BY <1>1, <1>6, <1>7, GoOnKept

\* A trap of p5 that one of its handlers takes.
LEMMA HandledTrapKept ==
  ASSUME IoInv, IoInv', TestInv, Is("Trap"), Instr[2] \in passup[curr],
         pc' = [pc EXCEPT ![curr] = Start(Handlers[Instr[2]])],
         saved' = [saved EXCEPT ![curr] =
                     IF Instr[2] = "SYSBP" THEN After ELSE pc[curr]],
         NoEffect, UNCHANGED <<got, sent>>
  PROVE  TestInv'
<1>1. cpu = "running" /\ UNCHANGED <<vars, ioVars>> /\ Instr[1] = "Trap"
  BY DEF Is, Serving, NoEffect
<1>2. /\ curr \in Pcb /\ pc[curr] \in Location
      /\ Instr = Op(pc[curr]) /\ After = Succ(pc[curr])
      /\ Fit(pc[curr][1], Instr)
      /\ pc[curr][1] \in Handling /\ ~tutor[curr] /\ child[curr] = {}
  BY <1>1, RunsProgram
<1>3. Opens(Instr)
  BY <1>1 DEF Opens, Section
<1>4. Kind(pc[curr]) = "out"
  BY <1>1, <1>3, RunsOutside
<1>5. PICK t \in TrapType : t = Instr[2] /\ Instr = <<"Trap", t>>
  BY <1>1, <1>2 DEF Fit
<1> DEFINE loc == Start(Handlers[t])
           back == IF t = "SYSBP" THEN After ELSE pc[curr]
<1>6. loc \in Location /\ Kind(loc) = "out" /\ loc[1] \in Handling
  BY HandlerFacts, StartFacts, KindFacts
<1>7. back \in Location /\ Kind(back) = "out" /\ back[1] \in Handling
  <2>1. CASE t = "SYSBP"
    <3>1. After \in Location
      BY <1>2, <1>5, <2>1, CodeFacts
    <3>2. Kind(After) = "out"
      BY <1>1, <1>2, <3>1, KindFacts
    <3> QED BY <1>2, <2>1, <3>1, <3>2 DEF Succ
  <2>2. CASE t # "SYSBP"
    BY <1>2, <1>4, <2>2
  <2> QED BY <2>1, <2>2
<1>8. /\ Moves({}, {}) /\ status' = status
      /\ UNCHANGED <<tutor, child, passup>>
  BY <1>1, NothingMoves
<1>9. pc' = [pc EXCEPT ![curr] = loc] /\ saved' = [saved EXCEPT ![curr] = back]
  BY <1>5
<1> HIDE DEF loc, back
<1> QED BY <1>1, <1>2, <1>4, <1>6, <1>7, <1>8, <1>9, GoOnKept
-----------------------------------------------------------------------------
(* The processes that end                                                  *)

\* The running process ends, wherever it is.
LEMMA CurrEndsKept ==
  ASSUME IoInv, IoInv', TestInv, cpu = "running",
         Ends(curr) \/ (curr = Root /\ Drops),
         status' = status, UNCHANGED <<tutor, passup, sent>>,
         ReturnsTo(Ended), got' = [got EXCEPT ![curr] = NoChar],
         \A p \in Pcb : child[p] = {} /\ ~tutor[p] => child'[p] = {}
  PROVE  TestInv'
<1>1. Intact /\ curr \in Pcb /\ IInv
  BY RunsProgram DEF IoInv
<1>2. Moves({curr}, {})
  BY <1>1, EndsMoves
<1>3. Typed
  BY DEF TestInv, Located, Typed
<1>4. /\ pc'[curr] = Ended /\ saved'[curr] = Ended
      /\ \A p \in Pcb \ {curr} : pc'[p] = pc[p] /\ saved'[p] = saved[p] /\ got'[p] = got[p]
  BY <1>1, <1>3 DEF Typed, ReturnsTo
<1>5. Typed'
  BY <1>1, <1>3 DEF Typed, ReturnsTo
<1>6. ASSUME NEW p \in Pcb PROVE Fate(p, {curr}, {})
  <2>1. CASE p = curr
    BY <1>4, <2>1 DEF Fate
  <2>2. CASE p # curr
    BY <1>4, <2>2 DEF Fate, Rests
  <2> QED BY <2>1, <2>2
<1>7. KindsKept({curr})
  BY <1>4 DEF KindsKept, Kind
<1>8. status' = "ready" \/ (status # "ready" /\ (cpu = "terminal" => cpu' = "terminal"))
  OBVIOUS
<1>9. \A p \in Pcb : p \in {curr} \/ (got'[p] = got[p] /\ sent'[p] = sent[p])
  BY <1>4
<1>10. {curr} \in SUBSET Pcb /\ {} \in SUBSET Pcb /\ {curr} \cap {} = {}
  BY <1>1
<1> QED BY <1>1, <1>2, <1>5, <1>6, <1>7, <1>8, <1>9, <1>10, QuietKept

\* Orphans go to a tutor.
LEMMA ChildrenMoved ==
  ASSUME NEW ch \in [Pcb -> SUBSET Pcb], NEW q \in Pcb, NEW u \in Pcb, tutor[u]
  PROVE  /\ ChildMoved(ch, q, u) \in [Pcb -> SUBSET Pcb]
         /\ \A p \in Pcb : ch[p] = {} /\ ~tutor[p] => ChildMoved(ch, q, u)[p] = {}
BY DEF ChildMoved

\* A process that Terminate_Process ends, or that was to end another one.
LEMMA ExitKept ==
  ASSUME IoInv, IoInv', TestInv, cpu = "running", curr # Root,
         NEW u \in Pcb, tutor[u], NEW par, NEW ch \in [Pcb -> SUBSET Pcb],
         \A p \in Pcb : child[p] = {} /\ ~tutor[p] => ch[p] = {},
         Exit(curr, u, par, ch), UNCHANGED <<tutor, attrs, sems>>, Quiet, UNCHANGED sent,
         ReturnsTo(Ended), got' = [got EXCEPT ![curr] = NoChar]
  PROVE  TestInv'
<1>1. curr \in Pcb /\ IInv
  BY RunsProgram DEF IoInv
<1>2. Ends(curr)
  BY <1>1, ExitStep
<1>3. child' = [ChildMoved(ch, curr, u) EXCEPT ![par[curr]] = @ \ {curr}]
  BY DEF Exit
<1>4. /\ ChildMoved(ch, curr, u) \in [Pcb -> SUBSET Pcb]
      /\ \A p \in Pcb : ch[p] = {} /\ ~tutor[p] => ChildMoved(ch, curr, u)[p] = {}
  BY <1>1, ChildrenMoved
<1>5. \A p \in Pcb : child[p] = {} /\ ~tutor[p] => child'[p] = {}
  BY <1>3, <1>4
<1>6. status' = status /\ UNCHANGED <<tutor, passup>>
  BY DEF Quiet, device, attrs
<1> QED BY <1>2, <1>5, <1>6, CurrEndsKept

LEMMA DropKept ==
  ASSUME IoInv, IoInv', TestInv, cpu = "running", curr = Root,
         NEW par, NEW ch, 
         \A p \in Pcb : child[p] = {} /\ ~tutor[p] => ch[p] = {},
         DropRoot(par, ch), UNCHANGED <<tutor, attrs, sems>>, Quiet, UNCHANGED sent,
         ReturnsTo(Ended), got' = [got EXCEPT ![curr] = NoChar]
  PROVE  TestInv'
<1>1. Drops
  BY DropRootStep DEF IoInv
<1>2. child' = ch
  BY DEF DropRoot
<1>3. status' = status /\ UNCHANGED <<tutor, passup>>
  BY DEF Quiet, device, attrs
<1> QED BY <1>1, <1>2, <1>3, CurrEndsKept

\* A process that dies, or traps without a handler: its program trap has no
\* handler either, or it has no children whose loss would be that trap.
LEMMA TerminateCurrentKept ==
  ASSUME IoInv, IoInv', TestInv, cpu = "running", TerminateCurrent, Quiet, UNCHANGED sent,
         ReturnsTo(Ended), got' = [got EXCEPT ![curr] = NoChar]
  PROVE  TestInv'
<1>1. /\ curr \in Pcb /\ IInv
      /\ passup[curr] # {} => child[curr] = {}
  BY RunsProgram DEF IoInv
<1>2. curr # Root /\ UNCHANGED <<tutor, attrs, sems>> /\ curr \in Pcb \ Free
  BY <1>1, RunningFacts DEF TerminateCurrent
<1>3. ~(child[curr] # {} /\ "PGT" \in passup[curr])
  BY <1>1
<1>4. PICK u \in NearestTutor(curr) : Exit(curr, u, parent, child)
  BY <1>3 DEF TerminateCurrent
<1>5. u \in Pcb /\ tutor[u]
  BY <1>1, <1>2, HeirFacts
<1>6. child \in [Pcb -> SUBSET Pcb]
  BY <1>1, ChildFacts
<1> QED BY <1>2, <1>4, <1>5, <1>6, ExitKept

LEMMA DieKept ==
  ASSUME IoInv, IoInv', TestInv, Die
  PROVE  TestInv'
BY TerminateCurrentKept DEF Die, TerminateSelf, Serving

LEMMA TrapKept ==
  ASSUME IoInv, IoInv', TestInv, TrapInstr
  PROVE  TestInv'
<1>1. CASE /\ Instr[2] \in passup[curr]
           /\ pc' = [pc EXCEPT ![curr] = Start(Handlers[Instr[2]])]
           /\ saved' = [saved EXCEPT ![curr] =
                          IF Instr[2] = "SYSBP" THEN After ELSE pc[curr]]
           /\ NoEffect
           /\ UNCHANGED got
  BY <1>1, HandledTrapKept DEF TrapInstr
<1>2. CASE /\ Trap(Instr[2]) /\ Quiet
           /\ ReturnsTo(Ended)
           /\ got' = [got EXCEPT ![curr] = NoChar]
  <2>1. cpu = "running" /\ UNCHANGED sent
    BY <1>2 DEF TrapInstr, Trap, Serving
  <2>2. CASE TerminateCurrent
    BY <1>2, <2>1, <2>2, TerminateCurrentKept
  <2>3. CASE curr = Root /\ DropRoot(parent, child) /\ UNCHANGED <<tutor, attrs, sems>>
    BY <1>2, <2>1, <2>3, DropKept
  <2> QED BY <1>2, <2>2, <2>3 DEF Trap, Kill
<1> QED BY <1>1, <1>2 DEF TrapInstr

\* p4 ends its second incarnation; if that one is ready, the lists are lost
\* but p4 goes on.
Kills(q) ==
  \/ /\ TerminateBlocked(q) \/ TerminateReady(q)
     /\ pc' = [pc EXCEPT ![curr] = After, ![q] = Ended]
     /\ saved' = [saved EXCEPT ![curr] = After, ![q] = Ended]
     /\ got' = [got EXCEPT ![q] = NoChar]
  \/ /\ TerminateParent(q)
     /\ ReturnsTo(Ended)
     /\ got' = [got EXCEPT ![curr] = NoChar]

LEMMA KillsKept ==
  ASSUME IoInv, IoInv', TestInv, KillCall, Quiet, NEW q \in Pcb, Kills(q)
  PROVE  TestInv'
<1>1. /\ cpu = "running" /\ Quiet /\ UNCHANGED sent /\ Instr[1] = "Kill"
      /\ status' = status
  BY DEF KillCall, Is, Serving, Quiet, device
<1>2. /\ curr \in Pcb /\ IInv /\ Intact /\ Fit(pc[curr][1], Instr) /\ SemCountsWaiters
  BY <1>1, RunsProgram DEF IoInv
<1>3. pc[curr][1] \notin Handling /\ passup[curr] = {}
  BY <1>1, <1>2, RunsProgram DEF Fit
<1>4. Opens(Instr)
  BY <1>1 DEF Opens, Section
<1>5. /\ After \in Location /\ Kind(After) = "out" /\ After[1] = pc[curr][1]
      /\ Kind(pc[curr]) = "out" /\ pc[curr] \in Location
  BY <1>1, <1>4, RunsOutside, RunsProgram
<1>6. Kills(q)
  OBVIOUS
<1>7. curr \in Ancestors(q)
  BY <1>6 DEF Kills, TerminateBlocked, TerminateReady, TerminateParent
<1>8. q \in Pcb \ Free /\ q # curr
  <2>1. PICK rank \in [Pcb -> Nat] : TreeOf(parent, child, Free, rank)
    BY <1>2 DEF IInv, TreeInv
  <2> QED BY <1>1, <1>2, <1>7, <2>1, DescendantFacts
<1>9. /\ child \in [Pcb -> SUBSET Pcb] /\ tutor \in [Pcb -> BOOLEAN]
      /\ parent \in [Pcb -> Pcb \cup {NoProc}]
  BY <1>2 DEF IInv, FieldsOK
<1>10. CASE /\ TerminateBlocked(q) \/ TerminateReady(q)
            /\ pc' = [pc EXCEPT ![curr] = After, ![q] = Ended]
            /\ saved' = [saved EXCEPT ![curr] = After, ![q] = Ended]
            /\ got' = [got EXCEPT ![q] = NoChar]
  <2>1. Typed
    BY DEF TestInv, Located, Typed
  <2>2. /\ pc'[curr] = After /\ saved'[curr] = After
        /\ pc'[q] = Ended /\ saved'[q] = Ended
        /\ \A p \in Pcb \ {curr, q} : pc'[p] = pc[p] /\ saved'[p] = saved[p]
        /\ \A p \in Pcb \ {q} : got'[p] = got[p]
    BY <1>2, <1>8, <1>10, <2>1 DEF Typed
  <2>3. Typed'
    BY <1>1, <1>5, <1>10, <2>1 DEF Typed
  <2>4. /\ UNCHANGED <<tutor, passup>>
        /\ child' = [child EXCEPT ![parent[q]] = @ \ {q}]
    BY <1>10 DEF TerminateBlocked, TerminateReady, Unlink, attrs
  <2>5. \A p \in Pcb : child'[p] \subseteq child[p]
    BY <1>9, <2>4
  <2>6. ASSUME NEW p \in Pcb PROVE Fate(p, {q}, {})
    <3>1. CASE p = q
      BY <2>2, <3>1 DEF Fate
    <3>2. CASE p = curr
      <4>1. GoesOn(curr)
        BY <1>3, <1>5, <2>2, <2>4 DEF GoesOn
      <4> QED BY <1>8, <3>2, <4>1 DEF Fate
    <3>3. CASE p \notin {curr, q}
      BY <2>2, <2>4, <2>5, <3>3 DEF Fate, Rests
    <3> QED BY <3>1, <3>2, <3>3
  <2>7. CASE TerminateBlocked(q)
    <3>1. PICK k \in Sem : LeavesQueue(q, k)
      BY <1>2, <2>7, TerminateBlockedLeaves
    <3>2. Moves({q}, {})
      BY <1>2, <3>1, LeavesMoves
    <3>3. KindsKept({q})
      BY <1>5, <1>8, <2>2 DEF KindsKept, Kind
    <3>4. status' = "ready" \/ (status # "ready" /\ (cpu = "terminal" => cpu' = "terminal"))
      BY <1>1
    <3>5. \A p \in Pcb : p \in {q} \/ (got'[p] = got[p] /\ sent'[p] = sent[p])
      BY <1>1, <2>2
    <3>6. {q} \in SUBSET Pcb /\ {} \in SUBSET Pcb /\ {q} \cap {} = {}
      OBVIOUS
    <3> QED BY <1>2, <2>3, <2>6, <3>2, <3>3, <3>4, <3>5, <3>6, QuietKept
  <2>8. CASE TerminateReady(q)
    <3>1. ~Intact'
      BY <2>8 DEF TerminateReady, Intact
    <3>2. Located' /\ Programs' /\ Resumes'
      BY <2>3, <2>6, FateKept
    <3> QED BY <3>1, <3>2 DEF TestInv
  <2> QED BY <1>10, <2>7, <2>8
<1>11. CASE /\ TerminateParent(q)
            /\ ReturnsTo(Ended)
            /\ got' = [got EXCEPT ![curr] = NoChar]
  <2>1. PICK u \in NearestTutor(q) :
          LET par == ParentMoved(parent, child, q, u)
              ch  == ChildMoved(child, q, u)
          IN  \/ curr = Root /\ DropRoot(par, ch)
              \/ curr # Root /\ \E v \in NearestTutor(curr) : Exit(curr, v, par, ch)
    BY <1>3, <1>11 DEF TerminateParent
  <2> DEFINE par == ParentMoved(parent, child, q, u)
             ch  == ChildMoved(child, q, u)
  <2>2. u \in Pcb /\ tutor[u]
    BY <1>2, <1>8, HeirFacts
  <2>3. /\ ch \in [Pcb -> SUBSET Pcb]
        /\ \A p \in Pcb : child[p] = {} /\ ~tutor[p] => ch[p] = {}
    BY <1>9, <2>2, ChildrenMoved
  <2>4. UNCHANGED <<tutor, attrs, sems>>
    BY <1>11 DEF TerminateParent
  <2>5. \/ curr = Root /\ DropRoot(par, ch)
        \/ curr # Root /\ \E v \in NearestTutor(curr) : Exit(curr, v, par, ch)
    BY <2>1
  <2> HIDE DEF par, ch
  <2>6. CASE curr = Root /\ DropRoot(par, ch)
    BY <1>1, <1>11, <2>3, <2>4, <2>6, DropKept
  <2>7. ASSUME curr # Root, NEW v \in NearestTutor(curr), Exit(curr, v, par, ch)
        PROVE  TestInv'
    <3>1. v \in Pcb /\ tutor[v]
      BY <1>1, <1>2, RunningFacts, HeirFacts
    <3> QED BY <1>1, <1>11, <2>3, <2>4, <2>7, <3>1, ExitKept
  <2> QED BY <2>5, <2>6, <2>7
<1> QED BY <1>6, <1>10, <1>11 DEF Kills

LEMMA KillKept ==
  ASSUME IoInv, IoInv', TestInv, KillCall
  PROVE  TestInv'
<1>1. PICK q \in Pcb : (Quiet /\ Kills(q)) \/ (NoEffect /\ ReturnsTo(After) /\ UNCHANGED got)
  BY DEF KillCall, Kills
<1>2. CASE Quiet /\ Kills(q)
  BY <1>2, KillsKept
<1>3. CASE NoEffect /\ ReturnsTo(After) /\ UNCHANGED got
  BY <1>3, FailedCallKept DEF KillCall
<1> QED BY <1>1, <1>2, <1>3
-----------------------------------------------------------------------------
(* A process that starts                                                   *)

Creates ==
  /\ CreateCall
  /\ CreateProcess(RootPriority, FALSE) /\ Quiet
  /\ LET c == Head(pcbFree) IN
       /\ pc' = [pc EXCEPT ![curr] = After, ![c] = Start(Instr[2])]
       /\ saved' = [saved EXCEPT ![curr] = After, ![c] = Start(Instr[2])]

LEMMA CreatesKept ==
  ASSUME IoInv, IoInv', TestInv, Creates
  PROVE  TestInv'
<1>1. /\ CreateProcess(RootPriority, FALSE) /\ Quiet /\ UNCHANGED <<sent, got>>
      /\ cpu = "running" /\ Instr[1] = "Create" /\ pcbFree # <<>> /\ status' = status
  BY DEF Creates, CreateCall, Is, CreateProcess, Serving, Quiet, device
<1>2. /\ curr \in Pcb /\ IInv /\ Intact /\ Fit(pc[curr][1], Instr)
      /\ passup[curr] # {} => pc[curr][1] \in Handling
  BY <1>1, RunsProgram DEF IoInv
<1>3. pc[curr][1] \notin Handling /\ passup[curr] = {} /\ Instr[2] \in Names
  BY <1>1, <1>2 DEF Fit
<1>4. Opens(Instr)
  BY <1>1 DEF Opens, Section
<1>5. /\ After \in Location /\ Kind(After) = "out" /\ After[1] = pc[curr][1]
      /\ Kind(pc[curr]) = "out" /\ pc[curr] \in Location
  BY <1>1, <1>4, RunsOutside, RunsProgram
<1>6. PICK c, n : c = Head(pcbFree) /\ n = Instr[2]
  OBVIOUS
<1>7. /\ LinkedOnce(pcbFree) /\ pcbFree \in Seq(Pcb) /\ curr \notin Free
  BY <1>1, <1>2, RunningFacts DEF IInv, FieldsOK
<1>8. c \in Pcb /\ c \in Free /\ Range(Tail(pcbFree)) = Free \ {c} /\ c # curr
  BY <1>1, <1>6, <1>7, RemoveProcQProperties DEF Free
<1>9. /\ pcbFree' = Tail(pcbFree)
      /\ child' = [child EXCEPT ![c] = {}, ![curr] = @ \cup {c}]
      /\ tutor' = [tutor EXCEPT ![c] = FALSE]
      /\ passup' = [passup EXCEPT ![c] = {}]
  BY <1>1, <1>6 DEF CreateProcess
<1>10. Starts(c)
  <2>1. PICK p \in Pcb : Starts(p)
    BY <1>1, <1>2, CreateProcessStep, P2TestAssumption
  <2>2. p \in Free /\ Free' = Free \ {p} /\ Free' = Free \ {c}
    BY <1>8, <1>9, <2>1 DEF Starts, Free
  <2>3. p = c
    BY <1>8, <2>2
  <2> QED BY <2>1, <2>3
<1>11. Moves({}, {c})
  BY <1>2, <1>8, <1>10, StartsMoves
<1>12. /\ pc' = [pc EXCEPT ![curr] = After, ![c] = Start(n)]
       /\ saved' = [saved EXCEPT ![curr] = After, ![c] = Start(n)]
  BY <1>6 DEF Creates
<1>13. Typed /\ pc[c] = Ended
  BY <1>2, <1>8 DEF TestInv, Located, Typed, Placed
<1>14. Start(n) \in Location /\ Kind(Start(n)) = "out"
  BY <1>3, <1>6, StartFacts, KindFacts
<1>15. Typed'
  BY <1>1, <1>5, <1>12, <1>13, <1>14 DEF Typed
<1>16. /\ pc'[curr] = After /\ saved'[curr] = After
       /\ pc'[c] = Start(n) /\ saved'[c] = Start(n)
       /\ \A p \in Pcb \ {curr, c} : pc'[p] = pc[p] /\ saved'[p] = saved[p]
  BY <1>2, <1>8, <1>12, <1>13 DEF Typed
<1>17. /\ tutor'[c] = FALSE /\ child'[c] = {} /\ passup'[c] = {}
       /\ passup'[curr] = {}
       /\ \A p \in Pcb \ {curr, c} :
            tutor'[p] = tutor[p] /\ child'[p] = child[p] /\ passup'[p] = passup[p]
  BY <1>2, <1>3, <1>8, <1>9 DEF IInv, FieldsOK
<1>18. ASSUME NEW p \in Pcb PROVE Fate(p, {}, {c})
  <2>1. CASE p = c
    <3>1. Begins(c)
      BY <1>3, <1>6, <1>13, <1>16, <1>17 DEF Begins
    <3> QED BY <2>1, <3>1 DEF Fate
  <2>2. CASE p = curr
    <3>1. GoesOn(curr)
      BY <1>3, <1>5, <1>16, <1>17 DEF GoesOn
    <3> QED BY <1>8, <2>2, <3>1 DEF Fate
  <2>3. CASE p \notin {curr, c}
    BY <1>16, <1>17, <2>3 DEF Fate, Rests
  <2> QED BY <2>1, <2>2, <2>3
<1>19. KindsKept({})
  BY <1>5, <1>13, <1>14, <1>16 DEF KindsKept, Kind
<1>20. status' = "ready" \/ (status # "ready" /\ (cpu = "terminal" => cpu' = "terminal"))
  BY <1>1
<1>21. \A p \in Pcb : p \in {} \/ (got'[p] = got[p] /\ sent'[p] = sent[p])
  BY <1>1
<1>22. {c} \in SUBSET Pcb /\ {} \in SUBSET Pcb /\ {} \cap {c} = {}
  BY <1>8
<1> QED BY <1>2, <1>11, <1>15, <1>18, <1>19, <1>20, <1>21, <1>22, QuietKept

\* Without a free PCB the caller just goes on.
LEMMA CreateKept ==
  ASSUME IoInv, IoInv', TestInv, CreateCall
  PROVE  TestInv'
<1>1. CASE Creates
  BY <1>1, CreatesKept
<1>2. CASE NoEffect /\ ReturnsTo(After)
  BY <1>2, FailedCallKept DEF CreateCall
<1> QED BY <1>1, <1>2 DEF CreateCall, Creates
-----------------------------------------------------------------------------
(* The timers and the transmitter                                          *)

\* A time slice takes a process back to its last system call: from the V of
\* term_mut to the character just read, if time slices end anywhere.
LEMMA SliceKept ==
  ASSUME IoInv, IoInv', TestInv, EndOfSlice
  PROVE  TestInv'
<1>1. /\ TimeSlice /\ Quiet /\ UNCHANGED <<saved, sent, got>>
      /\ SliceAnywhere \/ pc[curr] = saved[curr]
      /\ pc' = [pc EXCEPT ![curr] = saved[curr]]
      /\ cpu = "running" /\ status' = status
      /\ Scheduler(readyQ, prio, curr, ProcBlocked)
      /\ UNCHANGED <<pcbFree, child, tutor, passup, asl, sem>>
  BY DEF EndOfSlice, TimeSlice, Serving, Quiet, device, tree, attrs, sems
<1>2. /\ curr \in Pcb /\ IInv /\ Intact
      /\ pc[curr] \in Location /\ saved[curr] \in Location
      /\ pc[curr][1] \in Handling => ~tutor[curr] /\ child[curr] = {}
      /\ passup[curr] # {} => pc[curr][1] \in Handling
      /\ pc[curr][1] \in Handling <=> saved[curr][1] \in Handling
  BY <1>1, RunsProgram DEF IoInv
<1>3. Free' = Free /\ Able' = Able
  <2>1. Able' = Ready \cup ({curr} \ {NoProc})
    BY <1>1, <1>2, SchedulerAble
  <2> QED BY <1>1, <2>1 DEF Able, Free
<1>4. Moves({}, {})
  BY <1>1, <1>3, StaysMoves
<1>5. Typed
  BY DEF TestInv, Located, Typed
<1>6. /\ pc'[curr] = saved[curr]
      /\ \A p \in Pcb \ {curr} : pc'[p] = pc[p]
  BY <1>1, <1>2, <1>5 DEF Typed
<1>7. Typed'
  BY <1>1, <1>2, <1>5 DEF Typed
<1>8. ASSUME NEW p \in Pcb PROVE Fate(p, {}, {})
  <2>1. CASE p = curr
    BY <1>1, <1>2, <1>6, <2>1 DEF Fate, GoesOn
  <2>2. CASE p # curr
    BY <1>1, <1>6, <2>2 DEF Fate, Rests
  <2> QED BY <2>1, <2>2
<1>9. KindsKept({})
  <2>1. \/ Kind(saved[curr]) = Kind(pc[curr])
        \/ Kind(saved[curr]) = "next" /\ Kind(pc[curr]) = "unlock" /\ SliceAnywhere
    BY <1>1, <1>2 DEF TestInv, Resumes
  <2> QED BY <1>6, <2>1 DEF KindsKept
<1>10. status' = "ready" \/ (status # "ready" /\ (cpu = "terminal" => cpu' = "terminal"))
  BY <1>1
<1>11. \A p \in Pcb : p \in {} \/ (got'[p] = got[p] /\ sent'[p] = sent[p])
  BY <1>1
<1>12. {} \in SUBSET Pcb /\ {} \cap {} = {}
  OBVIOUS
<1> QED BY <1>2, <1>4, <1>7, <1>8, <1>9, <1>10, <1>11, <1>12, QuietKept

\* scheduler() with nobody running.
LEMMA ResumeMoves ==
  ASSUME IoInv, Intact, curr = NoProc, Scheduler(readyQ, prio, NoProc, ProcBlocked),
         UNCHANGED <<pcbFree, asl, sem>>
  PROVE  Moves({}, {})
<1>1. Able' = Ready \cup ({curr} \ {NoProc})
  BY SchedulerAble DEF IoInv
<1> QED BY <1>1, StaysMoves DEF Able, Free

LEMMA TickingKept ==
  ASSUME IoInv, IoInv', TestInv, Ticking
  PROVE  TestInv'
<1>1. /\ UNCHANGED <<pc, saved, sent, got, tree, passup>> /\ status' = status
      /\ cpu \in {"running", "waiting", "ticking"}
  BY DEF Ticking, IntervalTimer, TickWake, TickEnd, Serving, Quiet, device, program, attrs
<1>2. Intact /\ cpu # "terminal"
  BY <1>1 DEF Intact
<1>3. Moves({}, {})
  <2>1. CASE IntervalTimer \/ (TickEnd /\ curr # NoProc)
    <3>1. UNCHANGED <<pcbFree, readyQ, curr, asl, sem>>
      BY <2>1 DEF IntervalTimer, TickEnd, sems
    <3>2. Free' = Free /\ Able' = Able
      BY <3>1 DEF Free, Able, Ready
    <3> QED BY <3>1, <3>2, StaysMoves
  <2>2. CASE TickWake
    BY <1>2, <2>2, VMoves, MutexFacts, TermFacts, ConstantFacts DEF TickWake
  <2>3. CASE TickEnd /\ curr = NoProc
    BY <1>2, <2>3, ResumeMoves DEF TickEnd, sems
  <2> QED BY <2>1, <2>2, <2>3 DEF Ticking
<1>4. status' = "ready" \/ (status # "ready" /\ (cpu = "terminal" => cpu' = "terminal"))
  BY <1>1, <1>2
<1> QED BY <1>1, <1>2, <1>3, <1>4, IdleKept

LEMMA TransmittingKept ==
  ASSUME IoInv, IoInv', TestInv, Transmitting
  PROVE  TestInv'
<1>1. UNCHANGED <<pc, saved, sent, got, tree, passup, pcbFree, asl, sem>>
  BY DEF Transmitting, TransmissionDone, TerminalInterrupt, TerminalAck,
         program, vars, attrs, sems
<1>2. CASE TransmissionDone \/ TerminalInterrupt
  <2>1. /\ UNCHANGED <<readyQ, curr>> /\ status # "ready"
        /\ cpu' = cpu \/ cpu' = "terminal"
        /\ Intact' => Intact
    BY <1>2 DEF TransmissionDone, TerminalInterrupt, vars, sched, Intact, Serving
  <2>2. Free' = Free /\ Able' = Able
    BY <1>1, <2>1 DEF Free, Able, Ready
  <2>3. Moves({}, {})
    BY <1>1, <2>2, StaysMoves
  <2>4. status' = "ready" \/ (status # "ready" /\ (cpu = "terminal" => cpu' = "terminal"))
    BY <2>1
  <2> QED BY <1>1, <2>1, <2>3, <2>4, IdleKept
<1>3. CASE TerminalAck
  <2>1. cpu = "terminal" /\ Acknowledge /\ Return /\ status = "done"
    BY <1>3 DEF TerminalAck, IoInv, DevInv
  <2>2. status' = "ready" /\ Intact
    BY <2>1 DEF Acknowledge, Intact
  <2>3. Moves({}, {})
    <3>1. CASE curr # NoProc
      <4>1. UNCHANGED <<readyQ, curr>>
        BY <2>1, <3>1 DEF Return
      <4>2. Free' = Free /\ Able' = Able
        BY <1>1, <4>1 DEF Free, Able, Ready
      <4> QED BY <1>1, <4>2, StaysMoves
    <3>2. CASE curr = NoProc
      BY <1>1, <2>1, <2>2, <3>2, ResumeMoves DEF Return
    <3> QED BY <3>1, <3>2
  <2> QED BY <1>1, <2>2, <2>3, IdleKept
<1> QED BY <1>2, <1>3 DEF Transmitting

LEMMA NothingKept ==
  ASSUME IoInv, IoInv', TestInv, UNCHANGED p2Vars
  PROVE  TestInv'
<1>1. UNCHANGED <<pc, saved, sent, got>> /\ UNCHANGED <<vars, ioVars>>
  BY DEF p2Vars, program
<1>2. Moves({}, {}) /\ status' = status /\ UNCHANGED <<tree, passup, cpu>>
  BY <1>1, NothingMoves DEF vars
<1>3. status' = "ready" \/ (status # "ready" /\ (cpu = "terminal" => cpu' = "terminal"))
  BY <1>2 DEF IoInv
<1> QED BY <1>1, <1>2, <1>3, IdleKept DEF Intact
-----------------------------------------------------------------------------
(* Inside print()                                                          *)

LEMMA PrintGoesOn ==
  ASSUME IoInv, IoInv', TestInv, cpu = "running", Population({}, {}),
         After \in Location,
         \/ ReturnsTo(After)
         \/ GoesTo(After) /\ Kind(saved[curr]) = "next" /\ Kind(After) = "unlock",
         UNCHANGED <<tutor, child, passup, got>>, sent' \in [Pcb -> BOOLEAN]
  PROVE  /\ Located' /\ Programs' /\ Resumes' /\ Placed'
         /\ pc'[curr] = After /\ \A p \in Pcb \ {curr} : pc'[p] = pc[p]
<1>1. /\ curr \in Pcb /\ IInv /\ IInv' /\ Intact
      /\ pc[curr] \in Location /\ saved[curr] \in Location /\ After[1] = pc[curr][1]
      /\ pc[curr][1] \in Handling => ~tutor[curr] /\ child[curr] = {}
      /\ passup[curr] # {} => pc[curr][1] \in Handling
      /\ pc[curr][1] \in Handling <=> saved[curr][1] \in Handling
  BY RunsProgram DEF IoInv, After
<1>2. Typed
  BY DEF TestInv, Located, Typed
<1>3. /\ pc'[curr] = After
      /\ \A p \in Pcb \ {curr} : pc'[p] = pc[p] /\ saved'[p] = saved[p]
  BY <1>1, <1>2 DEF Typed, ReturnsTo, GoesTo
<1>4. Typed'
  BY <1>1, <1>2 DEF Typed, ReturnsTo, GoesTo
<1>5. GoesOn(curr)
  <2>1. CASE ReturnsTo(After)
    <3>1. saved'[curr] = After
      BY <1>1, <1>2, <2>1 DEF Typed, ReturnsTo
    <3> QED BY <1>1, <1>3, <3>1 DEF GoesOn
  <2>2. CASE GoesTo(After) /\ Kind(saved[curr]) = "next" /\ Kind(After) = "unlock"
    <3>1. saved'[curr] = saved[curr]
      BY <2>2 DEF GoesTo
    <3> QED BY <1>1, <1>3, <2>2, <3>1 DEF GoesOn
  <2> QED BY <2>1, <2>2
<1>6. ASSUME NEW p \in Pcb PROVE Fate(p, {}, {})
  <2>1. CASE p = curr
    BY <1>5, <2>1 DEF Fate
  <2>2. CASE p # curr
    BY <1>3, <2>2 DEF Fate, Rests
  <2> QED BY <2>1, <2>2
<1>7. Located' /\ Programs' /\ Resumes' /\ Placed'
  BY <1>1, <1>4, <1>6, FateKept
<1> QED BY <1>3, <1>7

\* The process that finds term_mut free is the only one inside, and finds
\* the transmitter READY.
LEMMA LockKept ==
  ASSUME NumSemd >= MAXPROC, IoInv, IoInv', TestInv, LockCall
  PROVE  TestInv'
<1>1. /\ cpu = "running" /\ Instr[1] = "Lock" /\ Passeren(Mutex) /\ ReturnsTo(After)
      /\ sent' = [sent EXCEPT ![curr] = FALSE] /\ UNCHANGED got /\ status' = status
      /\ P(Mutex) /\ UNCHANGED pcbFree /\ UNCHANGED <<tutor, child, passup>>
  BY DEF LockCall, Is, Serving, Quiet, device, Passeren, tree, attrs, Mutex
<1>2. /\ curr \in Pcb /\ IInv /\ CountInv /\ Intact /\ pc[curr] \in Location
      /\ Instr = Op(pc[curr]) /\ After = Succ(pc[curr])
      /\ curr \notin Waiting(Mutex) /\ curr \notin Waiting(TermT)
      /\ Exclusive /\ Answered
  BY <1>1, RunsProgram DEF IoInv, TestInv
<1>3. Kind(pc[curr]) = "out"
  BY <1>1, RunsOutside DEF Opens, Section
<1>4. After \in Location /\ Kind(After) = "io"
  <2>1. After \in Location
    BY <1>1, <1>2, CodeFacts
  <2> QED BY <1>1, <1>2, <2>1, KindFacts
<1>5. Passes(Mutex) \/ Blocks(Mutex)
  BY <1>1, <1>2, MutexFacts, PKinds
<1>6. Population({}, {}) /\ Waiting(TermT)' = Waiting(TermT)
  <2>1. TermT \in Sem \ {Mutex}
    BY MutexFacts, TermFacts
  <2> QED BY <1>2, <1>5, <2>1, MutexFacts, SemPopulation, OtherSemKept
<1>7. sent \in [Pcb -> BOOLEAN] /\ sent' \in [Pcb -> BOOLEAN]
  BY <1>1 DEF TestInv, Located
<1>8. /\ Located' /\ Programs' /\ Resumes' /\ Placed'
      /\ pc'[curr] = After /\ \A p \in Pcb \ {curr} : pc'[p] = pc[p]
  BY <1>1, <1>4, <1>6, <1>7, PrintGoesOn
<1>9. Answered'
  <2>1. sent'[curr] = FALSE /\ \A p \in Pcb \ {curr} : sent'[p] = sent[p]
    BY <1>1, <1>2, <1>7
  <2> QED BY <1>1, <1>2, <1>4, <1>6, <1>8, <2>1 DEF Answered
<1>10. /\ sem[Mutex] \in Int /\ sem'[Mutex] = sem[Mutex] - 1
       /\ Waiting(Mutex) \subseteq Pcb /\ Waiting(TermT) \subseteq Pcb
  <2>1. sem[Mutex] \in Int /\ sem'[Mutex] = sem[Mutex] - 1
    BY <1>1, <1>2, MutexFacts DEF P, IInv, FieldsOK
  <2> QED BY <1>2, <2>1, PlaceFacts, MutexFacts, TermFacts DEF IInv
<1>11. Exclusive'
  <2>1. CASE Passes(Mutex)
    <3>1. semdFree > 0
      BY <1>2, ConstantFacts DEF CountInv, DescriptorLeft, IInv, FieldsOK
    <3>2. sem[Mutex] = 1 /\ sem'[Mutex] = 0
      BY <1>2, <1>10, <2>1, <3>1 DEF Passes, Exclusive
    <3>3. status = "ready" /\ \A p \in Pcb : ~Holder(p)
      BY <1>2, <3>2 DEF Exclusive
    <3>4. Waiting(Mutex)' = Waiting(Mutex)
      BY <2>1 DEF Passes, Waiting
    <3>5. \A p \in Pcb : Holder(p)' => p = curr
      BY <1>8, <3>3, <3>4 DEF Holder
    <3> QED
      BY <1>1, <1>2, <1>6, <1>8, <1>10, <3>2, <3>3, <3>4, <3>5 DEF Exclusive
  <2>2. CASE Blocks(Mutex)
    <3>1. sem[Mutex] <= 0 /\ sem'[Mutex] <= 0
      BY <1>10, <2>2 DEF Blocks
    <3>2. Waiting(Mutex)' = Waiting(Mutex) \cup {curr}
      BY <1>2, <2>2, BlocksEffect, MutexFacts
    <3>3. \A p \in Pcb : Holder(p)' => Holder(p) /\ p # curr
      BY <1>8, <3>2 DEF Holder
    <3>4. \A p \in Waiting(Mutex)' : Kind(pc'[p]) = "io"
      BY <1>2, <1>4, <1>8, <1>10, <3>2 DEF Exclusive
    <3>5. \A p \in Waiting(TermT)' : Kind(pc'[p]) = "next"
      BY <1>2, <1>6, <1>8, <1>10 DEF Exclusive
    <3>6. ASSUME status' # "ready", NEW p \in Pcb, Holder(p)'
          PROVE  Kind(pc'[p]) = "next" /\ p \in Waiting(TermT)'
      BY <1>1, <1>2, <1>6, <1>8, <3>3, <3>6 DEF Exclusive
    <3>7. \A p, r \in Pcb : Holder(p)' /\ Holder(r)' => p = r
      BY <1>2, <3>3 DEF Exclusive
    <3>8. sem'[Mutex] <= 1
      BY <3>1, <1>10
    <3> QED BY <3>1, <3>4, <3>5, <3>6, <3>7, <3>8 DEF Exclusive
  <2> QED BY <1>5, <2>1, <2>2
<1> QED BY <1>8, <1>9, <1>11 DEF TestInv

LEMMA IOKept ==
  ASSUME NumSemd >= MAXPROC, IoInv, IoInv', TestInv, IOCall
  PROVE  TestInv'
<1>1. /\ cpu = "running" /\ Instr[1] = "IO" /\ WaitIO /\ ReturnsTo(After)
      /\ UNCHANGED <<sent, got>>
      /\ P(TermT) /\ UNCHANGED pcbFree /\ UNCHANGED <<tutor, child, passup>>
  BY DEF IOCall, Is, Serving, WaitIO, tree, attrs
<1>2. /\ curr \in Pcb /\ IInv /\ CountInv /\ Intact /\ pc[curr] \in Location
      /\ Instr = Op(pc[curr]) /\ After = Succ(pc[curr])
      /\ curr \notin Waiting(Mutex)
      /\ Exclusive /\ Answered
  BY <1>1, RunsProgram DEF IoInv, TestInv
<1>3. Kind(pc[curr]) = "io"
  BY <1>1, <1>2, LocationFacts DEF Kind
<1>4. After \in Location /\ Kind(After) = "next"
  <2>1. After \in Location
    BY <1>1, <1>2, CodeFacts
  <2> QED BY <1>1, <1>2, <2>1, KindFacts
<1>5. Waiting(TermT) = {} /\ Waiting(TermT)' = {curr}
  <2>1. PrintIO
    BY <1>1, <1>3, FindsReady DEF PrintIO
  <2> QED BY <2>1, PrintIOInv
<1>6. /\ Population({}, {}) /\ Waiting(Mutex)' = Waiting(Mutex)
      /\ sem'[Mutex] = sem[Mutex]
  <2>1. Passes(TermT) \/ Blocks(TermT)
    BY <1>1, <1>2, TermFacts, PKinds
  <2>2. Mutex \in Sem \ {TermT}
    BY MutexFacts
  <2> QED BY <1>2, <2>1, <2>2, TermFacts, SemPopulation, OtherSemKept
<1>7. /\ Located' /\ Programs' /\ Resumes' /\ Placed'
      /\ pc'[curr] = After /\ \A p \in Pcb \ {curr} : pc'[p] = pc[p]
  <2>1. sent' \in [Pcb -> BOOLEAN]
    BY <1>1 DEF TestInv, Located
  <2> QED BY <1>1, <1>4, <1>6, <2>1, PrintGoesOn
<1>8. Answered'
  BY <1>1, <1>3, <1>4, <1>2, <1>5, <1>7 DEF Answered
<1>9. Holder(curr) /\ \A p \in Pcb : Holder(p)' => p = curr
  <2>1. Holder(curr)
    BY <1>2, <1>3 DEF Holder
  <2>2. \A p \in Pcb : Holder(p)' /\ p # curr => Holder(p)
    BY <1>6, <1>7 DEF Holder
  <2> QED BY <1>2, <2>1, <2>2 DEF Exclusive
<1>10. sem'[Mutex] <= 0 /\ sem'[Mutex] <= 1
  BY <1>2, <1>6, <1>9 DEF Exclusive
<1>11. \A p \in Waiting(Mutex)' : Kind(pc'[p]) = "io"
  <2>1. Waiting(Mutex) \subseteq Pcb
    BY <1>2, PlaceFacts, MutexFacts DEF IInv
  <2> QED BY <1>2, <1>6, <1>7, <2>1 DEF Exclusive
<1>12. Exclusive'
  BY <1>4, <1>5, <1>7, <1>9, <1>10, <1>11 DEF Exclusive
<1> QED BY <1>7, <1>8, <1>12 DEF TestInv

\* The process behind SYS6 has been woken, so the transmitter is READY: it
\* takes the answer.
LEMMA NextKept ==
  ASSUME IoInv, IoInv', TestInv, NextChar
  PROVE  TestInv'
<1>1. /\ cpu = "running" /\ Instr[1] = "Next" /\ GoesTo(After)
      /\ sent' = [sent EXCEPT ![curr] = TRUE] /\ UNCHANGED got
      /\ UNCHANGED <<vars, ioVars>>
  BY DEF NextChar, Is, Serving, NoEffect
<1>2. /\ curr \in Pcb /\ IInv /\ Intact /\ pc[curr] \in Location
      /\ Instr = Op(pc[curr]) /\ After = Succ(pc[curr])
      /\ curr \notin Waiting(Mutex) /\ curr \notin Waiting(TermT)
      /\ Exclusive /\ Answered
  BY <1>1, RunsProgram DEF IoInv, TestInv
<1>3. Kind(pc[curr]) = "next" /\ Kind(saved[curr]) = "next"
  <2>1. Kind(pc[curr]) = "next"
    BY <1>1, <1>2, LocationFacts DEF Kind
  <2> QED BY <1>2, <2>1 DEF TestInv, Resumes
<1>4. After \in Location /\ Kind(After) = "unlock"
  <2>1. After \in Location
    BY <1>1, <1>2, CodeFacts
  <2> QED BY <1>1, <1>2, <2>1, KindFacts
<1>5. /\ Moves({}, {}) /\ status' = status
      /\ UNCHANGED <<tutor, child, passup, sem, asl>>
  BY <1>1, NothingMoves
<1>6. Waiting(Mutex)' = Waiting(Mutex) /\ Waiting(TermT)' = Waiting(TermT)
  BY <1>5 DEF Waiting
<1>7. sent \in [Pcb -> BOOLEAN] /\ sent' \in [Pcb -> BOOLEAN]
  BY <1>1 DEF TestInv, Located
<1>8. /\ Located' /\ Programs' /\ Resumes' /\ Placed'
      /\ pc'[curr] = After /\ \A p \in Pcb \ {curr} : pc'[p] = pc[p]
  BY <1>1, <1>3, <1>4, <1>5, <1>7, PrintGoesOn DEF Moves
<1>9. Answered'
  <2>1. got[curr] = curr /\ \A p \in Pcb \ {curr} : sent'[p] = sent[p]
    BY <1>1, <1>2, <1>3, <1>7 DEF Answered
  <2> QED BY <1>1, <1>2, <1>4, <1>6, <1>8, <2>1 DEF Answered
<1>10. Holder(curr) /\ status = "ready"
  <2>1. Holder(curr)
    BY <1>2, <1>3 DEF Holder
  <2> QED BY <1>1, <1>2, <2>1 DEF Exclusive
<1>11. \A p \in Pcb : Holder(p)' => p = curr
  <2>1. \A p \in Pcb : Holder(p)' /\ p # curr => Holder(p)
    BY <1>6, <1>8 DEF Holder
  <2> QED BY <1>2, <1>10, <2>1 DEF Exclusive
<1>12. /\ \A p \in Waiting(Mutex)' : Kind(pc'[p]) = "io"
       /\ \A p \in Waiting(TermT)' : Kind(pc'[p]) = "next"
  <2>1. Waiting(Mutex) \subseteq Pcb /\ Waiting(TermT) \subseteq Pcb
    BY <1>2, PlaceFacts, MutexFacts, TermFacts DEF IInv
  <2> QED BY <1>2, <1>6, <1>8, <2>1 DEF Exclusive
<1>13. sem'[Mutex] <= 0 /\ sem'[Mutex] <= 1
  BY <1>2, <1>5, <1>10 DEF Exclusive
<1>14. Exclusive'
  BY <1>5, <1>10, <1>11, <1>12, <1>13 DEF Exclusive
<1> QED BY <1>8, <1>9, <1>14 DEF TestInv

\* The V of term_mut lets in the first process that waits for it.
LEMMA UnlockKept ==
  ASSUME IoInv, IoInv', TestInv, SemCall, Instr = <<"V", Mutex>>
  PROVE  TestInv'
<1>1. /\ cpu = "running" /\ Instr[1] = "V" /\ Instr[2] = Mutex
      /\ Verhogen(Mutex) /\ ReturnsTo(After)
      /\ UNCHANGED <<sent, got>> /\ status' = status
      /\ V(Mutex) /\ UNCHANGED <<pcbFree, curr>> /\ UNCHANGED <<tutor, child, passup>>
  BY DEF SemCall, Is, Serving, Quiet, device, Verhogen, tree, attrs
<1>2. /\ curr \in Pcb /\ IInv /\ CountInv /\ Intact /\ pc[curr] \in Location
      /\ Instr = Op(pc[curr]) /\ After = Succ(pc[curr])
      /\ curr \notin Waiting(Mutex) /\ curr \notin Waiting(TermT)
      /\ Exclusive /\ Answered
  BY <1>1, RunsProgram DEF IoInv, TestInv
<1>3. Kind(pc[curr]) = "unlock"
  BY <1>1, <1>2, LocationFacts DEF Kind
<1>4. After \in Location /\ Kind(After) = "out"
  <2>1. After \in Location
    BY <1>1, <1>2, CodeFacts
  <2> QED BY <1>1, <1>2, <2>1, KindFacts
<1>5. Signals(Mutex) \/ Wakes(Mutex)
  BY <1>1, <1>2, MutexFacts, VKinds
<1>6. Population({}, {}) /\ Waiting(TermT)' = Waiting(TermT)
  <2>1. TermT \in Sem \ {Mutex}
    BY MutexFacts, TermFacts
  <2> QED BY <1>2, <1>5, <2>1, MutexFacts, SemPopulation, OtherSemKept
<1>7. /\ Located' /\ Programs' /\ Resumes' /\ Placed'
      /\ pc'[curr] = After /\ \A p \in Pcb \ {curr} : pc'[p] = pc[p]
  <2>1. sent' \in [Pcb -> BOOLEAN]
    BY <1>1 DEF TestInv, Located
  <2> QED BY <1>1, <1>4, <1>6, <2>1, PrintGoesOn
<1>8. Answered'
  BY <1>1, <1>2, <1>4, <1>6, <1>7 DEF Answered
<1>9. Holder(curr) /\ status = "ready" /\ sem[Mutex] <= 0
  <2>1. Holder(curr)
    BY <1>2, <1>3 DEF Holder
  <2> QED BY <1>1, <1>2, <1>3, <2>1 DEF Exclusive
<1>10. \A p \in Pcb : Holder(p)' => p \in Waiting(Mutex) \ Waiting(Mutex)'
  <2>1. ASSUME NEW p \in Pcb, Holder(p)' PROVE p \in Waiting(Mutex) \ Waiting(Mutex)'
    <3>1. p # curr /\ Kind(pc[p]) # "out" /\ p \notin Waiting(Mutex)'
      BY <1>4, <1>7, <2>1 DEF Holder
    <3> QED BY <1>2, <1>9, <3>1 DEF Holder, Exclusive
  <2> QED BY <2>1
<1>11. /\ sem[Mutex] \in Int /\ sem'[Mutex] = sem[Mutex] + 1
       /\ Waiting(Mutex) \subseteq Pcb /\ Waiting(TermT) \subseteq Pcb
  <2>1. sem[Mutex] \in Int /\ sem'[Mutex] = sem[Mutex] + 1
    BY <1>1, <1>2, MutexFacts DEF V, IInv, FieldsOK
  <2> QED BY <1>2, <2>1, PlaceFacts, MutexFacts, TermFacts DEF IInv
<1>12. /\ Waiting(Mutex)' \subseteq Waiting(Mutex) /\ sem'[Mutex] <= 1
       /\ \A p, r \in Waiting(Mutex) \ Waiting(Mutex)' : p = r /\ sem'[Mutex] <= 0
  <2>1. CASE Signals(Mutex)
    <3>1. Waiting(Mutex)' = Waiting(Mutex)
      BY <2>1 DEF Signals, Waiting
    <3> QED BY <1>9, <1>11, <3>1
  <2>2. CASE Wakes(Mutex)
    <3>1. Waiting(Mutex)' = Waiting(Mutex) \ {Head(asl[Mutex])}
      BY <1>2, <2>2, WakesEffect, MutexFacts
    <3>2. sem[Mutex] + 1 <= 0
      BY <1>2, <2>2, WakesOwes, MutexFacts DEF CountInv
    <3> QED BY <1>11, <3>1, <3>2
  <2> QED BY <1>5, <2>1, <2>2
<1>13. /\ \A p \in Waiting(Mutex)' : Kind(pc'[p]) = "io"
       /\ \A p \in Waiting(TermT)' : Kind(pc'[p]) = "next"
  BY <1>2, <1>6, <1>7, <1>11, <1>12 DEF Exclusive
<1>14. Exclusive'
  BY <1>1, <1>9, <1>10, <1>12, <1>13 DEF Exclusive
<1> QED BY <1>7, <1>8, <1>14 DEF TestInv

\* The handler gives the one waiter the status of its own character.
LEMMA CompletedKept ==
  ASSUME NumSemd >= MAXPROC, IoInv, IoInv', TestInv, Completed
  PROVE  TestInv'
<1>1. /\ TerminalWake /\ cpu = "terminal" /\ cpu' = cpu /\ status' = status
      /\ UNCHANGED <<pc, saved, sent>> /\ UNCHANGED <<tree, passup>> /\ status = "done"
      /\ UNCHANGED <<tutor, child>> /\ UNCHANGED <<pcbFree, curr>>
      /\ got' = IF sem[TermT] < 0 THEN [got EXCEPT ![Head(asl[TermT])] = char] ELSE got
  BY DEF Completed, TerminalWake, attrs, tree, device, IoInv, DevInv
<1>2. /\ IInv /\ IInv' /\ CountInv /\ SemCountsWaiters /\ DevInv /\ Intact
      /\ Exclusive /\ Answered
  BY <1>1 DEF IoInv, TestInv, Intact
<1>3. /\ asl[TermT] \in Seq(Pcb) /\ sem[TermT] \in Int
      /\ Len(asl[TermT]) = IF sem[TermT] < 0 THEN -sem[TermT] ELSE 0
  BY <1>2, TermFacts DEF IInv, FieldsOK, SemCountsWaiters
<1>4. Typed
  BY DEF TestInv, Located, Typed
<1>5. CASE sem[TermT] < 0
  <2>1. /\ Dequeue(TermT) /\ ProcBlocked' = WakeCount
        /\ readyQ' = WakeQueue(Head(asl[TermT])) /\ v0' = char
    BY <1>1, <1>3, <1>5 DEF TerminalWake
  <2>2. sem[TermT] = -1 /\ Len(asl[TermT]) = 1 /\ asl[TermT] # <<>>
    <3>1. DevInv /\ sem[TermT] \in Int
      BY <1>2, <1>3
    <3> QED BY <1>3, <1>5, <3>1 DEF DevInv
  <2>3. Wakes(TermT)
    <3>1. V(TermT)
      BY <2>1, <2>2 DEF Dequeue, V, Owed, WakeCount, WakeQueue
    <3>2. ~Signals(TermT)
      BY <2>2 DEF Signals
    <3> QED BY <1>1, <1>2, <3>1, <3>2, TermFacts, VKinds
  <2>4. PICK h : h = Head(asl[TermT])
    OBVIOUS
  <2>5. h \in Pcb /\ h \in Waiting(TermT) /\ Waiting(TermT)' = Waiting(TermT) \ {h}
    BY <1>2, <2>3, <2>4, WakesEffect, TermFacts
  <2>6. char = h
    BY <1>2, <2>1, <2>2, <2>4, <2>5, TerminalWakeInv, <1>1
  <2>7. Population({}, {}) /\ Waiting(Mutex)' = Waiting(Mutex) /\ sem'[Mutex] = sem[Mutex]
    <3>1. Mutex \in Sem \ {TermT}
      BY MutexFacts
    <3> QED BY <1>2, <2>3, <3>1, TermFacts, SemPopulation, OtherSemKept
  <2>8. got' = [got EXCEPT ![h] = h]
    BY <1>1, <1>5, <2>4, <2>6
  <2>9. Typed'
    BY <1>1, <1>4, <2>5, <2>8 DEF Typed
  <2>10. \A p \in Pcb : Fate(p, {}, {})
    BY <1>1 DEF Fate, Rests, tree
  <2>11. Located' /\ Programs' /\ Resumes' /\ Placed'
    BY <1>2, <2>7, <2>9, <2>10, FateKept
  <2>12. Answered'
    <3>1. got'[h] = h /\ \A p \in Pcb \ {h} : got'[p] = got[p]
      BY <1>4, <2>5, <2>8 DEF Typed
    <3>2. ASSUME NEW p \in Pcb
          PROVE  /\ Kind(pc'[p]) \in {"next", "unlock"} => p \in Waiting(TermT)' \/ got'[p] = p
                 /\ Kind(pc'[p]) \in {"io", "next"} => (sent'[p] => SliceAnywhere)
      BY <1>1, <1>2, <2>5, <3>1 DEF Answered
    <3> QED BY <3>2 DEF Answered
  <2>13. \A p \in Pcb : Holder(p)' <=> Holder(p)
    BY <1>1, <2>7 DEF Holder
  <2>14. Exclusive'
    BY <1>1, <1>2, <2>5, <2>7, <2>13 DEF Exclusive
  <2> QED BY <2>11, <2>12, <2>14 DEF TestInv
<1>6. CASE sem[TermT] >= 0
  <2>1. UNCHANGED <<asl, sem, readyQ>> /\ got' = got
    BY <1>1, <1>3, <1>6 DEF TerminalWake, sems
  <2>2. Free' = Free /\ Able' = Able
    BY <1>1, <2>1 DEF Free, Able, Ready
  <2>3. Moves({}, {})
    BY <2>1, <2>2, StaysMoves
  <2>4. status' = "ready" \/ (status # "ready" /\ (cpu = "terminal" => cpu' = "terminal"))
    BY <1>1
  <2> QED BY <1>1, <1>2, <2>1, <2>3, <2>4, IdleKept
<1> QED BY <1>3, <1>5, <1>6
-----------------------------------------------------------------------------
(* The invariant                                                           *)

LEMMA TestInitInv == P2Init => IoInit /\ IoInv /\ TestInv
<1> SUFFICES ASSUME P2Init PROVE IoInit /\ IoInv /\ TestInv
  OBVIOUS
<1>1. /\ IoInit /\ IoInv /\ IInv /\ status = "ready" /\ Init
  BY IoInitInv DEF P2Init, IoInit, IoInv
<1>2. /\ sem[Mutex] = 1 /\ asl[Mutex] = <<>> /\ asl[TermT] = <<>>
      /\ curr = Root /\ readyQ = <<>> /\ passup = [p \in Pcb |-> {}]
      /\ asl = [k \in Sem |-> <<>>]
  BY <1>1, MutexFacts, TermFacts DEF Init, P2Init, Mutex
<1>3. \A k \in Sem : Waiting(k) = {}
  BY <1>1, <1>2, EmptyRange DEF Waiting, IInv, FieldsOK
<1>4. Live = {Root} /\ Root \in Pcb
  <2>1. Range(readyQ) = {}
    BY <1>1, <1>2, EmptyRange DEF IInv, FieldsOK
  <2> QED BY <1>2, <1>3, <2>1, ConstantFacts DEF Live, Able, Ready, Blocked
<1>5. /\ pc = [p \in Pcb |-> IF p = Root THEN Start("test") ELSE Ended] /\ saved = pc
      /\ sent = [p \in Pcb |-> FALSE] /\ got = [p \in Pcb |-> NoChar]
  BY DEF P2Init
<1>6. /\ Start("test") \in Location /\ Kind(Start("test")) = "out"
      /\ Start("test")[1] \notin Handling /\ Start("test") # Ended
  <2>1. "test" \in Names
    BY DEF Names
  <2>2. Start("test") \in Location /\ Kind(Start("test")) = "out"
    BY <2>1, StartFacts, KindFacts
  <2> QED BY <2>1, <2>2, StartFacts, LocationFacts DEF Handling
<1>7. Located /\ Programs /\ Resumes
  BY <1>2, <1>5, <1>6 DEF Located, Programs, Resumes
<1>8. Placed
  <2>1. Root \notin Free /\ Free \subseteq Pcb
    <3>1. PICK rank : TreeOf(parent, child, Free, rank)
      BY <1>1 DEF IInv, TreeInv
    <3> QED BY <1>1, <3>1, AbleFacts DEF TreeOf
  <2> QED BY <1>4, <1>5, <1>6, <2>1 DEF Placed
<1>9. \A p \in Pcb : Kind(pc[p]) = "out"
  BY <1>5, <1>6 DEF Kind
<1>10. Exclusive /\ Answered
  BY <1>1, <1>2, <1>3, <1>9, MutexFacts, TermFacts DEF Exclusive, Answered, Holder
<1> QED BY <1>1, <1>7, <1>8, <1>10 DEF TestInv

LEMMA TestNextInv ==
  ASSUME NumSemd >= MAXPROC, IoInv, IoInv', TestInv, [P2Next]_p2Vars
  PROVE  TestInv'
<1>1. CASE Run
  <2>1. CASE SemCall
    BY <2>1, SemCallKept, UnlockKept
  <2>2. CASE LockCall \/ IOCall \/ NextChar
    BY <2>2, LockKept, IOKept, NextKept
  <2>3. CASE Die \/ KillCall \/ TrapInstr
    BY <2>3, DieKept, KillKept, TrapKept
  <2>4. CASE CreateCall \/ ResultCall \/ Compute
    BY <2>4, CreateKept, ResultKept, ComputeKept
  <2> QED BY <1>1, <2>1, <2>2, <2>3, <2>4 DEF Run
<1>2. CASE EndOfSlice \/ Ticking
  BY <1>2, SliceKept, TickingKept
<1>3. CASE Transmitting \/ Completed
  BY <1>3, TransmittingKept, CompletedKept
<1>4. CASE Stopped \/ UNCHANGED p2Vars
  BY <1>4, NothingKept DEF Stopped
<1> QED BY <1>1, <1>2, <1>3, <1>4 DEF P2Next

LEMMA TestInvariance ==
  ASSUME NumSemd >= MAXPROC
  PROVE  P2Spec => [](IoInv /\ TestInv)
<1>1. IoInv /\ TestInv /\ [P2Next]_p2Vars => (IoInv /\ TestInv)'
  <2> SUFFICES ASSUME IoInv, TestInv, [P2Next]_p2Vars PROVE IoInv' /\ TestInv'
    OBVIOUS
  <2>1. IoInv'
    BY TestIsIoStep, IoNextInv
  <2> QED BY <2>1, TestNextInv
<1> QED BY <1>1, TestInitInv, PTL DEF P2Spec
-----------------------------------------------------------------------------
(* What it shows                                                           *)

\* Whatever its processes do and wherever a time slice ends, the test uses
\* the nucleus and the terminal as DevIO has them used: one process at a
\* time, and only when the transmitter is READY.
THEOREM TestUsesDevice ==
  ASSUME NumSemd >= MAXPROC
  PROVE  P2Spec => IoSpec
<1>1. IoInv /\ TestInv /\ [P2Next]_p2Vars => [IoNext]_<<vars, ioVars>>
  BY TestIsIoStep
<1> QED BY <1>1, TestInitInv, TestInvariance, PTL DEF P2Spec, IoSpec

\* Under the test, therefore, the counters of the nucleus are right, no PCB is
\* lost or linked twice, HALT comes only when every process but the root has
\* ended, every call is a step of the abstract semaphores, and a process that
\* printed goes on by its own completion only.
THEOREM TestKeepsCounts ==
  ASSUME NumSemd >= MAXPROC
  PROVE  P2Spec => /\ [](BlockedCounted /\ SemCountsWaiters)
                   /\ [](OneList /\ NothingLost /\ HaltOnlyWhenDone)
                   /\ ImplementsSemaphores
                   /\ OwnCompletion
BY TestUsesDevice, IoCountsCorrect, IoHaltCorrect, IoImplementsSemaphores,
   OwnCompletionCorrect

\* print() never gives its character to a transmitter that is busy, that
\* still holds an answer, or that another process waits for: term_mut keeps
\* its callers apart, those too that are terminated while they wait for it
\* or for the transmitter.
THEOREM PrintFindsTransmitterFree ==
  ASSUME NumSemd >= MAXPROC
  PROVE  P2Spec => []TransmitterFree
<1>1. IoInv /\ TestInv => TransmitterFree
  <2> SUFFICES ASSUME IoInv, TestInv, cpu = "running", Instr[1] = "IO"
               PROVE  status = "ready" /\ sem[TermT] = 0
    BY DEF TransmitterFree
  <2>1. status = "ready"
    BY RunsProgram, LocationFacts, FindsReady DEF Kind
  <2>2. asl[TermT] = <<>> /\ sem[TermT] \in {0, -1}
    BY <2>1 DEF IoInv, DevInv
  <2>3. Len(asl[TermT]) = IF sem[TermT] < 0 THEN -sem[TermT] ELSE 0
    BY TermFacts DEF IoInv, SemCountsWaiters
  <2> QED BY <2>1, <2>2, <2>3
<1> QED BY <1>1, TestInvariance, PTL

\* The status print() finds behind SYS6 is that of its own character, and s
\* still points at that character if no time slice ends behind SYS6.
THEOREM PrintGetsItsAnswer ==
  ASSUME NumSemd >= MAXPROC
  PROVE  P2Spec => []PrintAnswered
<1>1. IoInv /\ TestInv => PrintAnswered
  <2> SUFFICES ASSUME IoInv, TestInv, cpu = "running", Instr[1] = "Next"
               PROVE  got[curr] = curr /\ (sent[curr] => SliceAnywhere)
    BY DEF PrintAnswered
  <2>1. Kind(pc[curr]) = "next" /\ curr \in Pcb /\ curr \notin Waiting(TermT) /\ Intact
    BY RunsProgram, LocationFacts DEF Kind
  <2> QED BY <2>1 DEF TestInv, Answered
<1> QED BY <1>1, TestInvariance, PTL
=============================================================================
