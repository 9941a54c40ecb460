--------------------------- MODULE AgentLoopProofs ---------------------------
(***************************************************************************)
(* Proofs about AgentLoop: for any limits, lengths of history and number   *)
(* of keys, the histories sent to a model are well formed, a claim that no *)
(* work backs is challenged, and no call uses a key known to be limited    *)
(* while another is not.                                                   *)
(***************************************************************************)
EXTENDS AgentLoop, SequenceTheorems, TLAPS

(* Histories.                                                              *)

\* Replies, of a given backend.
Need(b, m) == CASE m = "call1" -> 1
                [] m = "call2" -> IF b \in Compat THEN 2 ELSE 1
                [] OTHER -> 0

\* Message j of s asks for a tool result at place i.
Asks(b, s, j, i) == j \in 1..Len(s) /\ j < i /\ i - j <= Need(b, s[j])

\* RequestWellFormed of one history: the places asked for are those of the tool results.
Paired(b, s) ==
    \A i \in 1..(Len(s) + 2) :
        (\E j \in 1..Len(s) : Asks(b, s, j, i)) <=> (i \in 1..Len(s) /\ s[i] = "tool")

Unlinked == MessageKinds \ {"call1", "call2", "tool"}

\* A message asks for two results at most, and only a call asks for any.
LEMMA NeedBound ==
    ASSUME NEW b, NEW m
    PROVE  Need(b, m) \in 0..2 /\ (m \notin {"call1", "call2"} => Need(b, m) = 0)
BY DEF Need

\* Messages without calls and results are paired.
LEMMA UnlinkedPaired ==
    ASSUME NEW b, NEW s \in Seq(Unlinked)
    PROVE  Paired(b, s)
<1> SUFFICES ASSUME NEW i \in 1..(Len(s) + 2)
             PROVE  /\ \A j \in 1..Len(s) : ~Asks(b, s, j, i)
                    /\ ~(i \in 1..Len(s) /\ s[i] = "tool")
  BY DEF Paired
<1>1. ASSUME NEW j \in 1..Len(s) PROVE ~Asks(b, s, j, i)
  <2>1. s[j] \in Unlinked
    OBVIOUS
  <2>2. Need(b, s[j]) = 0
    BY <2>1, NeedBound DEF Unlinked
  <2> QED
    BY <2>2 DEF Asks
<1>2. ASSUME i \in 1..Len(s) PROVE s[i] # "tool"
  <2>1. s[i] \in Unlinked
    BY <1>2
  <2> QED
    BY <2>1 DEF Unlinked
<1> QED
  BY <1>1, <1>2

\* One paired history after another is paired: no call waits for results across the seam.
LEMMA JoinPaired ==
    ASSUME NEW b, NEW s \in Seq(MessageKinds), NEW u \in Seq(MessageKinds),
           Paired(b, s), Paired(b, u)
    PROVE  s \o u \in Seq(MessageKinds) /\ Paired(b, s \o u)
<1> DEFINE v == s \o u
<1>1. v \in Seq(MessageKinds) /\ Len(v) = Len(s) + Len(u)
  OBVIOUS
<1>2. /\ \A j \in 1..Len(s) : v[j] = s[j]
      /\ \A j \in 1..Len(u) : v[j + Len(s)] = u[j]
  OBVIOUS
<1>3. Len(s) \in Nat /\ Len(u) \in Nat
  OBVIOUS
<1> HIDE DEF v
<1>4. ASSUME NEW i \in 1..(Len(v) + 2), i <= Len(s)
      PROVE  (\E j \in 1..Len(v) : Asks(b, v, j, i)) <=> (i \in 1..Len(v) /\ v[i] = "tool")
  <2>1. \A j \in 1..Len(v) : Asks(b, v, j, i) <=> j \in 1..Len(s) /\ Asks(b, s, j, i)
    BY <1>1, <1>2, <1>3, <1>4 DEF Asks
  <2>2. (\E j \in 1..Len(s) : Asks(b, s, j, i)) <=> s[i] = "tool"
    BY <1>3, <1>4 DEF Paired
  <2> QED
    BY <1>1, <1>2, <1>3, <1>4, <2>1, <2>2
<1>5. ASSUME NEW i \in 1..(Len(v) + 2), i > Len(s)
      PROVE  (\E j \in 1..Len(v) : Asks(b, v, j, i)) <=> (i \in 1..Len(v) /\ v[i] = "tool")
  <2>1. ASSUME NEW j \in 1..Len(s) PROVE ~Asks(b, v, j, i)
    <3>1. Need(b, s[j]) \in 0..2
      BY NeedBound
    <3>2. CASE i <= Len(s) + 2
      <4>1. ~Asks(b, s, j, i)
        BY <1>3, <1>5, <3>2 DEF Paired
      <4> QED
        BY <1>2, <4>1 DEF Asks
    <3>3. CASE i > Len(s) + 2
      BY <1>2, <1>3, <1>5, <3>1, <3>3 DEF Asks
    <3> QED
      BY <1>3, <1>5, <3>2, <3>3
  <2>2. ASSUME NEW k \in 1..Len(u)
        PROVE  Asks(b, v, k + Len(s), i) <=> Asks(b, u, k, i - Len(s))
    <3>1. v[k + Len(s)] = u[k] /\ k + Len(s) \in 1..Len(v)
      BY <1>1, <1>2, <1>3
    <3>2. Need(b, u[k]) \in 0..2
      BY NeedBound
    <3>3. i - (k + Len(s)) = (i - Len(s)) - k /\ (k + Len(s) < i <=> k < i - Len(s))
      BY <1>3
    <3> QED
      BY <3>1, <3>2, <3>3 DEF Asks
  <2>3. ASSUME NEW j \in 1..Len(v), j > Len(s)
        PROVE  \E k \in 1..Len(u) : j = k + Len(s)
    <3>1. j - Len(s) \in 1..Len(u) /\ j = (j - Len(s)) + Len(s)
      BY <1>1, <1>3, <2>3
    <3> QED
      BY <3>1
  <2>4. (\E j \in 1..Len(v) : Asks(b, v, j, i)) <=> (\E k \in 1..Len(u) : Asks(b, u, k, i - Len(s)))
    <3>1. ASSUME NEW j \in 1..Len(v), Asks(b, v, j, i)
          PROVE  \E k \in 1..Len(u) : Asks(b, u, k, i - Len(s))
      <4>1. j > Len(s)
        BY <1>1, <1>3, <2>1, <3>1
      <4>2. PICK k \in 1..Len(u) : j = k + Len(s)
        BY <2>3, <4>1
      <4> QED
        BY <2>2, <3>1, <4>2
    <3>2. ASSUME NEW k \in 1..Len(u), Asks(b, u, k, i - Len(s))
          PROVE  \E j \in 1..Len(v) : Asks(b, v, j, i)
      <4>1. k + Len(s) \in 1..Len(v)
        BY <1>1, <1>3
      <4> QED
        BY <2>2, <3>2, <4>1
    <3> QED
      BY <3>1, <3>2
  <2>5. i - Len(s) \in 1..(Len(u) + 2)
    BY <1>1, <1>3, <1>5
  <2>6. (\E k \in 1..Len(u) : Asks(b, u, k, i - Len(s)))
           <=> (i - Len(s) \in 1..Len(u) /\ u[i - Len(s)] = "tool")
    BY <2>5 DEF Paired
  <2>7. i \in 1..Len(v) <=> i - Len(s) \in 1..Len(u)
    BY <1>1, <1>3, <1>5
  <2>8. ASSUME i - Len(s) \in 1..Len(u) PROVE v[i] = u[i - Len(s)]
    <3>1. v[(i - Len(s)) + Len(s)] = u[i - Len(s)]
      BY <1>2, <2>8
    <3>2. (i - Len(s)) + Len(s) = i
      BY <1>3
    <3> QED
      BY <3>1, <3>2
  <2> QED
    BY <2>4, <2>6, <2>7, <2>8
<1>6. Paired(b, v)
  <2>1. \A i \in 1..(Len(v) + 2) : i <= Len(s) \/ i > Len(s)
    BY <1>1, <1>3
  <2> QED
    BY <1>4, <1>5, <2>1 DEF Paired
<1> QED
  BY <1>1, <1>6 DEF v

\* What is left of a paired history from a message that is no tool result on.
LEMMA RestPaired ==
    ASSUME NEW b, NEW s \in Seq(MessageKinds), Paired(b, s),
           NEW u \in Seq(MessageKinds), NEW off \in Nat,
           Len(u) + off = Len(s), \A i \in 1..Len(u) : u[i] = s[i + off],
           Len(u) > 0 => u[1] # "tool"
    PROVE  Paired(b, u)
<1> SUFFICES ASSUME NEW i \in 1..(Len(u) + 2)
             PROVE  (\E j \in 1..Len(u) : Asks(b, u, j, i)) <=> (i \in 1..Len(u) /\ u[i] = "tool")
  BY DEF Paired
<1>1. Len(u) \in Nat /\ Len(s) \in Nat
  OBVIOUS
<1>2. i + off \in 1..(Len(s) + 2) /\ (i + off \in 1..Len(s) <=> i \in 1..Len(u))
  BY <1>1
<1>3. (\E j \in 1..Len(s) : Asks(b, s, j, i + off)) <=> (i \in 1..Len(u) /\ u[i] = "tool")
  BY <1>2 DEF Paired
<1>4. ASSUME NEW j \in 1..Len(u) PROVE Asks(b, u, j, i) <=> Asks(b, s, j + off, i + off)
  <2>1. j + off \in 1..Len(s) /\ u[j] = s[j + off] /\ Need(b, u[j]) \in 0..2
    BY <1>1, NeedBound
  <2>2. (i + off) - (j + off) = i - j /\ (j + off < i + off <=> j < i)
    OBVIOUS
  <2> QED
    BY <2>1, <2>2 DEF Asks
<1>5. ASSUME NEW j \in 1..Len(s), Asks(b, s, j, i + off), Len(u) > 0
      PROVE  j > off
  <2> SUFFICES ASSUME j <= off PROVE FALSE
    BY <1>1
  <2>1. Need(b, s[j]) \in 0..2
    BY NeedBound
  <2>2. Asks(b, s, j, 1 + off)
    BY <1>5, <2>1 DEF Asks
  <2>3. 1 + off \in 1..Len(s) /\ u[1] = s[1 + off]
    BY <1>1, <1>5
  <2>4. s[1 + off] = "tool"
    BY <1>1, <2>2, <2>3 DEF Paired
  <2> QED
    BY <1>5, <2>3, <2>4
<1>6. CASE Len(u) = 0
  BY <1>1, <1>6
<1>7. CASE Len(u) > 0
  <2>1. ASSUME NEW j \in 1..Len(s), Asks(b, s, j, i + off)
        PROVE  \E k \in 1..Len(u) : Asks(b, u, k, i)
    <3>1. j - off \in 1..Len(u) /\ (j - off) + off = j
      BY <1>1, <1>5, <1>7, <2>1
    <3> QED
      BY <1>4, <2>1, <3>1
  <2>2. ASSUME NEW k \in 1..Len(u), Asks(b, u, k, i)
        PROVE  \E j \in 1..Len(s) : Asks(b, s, j, i + off)
    <3>1. k + off \in 1..Len(s)
      BY <1>1
    <3> QED
      BY <1>4, <2>2, <3>1
  <2> QED
    BY <1>3, <2>1, <2>2
<1> QED
  BY <1>1, <1>6, <1>7

\* A call followed by the results it asks for.
LEMMA CallPaired ==
    ASSUME NEW b, NEW c \in {"call1", "call2"}, NEW k \in Nat, k = Need(b, c)
    PROVE  /\ <<c>> \o [i \in 1..k |-> "tool"] \in Seq(MessageKinds)
           /\ Paired(b, <<c>> \o [i \in 1..k |-> "tool"])
<1> DEFINE tools == [i \in 1..k |-> "tool"]
           u == <<c>> \o tools
<1>1. k \in 1..2
  BY DEF Need
<1>2. tools \in Seq(MessageKinds) /\ Len(tools) = k
  BY DEF MessageKinds
<1>3. <<c>> \in Seq(MessageKinds) /\ Len(<<c>>) = 1
  BY DEF MessageKinds
<1>4. u \in Seq(MessageKinds) /\ Len(u) = k + 1
  BY <1>2, <1>3
<1>5. u[1] = c /\ \A i \in 2..(k + 1) : u[i] = "tool"
  BY <1>1, <1>2, <1>3
<1> HIDE DEF u
<1>6. Paired(b, u)
  <2> SUFFICES ASSUME NEW i \in 1..(Len(u) + 2)
               PROVE  (\E j \in 1..Len(u) : Asks(b, u, j, i)) <=> (i \in 1..Len(u) /\ u[i] = "tool")
    BY DEF Paired
  <2>1. ASSUME NEW j \in 2..(k + 1) PROVE Need(b, u[j]) = 0
    BY <1>5 DEF Need
  <2>2. \A j \in 1..Len(u) : Asks(b, u, j, i) <=> j = 1 /\ 1 < i /\ i - 1 <= k
    BY <1>1, <1>4, <1>5, <2>1 DEF Asks
  <2> QED
    BY <1>1, <1>4, <1>5, <2>2
<1> QED
  BY <1>4, <1>6 DEF u

\* In a paired history one of three messages in a row is no result.
LEMMA ThreeInARow ==
    ASSUME NEW b, NEW s \in Seq(MessageKinds), Paired(b, s), NEW i \in 1..Len(s), i > 2,
           s[i] = "tool", s[i - 1] = "tool", s[i - 2] = "tool"
    PROVE  FALSE
<1>1. PICK j \in 1..Len(s) : Asks(b, s, j, i)
  BY DEF Paired
<1>2. Need(b, s[j]) \in 0..2 /\ (s[j] = "tool" => Need(b, s[j]) = 0)
  BY NeedBound
<1> QED
  BY <1>1, <1>2 DEF Asks

\* A non-empty set of places in a sequence of which one is at most the third has a least one.
LEMMA LeastPlace ==
    ASSUME NEW S \in SUBSET (Nat \ {0}), S \cap {1, 2, 3} # {}
    PROVE  Min(S) \in S
<1>1. \E x \in S : \A y \in S : x <= y
  <2>1. CASE 1 \in S
    BY <2>1
  <2>2. CASE 1 \notin S /\ 2 \in S
    BY <2>2
  <2>3. CASE 1 \notin S /\ 2 \notin S /\ 3 \in S
    BY <2>3
  <2> QED
    BY <2>1, <2>2, <2>3
<1> QED
  BY <1>1 DEF Min

\* The end of a paired history without the results at its front is paired.
LEMMA DropPaired ==
    ASSUME NEW b, NEW s \in Seq(MessageKinds), Paired(b, s),
           NEW u \in Seq(MessageKinds), NEW off \in Nat,
           Len(u) + off = Len(s), \A i \in 1..Len(u) : u[i] = s[i + off]
    PROVE  DropLeadingTools(u) \in Seq(MessageKinds) /\ Paired(b, DropLeadingTools(u))
<1> DEFINE rest == {i \in DOMAIN u : u[i] # "tool"}
           v == SubSeq(u, Min(rest), Len(u))
<1>1. Len(u) \in Nat /\ DOMAIN u = 1..Len(u)
  OBVIOUS
<1>2. CASE rest = {}
  <2>1. DropLeadingTools(u) = <<>>
    BY <1>2 DEF DropLeadingTools
  <2>2. <<>> \in Seq(Unlinked) /\ <<>> \in Seq(MessageKinds)
    OBVIOUS
  <2> QED
    BY <2>1, <2>2, UnlinkedPaired
<1>3. CASE rest # {}
  <2>1. rest \cap {1, 2, 3} # {}
    <3> SUFFICES ASSUME rest \cap {1, 2, 3} = {} PROVE FALSE
      OBVIOUS
    <3>1. Len(u) > 3
      BY <1>1, <1>3
    <3>2. u[1] = "tool" /\ u[2] = "tool" /\ u[3] = "tool"
      BY <1>1, <3>1
    <3>3. 3 + off \in 1..Len(s) /\ 3 + off > 2 /\ (3 + off) - 1 = 2 + off /\ (3 + off) - 2 = 1 + off
      BY <1>1, <3>1
    <3>4. s[3 + off] = "tool" /\ s[2 + off] = "tool" /\ s[1 + off] = "tool"
      BY <1>1, <3>1, <3>2
    <3> QED
      BY <3>3, <3>4, ThreeInARow
  <2>2. Min(rest) \in rest
    <3>1. rest \in SUBSET (Nat \ {0})
      BY <1>1
    <3> HIDE DEF rest
    <3> QED
      BY <2>1, <3>1, LeastPlace
  <2> HIDE DEF rest
  <2>3. PICK m \in 1..Len(u) : m = Min(rest) /\ u[m] # "tool"
    BY <1>1, <2>2 DEF rest
  <2>4. v \in Seq(MessageKinds) /\ Len(v) = Len(u) - m + 1
        /\ \A i \in 1..Len(v) : v[i] = u[i + m - 1]
    BY <1>1, <2>3
  <2>5. DropLeadingTools(u) = v
    BY <1>3 DEF DropLeadingTools, rest
  <2> HIDE DEF v
  <2>6. off + m - 1 \in Nat /\ Len(v) + (off + m - 1) = Len(s)
    BY <1>1, <2>3, <2>4
  <2>7. ASSUME NEW i \in 1..Len(v) PROVE v[i] = s[i + (off + m - 1)]
    <3>1. i + m - 1 \in 1..Len(u) /\ (i + m - 1) + off = i + (off + m - 1)
      BY <1>1, <2>3, <2>4
    <3> QED
      BY <2>4, <3>1
  <2>8. Len(v) > 0 /\ v[1] # "tool"
    <3>1. 1 \in 1..Len(v) /\ 1 + m - 1 = m
      BY <1>1, <2>3, <2>4
    <3> QED
      BY <2>3, <2>4, <3>1
  <2> QED
    BY <2>4, <2>5, <2>6, <2>7, <2>8, RestPaired
<1> QED
  BY <1>2, <1>3

\* The messages of the prompt, which the trims keep: one, or Gemini's two.
Kept(b) == IF b = "gemini" THEN 2 ELSE 1

\* A history that may be sent, with the prompt at its front.
Sendable(b, s) ==
    /\ s \in Seq(MessageKinds)
    /\ Paired(b, s)
    /\ Len(s) >= Kept(b)
    /\ \A i \in 1..Kept(b) : s[i] \in Unlinked

\* Two histories with a sendable one first: the prompt stays where it was.
LEMMA JoinSendable ==
    ASSUME NEW b, NEW s, Sendable(b, s), NEW u \in Seq(MessageKinds), Paired(b, u)
    PROVE  Sendable(b, s \o u)
<1>1. s \o u \in Seq(MessageKinds) /\ Paired(b, s \o u)
  BY JoinPaired DEF Sendable
<1>2. Len(s \o u) >= Len(s) /\ \A i \in 1..Len(s) : (s \o u)[i] = s[i]
  BY DEF Sendable
<1>3. Kept(b) \in Nat
  BY DEF Kept
<1>4. Len(s) \in Nat /\ Len(s \o u) \in Nat
  BY <1>1 DEF Sendable
<1> QED
  BY <1>1, <1>2, <1>3, <1>4 DEF Sendable

\* The prompt alone.
LEMMA PromptSendable ==
    ASSUME NEW b, NEW s, Sendable(b, s)
    PROVE  Sendable(b, SubSeq(s, 1, Kept(b)))
<1>1. PICK k \in 1..2 : k = Kept(b)
  BY DEF Kept
<1>2. s \in Seq(MessageKinds) /\ Len(s) \in Nat /\ Len(s) >= k
  BY <1>1 DEF Sendable
<1> DEFINE u == SubSeq(s, 1, k)
<1>3. u \in Seq(MessageKinds) /\ Len(u) = k /\ \A i \in 1..k : u[i] = s[i]
  <2>1. u = [i \in 1..k |-> s[i]]
    BY <1>2
  <2>2. \A i \in 1..k : s[i] \in MessageKinds
    BY <1>2
  <2>3. [i \in 1..k |-> s[i]] \in Seq(MessageKinds) /\ Len([i \in 1..k |-> s[i]]) = k
    BY <2>2
  <2> QED
    BY <2>1, <2>3
<1> HIDE DEF u
<1>4. \A i \in 1..Len(u) : u[i] \in Unlinked
  BY <1>1, <1>3 DEF Sendable
<1>5. u \in Seq(Unlinked)
  BY <1>3, <1>4
<1>6. Paired(b, u)
  BY <1>5, UnlinkedPaired
<1>7. Sendable(b, u)
  BY <1>1, <1>3, <1>4, <1>6 DEF Sendable
<1> QED
  BY <1>1, <1>7 DEF u

\* The count trim.
LEMMA TrimSendable ==
    ASSUME NEW b, NEW s, Sendable(b, s)
    PROVE  Sendable(b, TrimHistory(s, Kept(b)))
<1>1. CASE Len(s) <= MaxHistory
  BY <1>1 DEF TrimHistory
<1>2. CASE ~(Len(s) <= MaxHistory)
  <2> DEFINE k == MaxHistory - Kept(b)
             u == LastOf(s, k)
  <2>1. k \in Nat /\ k < Len(s) /\ s \in Seq(MessageKinds) /\ Len(s) \in Nat
    BY <1>2, HistoryAssumption DEF Kept, Sendable
  <2>2. u \in Seq(MessageKinds) /\ Len(u) = k /\ \A i \in 1..k : u[i] = s[i + (Len(s) - k)]
    <3> HIDE DEF k
    <3> QED
      BY <2>1 DEF LastOf
  <2> HIDE DEF k, u
  <2>3. Len(s) - k \in Nat /\ Len(u) + (Len(s) - k) = Len(s)
    BY <2>1, <2>2
  <2>4. DropLeadingTools(u) \in Seq(MessageKinds) /\ Paired(b, DropLeadingTools(u))
    BY <2>1, <2>2, <2>3, DropPaired DEF Sendable
  <2>5. Sendable(b, SubSeq(s, 1, Kept(b)) \o DropLeadingTools(u))
    BY <2>4, PromptSendable, JoinSendable
  <2> QED
    BY <1>2, <2>5 DEF TrimHistory, u, k
<1> QED
  BY <1>1, <1>2

\* The byte trim of the OpenAI loop.
LEMMA BudgetSendable ==
    ASSUME NEW b \in Compat, NEW s, Sendable(b, s), NEW t \in TrimHistoryToByteBudget(s)
    PROVE  Sendable(b, t)
<1>1. Kept(b) = 1
  BY DEF Kept, Compat
<1>2. s \in Seq(MessageKinds) /\ Len(s) \in Nat /\ Len(s) >= 1
  BY <1>1 DEF Sendable
<1>3. PICK k \in 0..(Len(s) - 1) : t = <<s[1]>> \o DropLeadingTools(LastOf(Tail(s), k))
  BY DEF TrimHistoryToByteBudget
<1> DEFINE w == Tail(s)
           u == LastOf(w, k)
<1>4. w \in Seq(MessageKinds) /\ Len(w) = Len(s) - 1 /\ \A i \in 1..Len(w) : w[i] = s[i + 1]
  BY <1>2
<1>5. u \in Seq(MessageKinds) /\ Len(u) = k /\ \A i \in 1..k : u[i] = w[i + (Len(w) - k)]
  <2> HIDE DEF w
  <2> QED
    BY <1>2, <1>4 DEF LastOf
<1> HIDE DEF w, u
<1>6. Len(s) - k \in Nat /\ Len(u) + (Len(s) - k) = Len(s)
  BY <1>2, <1>5
<1>7. ASSUME NEW i \in 1..Len(u) PROVE u[i] = s[i + (Len(s) - k)]
  <2>1. i + (Len(w) - k) \in 1..Len(w) /\ (i + (Len(w) - k)) + 1 = i + (Len(s) - k)
    BY <1>2, <1>4, <1>5
  <2> QED
    BY <1>4, <1>5, <2>1
<1>8. DropLeadingTools(u) \in Seq(MessageKinds) /\ Paired(b, DropLeadingTools(u))
  BY <1>2, <1>5, <1>6, <1>7, DropPaired DEF Sendable
<1>9. <<s[1]>> = SubSeq(s, 1, Kept(b))
  BY <1>1, <1>2
<1> QED
  BY <1>3, <1>8, <1>9, PromptSendable, JoinSendable DEF u, w

\* Warnings, reminders and texts after a sendable history.
LEMMA NotesSendable ==
    ASSUME NEW b, NEW s, Sendable(b, s), NEW k \in Nat
    PROVE  Sendable(b, s \o Notes(k))
<1>1. Notes(k) \in Seq(Unlinked) /\ Notes(k) \in Seq(MessageKinds)
  BY DEF Notes, Unlinked, MessageKinds
<1> QED
  BY <1>1, UnlinkedPaired, JoinSendable

\* The text of a reply and the note that answers it, or a single note.
LEMMA WordsSendable ==
    ASSUME NEW b, NEW s, Sendable(b, s)
    PROVE  Sendable(b, s \o <<"text", "note">>) /\ Sendable(b, Append(s, "note"))
<1>1. /\ <<"text", "note">> \in Seq(Unlinked) /\ <<"text", "note">> \in Seq(MessageKinds)
      /\ <<"note">> \in Seq(Unlinked) /\ <<"note">> \in Seq(MessageKinds)
  BY DEF Unlinked, MessageKinds
<1>2. Append(s, "note") = s \o <<"note">>
  BY DEF Sendable
<1> QED
  BY <1>1, <1>2, UnlinkedPaired, JoinSendable

\* The tools of a turn: calls and the results their backend wants.
LEMMA AnsweredSendable ==
    ASSUME NEW b \in Backends, Sendable(b, history), NEW t \in Turns, NEW k \in Nat,
           k = IF b \in Compat THEN t.calls ELSE 1
    PROVE  Sendable(b, Answered(t, k))
<1>1. t.calls \in 1..2
  BY DEF Turns
<1>2. PICK c \in {"call1", "call2"} : c = Calls[t.calls] /\ Need(b, c) = k
  BY <1>1 DEF Calls, Need
<1> DEFINE tools == [i \in 1..k |-> "tool"]
<1>3. /\ history \in Seq(MessageKinds) /\ <<c>> \in Seq(MessageKinds)
      /\ tools \in Seq(MessageKinds)
  BY <1>2 DEF Sendable, MessageKinds
<1>4. Answered(t, k) = history \o (<<c>> \o tools)
  <2>1. Answered(t, k) = (history \o <<c>>) \o tools
    BY <1>2 DEF Answered
  <2> HIDE DEF tools
  <2>2. PICK call : call = <<c>>
    OBVIOUS
  <2>3. \A h, x, y \in Seq(MessageKinds) : (h \o x) \o y = h \o (x \o y)
    BY ConcatAssociative
  <2>4. (history \o call) \o tools = history \o (call \o tools)
    BY <1>3, <2>2, <2>3
  <2> QED
    BY <2>1, <2>2, <2>4
<1>5. <<c>> \o tools \in Seq(MessageKinds) /\ Paired(b, <<c>> \o tools)
  BY <1>2, CallPaired
<1> HIDE DEF tools
<1> QED
  BY <1>4, <1>5, JoinSendable

\* What a run starts with: the prompt, earlier messages and the request.
LEMMA InitialSendable ==
    ASSUME NEW b \in Backends, NEW prior \in Nat
    PROVE  Sendable(b, InitialHistory(b, prior))
<1> DEFINE old == [i \in 1..prior |-> "old"]
           talk == old \o <<"request">>
<1>1. old \in Seq(Unlinked) /\ <<"request">> \in Seq(Unlinked)
      /\ <<"system">> \in Seq(Unlinked) /\ <<"fewshot", "fewshot">> \in Seq(Unlinked)
  BY DEF Unlinked, MessageKinds
<1>2. talk \in Seq(Unlinked) /\ Len(talk) >= 1
  <2> HIDE DEF old
  <2> QED
    BY <1>1
<1>3. Conversation(prior) = talk
  BY DEF Conversation
<1> HIDE DEF talk
<1>4. PICK s \in Seq(Unlinked) : s = InitialHistory(b, prior) /\ Len(s) >= Kept(b)
  <2>1. CASE b \in Compat
    <3>1. InitialHistory(b, prior) = <<"system">> \o talk
      BY <1>3, <2>1 DEF InitialHistory, OpenAIHistory, Compat
    <3>2. <<"system">> \o talk \in Seq(Unlinked) /\ Len(<<"system">> \o talk) >= 1
      BY <1>1, <1>2
    <3>3. Kept(b) = 1
      BY <2>1 DEF Kept, Compat
    <3> QED
      BY <3>1, <3>2, <3>3
  <2>2. CASE b = "claude"
    <3>1. InitialHistory(b, prior) = talk
      BY <1>3, <2>2 DEF InitialHistory, ClaudeHistory, Compat
    <3> QED
      BY <1>2, <2>2, <3>1 DEF Kept
  <2>3. CASE b = "gemini"
    <3>1. InitialHistory(b, prior) = <<"fewshot", "fewshot">> \o talk
      BY <1>3, <2>3 DEF InitialHistory, GeminiHistory, Compat
    <3>2. /\ <<"fewshot", "fewshot">> \o talk \in Seq(Unlinked)
          /\ Len(<<"fewshot", "fewshot">> \o talk) >= 2
      BY <1>1, <1>2
    <3>3. Kept(b) = 2
      BY <2>3 DEF Kept
    <3> QED
      BY <3>1, <3>2, <3>3
  <2> QED
    BY <2>1, <2>2, <2>3 DEF Backends
<1>5. s \in Seq(MessageKinds) /\ \A i \in 1..Len(s) : s[i] \in Unlinked
  BY <1>4 DEF Unlinked
<1>6. Kept(b) \in Nat /\ Len(s) \in Nat
  BY DEF Kept
<1> QED
  BY <1>4, <1>5, <1>6, UnlinkedPaired DEF Sendable

-----------------------------------------------------------------------------
(* The history of a run.                                                   *)

HistoryInv ==
    /\ backend \in Backends
    /\ history \in Seq(MessageKinds)
    /\ phase \in {"turn", "call"} => Sendable(backend, history)

\* The numbers of warnings and reminders are 0 or 1 each.
LEMMA NoteCounts ==
    ASSUME NEW t \in Turns
    PROVE  /\ Warning(t) \in Nat /\ RetryWarning(t) \in Nat
           /\ RemindMemory(t) \in Nat /\ RemindSend(t) \in Nat
           /\ Max({Warning(t), RetryWarning(t)}) \in Nat
<1>1. /\ Warning(t) \in {0, 1} /\ RetryWarning(t) \in {0, 1}
      /\ RemindMemory(t) \in {0, 1} /\ RemindSend(t) \in {0, 1}
  BY DEF Warning, RetryWarning, RemindMemory, RemindSend, Count
<1>2. ASSUME NEW x \in {0, 1}, NEW y \in {0, 1} PROVE Max({x, y}) \in Nat
  <2>1. PICK m \in {x, y} : \A z \in {x, y} : m >= z
    BY <1>2
  <2> QED
    BY <2>1 DEF Max
<1> QED
  BY <1>1, <1>2

\* A run begins with a history that may be sent.
LEMMA HistoryInit == AgentInit => HistoryInv
BY DEF AgentInit, HistoryInv, Backends, Compat

\* The tools of a turn leave a history that may be sent.
LEMMA ToolsSendable ==
    ASSUME HistoryInv, phase = "call", NEW t \in Turns,
           OpenAITools(t) \/ ClaudeTools(t) \/ GeminiTools(t)
    PROVE  backend' = backend /\ Sendable(backend, history')
<1>1. backend \in Backends /\ Sendable(backend, history) /\ t.calls \in Nat
  BY DEF HistoryInv, Turns
<1>5. /\ Warning(t) \in Nat /\ RetryWarning(t) \in Nat
      /\ RemindMemory(t) \in Nat /\ RemindSend(t) \in Nat
      /\ Max({Warning(t), RetryWarning(t)}) \in Nat
  BY NoteCounts
<1>2. CASE OpenAITools(t)
  <2> DEFINE k == Warning(t) + RemindMemory(t) + RemindSend(t) + RetryWarning(t)
             h == Answered(t, t.calls) \o Notes(k)
  <2>1. backend \in Compat /\ backend' = backend /\ history' = TrimHistory(h, 1)
    BY <1>2 DEF OpenAITools, RunTools
  <2>2. k \in Nat
    BY <1>5
  <2> HIDE DEF k
  <2>3. Sendable(backend, Answered(t, t.calls))
    BY <1>1, <2>1, AnsweredSendable
  <2>4. Sendable(backend, h)
    BY <2>2, <2>3, NotesSendable
  <2>5. Kept(backend) = 1
    BY <2>1 DEF Kept, Compat
  <2> HIDE DEF h
  <2> QED
    BY <2>1, <2>4, <2>5, TrimSendable
<1>3. CASE ClaudeTools(t)
  <2> DEFINE k == Warning(t) + RetryWarning(t)
             l == RemindMemory(t) + RemindSend(t)
             h == Answered(t, 1) \o Notes(k)
  <2>1. backend = "claude" /\ backend' = backend /\ history' = TrimHistory(h, 1) \o Notes(l)
    BY <1>3 DEF ClaudeTools, RunTools
  <2>2. k \in Nat /\ l \in Nat
    BY <1>5
  <2> HIDE DEF k, l
  <2>3. Sendable(backend, Answered(t, 1))
    BY <1>1, <2>1, AnsweredSendable DEF Compat
  <2>4. Sendable(backend, h)
    BY <2>2, <2>3, NotesSendable
  <2>5. Kept(backend) = 1
    BY <2>1 DEF Kept
  <2> HIDE DEF h
  <2>6. Sendable(backend, TrimHistory(h, 1))
    BY <2>4, <2>5, TrimSendable
  <2> QED
    BY <2>1, <2>2, <2>6, NotesSendable
<1>4. CASE GeminiTools(t)
  <2> DEFINE k == Max({Warning(t), RetryWarning(t)}) + RemindMemory(t) + RemindSend(t)
             h == Answered(t, 1) \o Notes(k)
  <2>1. backend = "gemini" /\ backend' = backend /\ history' = TrimHistory(h, 2)
    BY <1>4 DEF GeminiTools, RunTools
  <2>2. k \in Nat
    BY <1>5
  <2> HIDE DEF k
  <2>3. Sendable(backend, Answered(t, 1))
    BY <1>1, <2>1, AnsweredSendable DEF Compat
  <2>4. Sendable(backend, h)
    BY <2>2, <2>3, NotesSendable
  <2>5. Kept(backend) = 2
    BY <2>1 DEF Kept
  <2> HIDE DEF h
  <2> QED
    BY <2>1, <2>4, <2>5, TrimSendable
<1> QED
  BY <1>2, <1>3, <1>4

\* A step that leaves a sendable history, or none that will be sent, keeps the invariant.
LEMMA HistoryNext == HistoryInv /\ [AgentNext]_agentVars => HistoryInv'
<1> SUFFICES ASSUME HistoryInv, [AgentNext]_agentVars PROVE HistoryInv'
  OBVIOUS
<1>1. /\ backend \in Backends /\ history \in Seq(MessageKinds)
      /\ phase \in {"turn", "call"} => Sendable(backend, history)
  BY DEF HistoryInv
<1>2. ASSUME backend' = backend, Sendable(backend, history') PROVE HistoryInv'
  BY <1>1, <1>2 DEF HistoryInv, Sendable
<1>3. ASSUME backend' = backend, history' = history, phase' \notin {"turn", "call"} PROVE HistoryInv'
  BY <1>1, <1>3 DEF HistoryInv
<1>4. ASSUME NEW i \in Inputs, NEW prior \in Priors, ReadInput(i, prior) PROVE HistoryInv'
  <2>1. backend' = Backend(i) /\ Backend(i) \in Backends /\ prior \in Nat
    BY <1>4, HistoryAssumption DEF ReadInput, Backend, Backends, Compat
  <2>2. CASE Usable(i)
    <3>1. history' = InitialHistory(backend', prior)
      BY <1>4, <2>1, <2>2 DEF ReadInput
    <3>2. Sendable(backend', history')
      BY <2>1, <3>1, InitialSendable
    <3> QED
      BY <2>1, <3>2 DEF HistoryInv, Sendable
  <2>3. CASE ~Usable(i)
    BY <1>1, <1>4, <2>1, <2>3 DEF ReadInput, HistoryInv
  <2> QED
    BY <2>2, <2>3
<1>5. CASE PrepareTurn
  <2> DEFINE h == IF QwenForced THEN Append(history, "note") ELSE history
  <2>1. Sendable(backend, h)
    BY <1>1, <1>5, WordsSendable DEF PrepareTurn
  <2>2. backend' = backend
        /\ IF backend \in Compat THEN history' \in TrimHistoryToByteBudget(h) ELSE history' = h
    BY <1>5 DEF PrepareTurn
  <2> HIDE DEF h
  <2> QED
    BY <1>2, <2>1, <2>2, BudgetSendable
<1>6. CASE LoopExhausted
  BY <1>3, <1>6 DEF LoopExhausted
<1>7. ASSUME NEW e \in Errors, CallFails(e) PROVE HistoryInv'
  BY <1>1, <1>2, <1>7 DEF CallFails
<1>8. ASSUME NEW t \in Texts, LengthStop(t) PROVE HistoryInv'
  BY <1>3, <1>8 DEF LengthStop, Break
<1>9. ASSUME NEW t \in Texts, OpenAIText(t) \/ ClaudeText(t) \/ GeminiText(t) PROVE HistoryInv'
  <2>1. backend' = backend /\ phase = "call"
    BY <1>9 DEF OpenAIText, OpenAITextReply, ClaudeText, GeminiText, TextReply, CallReturned
  <2>2. \/ history' = history \o <<"text", "note">>
        \/ history' = history
    BY <1>9 DEF OpenAIText, OpenAITextReply, ClaudeText, GeminiText, TextReply, RejectClaim
  <2> QED
    BY <1>1, <1>2, <2>1, <2>2, WordsSendable
<1>10. CASE GeminiBlocked
  BY <1>3, <1>10 DEF GeminiBlocked, Break
<1>11. CASE GeminiEmpty \/ ClaudeNoBlocks
  BY <1>3, <1>11 DEF GeminiEmpty, ClaudeNoBlocks, EmptyReply, Break
<1>12. ASSUME NEW t \in Texts, NEW s \in Sends \cup {"no"}, ClaudeOtherStop(t, s) PROVE HistoryInv'
  BY <1>3, <1>12 DEF ClaudeOtherStop, Break
<1>13. ASSUME NEW t \in Turns, OpenAITools(t) \/ ClaudeTools(t) \/ GeminiTools(t) PROVE HistoryInv'
  <2>1. phase = "call"
    BY <1>13 DEF OpenAITools, ClaudeTools, GeminiTools, RunTools, CallReturned
  <2> QED
    BY <1>2, <1>13, <2>1, ToolsSendable
<1>14. CASE Emit
  BY <1>1, <1>14 DEF Emit, HistoryInv
<1>15. CASE UNCHANGED agentVars
  BY <1>1, <1>15 DEF agentVars, HistoryInv
<1> QED
  BY <1>4, <1>5, <1>6, <1>7, <1>8, <1>9, <1>10, <1>11, <1>12, <1>13, <1>14, <1>15 DEF AgentNext

-----------------------------------------------------------------------------
(* The keys.  Within a call the keys with a rate limit are those from the      *)
(* first one tried up to the current one, going round the pool.                *)

Arc(first, last) ==
    IF first <= last THEN first..(last - 1) ELSE (first..(PoolSize - 1)) \cup (0..(last - 1))

Pool == 0..(PoolSize - 1)

KeysInv ==
    /\ attempt \in 0..(MaxAttempts - 1)
    /\ key \in Pool
    /\ limited \subseteq Pool
    /\ phase = "call" => limited = Pool \/ \E first \in Pool : limited = Arc(first, key)

\* The next key, without the remainder.
LEMMA RotateNext ==
    ASSUME NEW k \in Pool
    PROVE  Rotate(k) = IF k + 1 = PoolSize THEN 0 ELSE k + 1
<1>1. PoolSize \in Nat /\ PoolSize > 0 /\ k \in Nat /\ k + 1 <= PoolSize
  BY PoolAssumption DEF Pool
<1>2. CASE k + 1 = PoolSize
  <2>1. PoolSize % PoolSize = 0
    BY <1>1
  <2> QED
    BY <1>2, <2>1 DEF Rotate
<1>3. CASE k + 1 # PoolSize
  <2>1. (k + 1) % PoolSize = k + 1
    BY <1>1, <1>3
  <2> QED
    BY <1>3, <2>1 DEF Rotate
<1> QED
  BY <1>2, <1>3

\* A rate limit on the current key, which had none: the arc grows, or closes.
LEMMA ArcGrows ==
    ASSUME NEW first \in Pool, NEW k \in Pool, NEW l, l = Rotate(k)
    PROVE  /\ l \in Pool
           /\ Arc(first, k) \cup {k} = Pool \/ Arc(first, k) \cup {k} = Arc(first, l)
<1>1. PoolSize \in Nat /\ PoolSize > 0
  BY PoolAssumption
<1>2. l = IF k + 1 = PoolSize THEN 0 ELSE k + 1
  BY RotateNext
<1> QED
  BY <1>1, <1>2 DEF Arc, Pool

\* A key outside the limited ones is tried, unless all have been limited.
LEMMA ArcLeavesKey ==
    ASSUME KeysInv, phase = "call", key \in limited
    PROVE  limited = Pool
<1>1. ASSUME NEW first \in Pool PROVE key \notin Arc(first, key)
  BY PoolAssumption DEF Arc, Pool, KeysInv
<1> QED
  BY <1>1 DEF KeysInv

\* A run begins on a key of the pool, none of them limited.
LEMMA KeysInit == AgentInit => KeysInv
BY PoolAssumption DEF AgentInit, KeysInv, Pool

\* Every step keeps the limited keys an arc of the pool up to the current one, or all of it.
LEMMA KeysNext == KeysInv /\ [AgentNext]_agentVars => KeysInv'
<1> SUFFICES ASSUME KeysInv, [AgentNext]_agentVars PROVE KeysInv'
  OBVIOUS
<1>1. /\ attempt \in 0..(MaxAttempts - 1) /\ 0 \in 0..(MaxAttempts - 1)
      /\ key \in Pool /\ limited \subseteq Pool
      /\ phase = "call" => limited = Pool \/ \E first \in Pool : limited = Arc(first, key)
  BY PoolAssumption DEF KeysInv
<1>2. ASSUME attempt' = 0, limited' = {}, key' = key PROVE KeysInv'
  <2>1. {} = Arc(key, key)
    BY PoolAssumption, <1>1 DEF Arc, Pool
  <2> QED
    BY <1>1, <1>2, <2>1 DEF KeysInv
<1>3. ASSUME UNCHANGED callVars, phase' # "call" \/ phase' = phase PROVE KeysInv'
  BY <1>1, <1>3 DEF KeysInv, callVars
<1>4. ASSUME CallReturned PROVE KeysInv'
  BY <1>2, <1>4 DEF CallReturned
<1>5. ASSUME NEW e \in Errors, CallFails(e) PROVE KeysInv'
  <2>1. phase = "call"
    BY <1>5 DEF CallFails
  <2>2. CASE GiveUpCall(e)
    <3>1. \/ attempt' = 0 /\ limited' = {} /\ key' = key
          \/ UNCHANGED callVars /\ phase' # "call"
      BY <2>2 DEF GiveUpCall
    <3> QED
      BY <1>2, <1>3, <3>1
  <2>3. CASE RetryCall(e) /\ attempt # MaxAttempts - 1
    <3>1. attempt' \in 0..(MaxAttempts - 1)
      BY <1>1, <2>3, PoolAssumption DEF RetryCall, RetryStep
    <3>2. phase' = phase
      BY <2>3 DEF RetryCall, RetryStep
    <3>3. CASE e \notin RateLimits
      <4>1. limited' = limited /\ key' = key
        BY <2>3, <3>3 DEF RetryCall, RetryStep
      <4> QED
        BY <1>1, <3>1, <3>2, <4>1 DEF KeysInv
    <3>4. CASE e \in RateLimits
      <4>1. limited' = limited \cup {key} /\ key' = IF PoolSize > 1 THEN Rotate(key) ELSE key
        BY <2>3, <3>4 DEF RetryCall, RetryStep
      <4>2. key' = Rotate(key)
        <5>1. CASE PoolSize > 1
          BY <4>1, <5>1
        <5>2. CASE ~(PoolSize > 1)
          <6>1. PoolSize = 1 /\ key = 0
            BY <1>1, <5>2, PoolAssumption DEF Pool
          <6> QED
            BY <1>1, <4>1, <6>1, RotateNext
        <5> QED
          BY <5>1, <5>2
      <4>3. key' \in Pool /\ limited' \subseteq Pool
        BY <1>1, <4>1, <4>2, ArcGrows
      <4>4. CASE limited = Pool
        BY <1>1, <3>1, <4>1, <4>3, <4>4 DEF KeysInv
      <4>5. CASE limited # Pool
        <5>1. PICK first \in Pool : limited = Arc(first, key)
          BY <1>1, <2>1, <4>5
        <5>2. limited' = Pool \/ limited' = Arc(first, key')
          BY <1>1, <4>1, <4>2, <5>1, ArcGrows
        <5> QED
          BY <3>1, <4>3, <5>2 DEF KeysInv
      <4> QED
        BY <4>4, <4>5
    <3> QED
      BY <3>3, <3>4
  <2> QED
    BY <1>5, <2>2, <2>3 DEF CallFails
<1>6. CASE PrepareTurn
  BY <1>2, <1>6 DEF PrepareTurn
<1>7. ASSUME NEW i \in Inputs, NEW prior \in Priors, ReadInput(i, prior) PROVE KeysInv'
  <2>1. UNCHANGED callVars /\ phase' # "call"
    BY <1>7 DEF ReadInput
  <2> QED
    BY <1>3, <2>1
<1>8. CASE LoopExhausted \/ Emit
  BY <1>3, <1>8 DEF LoopExhausted, Emit
<1>9. ASSUME NEW t \in Texts, LengthStop(t) \/ OpenAIText(t) \/ ClaudeText(t) \/ GeminiText(t)
      PROVE  KeysInv'
  BY <1>4, <1>9 DEF LengthStop, OpenAIText, OpenAITextReply, ClaudeText, GeminiText
<1>10. CASE GeminiBlocked \/ GeminiEmpty \/ ClaudeNoBlocks
  BY <1>4, <1>10 DEF GeminiBlocked, GeminiEmpty, ClaudeNoBlocks
<1>11. ASSUME NEW t \in Texts, NEW s \in Sends \cup {"no"}, ClaudeOtherStop(t, s) PROVE KeysInv'
  BY <1>4, <1>11 DEF ClaudeOtherStop
<1>12. ASSUME NEW t \in Turns, OpenAITools(t) \/ ClaudeTools(t) \/ GeminiTools(t) PROVE KeysInv'
  BY <1>4, <1>12 DEF OpenAITools, ClaudeTools, GeminiTools, RunTools
<1>13. CASE UNCHANGED agentVars
  BY <1>3, <1>13 DEF agentVars
<1> QED
  BY <1>5, <1>6, <1>7, <1>8, <1>9, <1>10, <1>11, <1>12, <1>13 DEF AgentNext

-----------------------------------------------------------------------------
(* Claims of work done.  While the loop goes on nothing has been accepted, and *)
(* a run of turns without a tool has seen a claim rejected in each.            *)

ClaimInv ==
    /\ phase \in {"start", "turn", "call", "returned", "done"}
    /\ n \in 0..MaxIter
    /\ no_tool_turns \in 0..NoToolCap
    /\ warned \in 0..n
    /\ final \in Texts \cup {"notice"}
    /\ substantive \in BOOLEAN /\ cut \in BOOLEAN
    /\ phase \in {"start", "turn", "call"} =>
           final = NoText /\ no_tool_turns < NoToolCap /\ no_tool_turns <= warned
    /\ phase = "call" => n < MaxIter
    /\ UnbackedClaimWarned

\* A run begins without a text and without a warning.
LEMMA ClaimInit == AgentInit => ClaimInv
<1> SUFFICES ASSUME AgentInit PROVE ClaimInv
  OBVIOUS
<1>1. phase = "start" /\ n = 0 /\ no_tool_turns = 0 /\ warned = 0 /\ final = NoText
  BY DEF AgentInit
<1>2. substantive \in BOOLEAN /\ cut \in BOOLEAN
  BY DEF AgentInit
<1>3. final \in Texts /\ final # "claim"
  BY <1>1 DEF Texts, NoText
<1>4. n \in 0..MaxIter /\ no_tool_turns \in 0..NoToolCap /\ no_tool_turns < NoToolCap
  BY <1>1, IterAssumption, CounterAssumption
<1> QED
  BY <1>1, <1>2, <1>3, <1>4 DEF ClaimInv, UnbackedClaimWarned

\* Another turn begins with nothing accepted.
LEMMA ClaimGoesOn ==
    ASSUME ClaimInv, phase = "call", phase' = "turn", n' = n + 1, final' = final,
           no_tool_turns' \in 0..(NoToolCap - 1), no_tool_turns' <= warned',
           warned' \in {warned, warned + 1},
           substantive' \in BOOLEAN, cut' = cut
    PROVE  ClaimInv'
<1>1. /\ n \in Nat /\ n < MaxIter /\ n' \in 0..MaxIter /\ warned' \in 0..n'
      /\ final' = NoText /\ no_tool_turns' < NoToolCap
  BY IterAssumption, CounterAssumption DEF ClaimInv
<1> QED
  BY <1>1, CounterAssumption DEF ClaimInv, UnbackedClaimWarned, NoText

\* The loop ends with a text that the rule on claims lets pass.
LEMMA ClaimAccepted ==
    ASSUME ClaimInv, phase' \in {"returned", "done"}, n' = n, warned' = warned,
           final' \in Texts \cup {"notice"}, no_tool_turns' \in 0..NoToolCap,
           substantive' \in BOOLEAN, cut' \in BOOLEAN,
           final' = "claim" /\ ~substantive' /\ ~cut' => n = MaxIter - 1 \/ warned >= NoToolCap - 1
    PROVE  ClaimInv'
BY DEF ClaimInv, UnbackedClaimWarned

\* A reply without a tool: rejected, executed, or accepted for one of three reasons.
LEMMA ClaimText ==
    ASSUME ClaimInv, NEW t \in Texts, OpenAIText(t) \/ ClaudeText(t) \/ GeminiText(t)
    PROVE  ClaimInv'
<1>1. /\ phase = "call" /\ n \in Nat /\ n < MaxIter /\ MaxIter \in Nat
      /\ no_tool_turns \in Nat /\ no_tool_turns < NoToolCap /\ no_tool_turns <= warned
      /\ NoToolCap \in Nat /\ warned \in Nat /\ warned <= n
      /\ UNCHANGED <<substantive, cut>> /\ substantive \in BOOLEAN /\ cut \in BOOLEAN
  BY IterAssumption, CounterAssumption
     DEF ClaimInv, OpenAIText, OpenAITextReply, ClaudeText, GeminiText, TextReply, CallReturned,
         counterVars
<1>2. t \in Texts \cup {"notice"} /\ "notice" \in Texts \cup {"notice"}
  OBVIOUS
<1>3. ASSUME ~Suspicious(t), phase' = "returned", final' = t, n' = n, warned' = warned,
             no_tool_turns' \in 0..NoToolCap
      PROVE  ClaimInv'
  <2>1. t = "claim" /\ ~substantive => n = MaxIter - 1
    BY <1>1, <1>3 DEF Suspicious
  <2> QED
    BY <1>1, <1>2, <1>3, <2>1, ClaimAccepted
<1>4. CASE OpenAIText(t)
  <2>1. CASE /\ no_tool_turns + 1 >= NoToolCap /\ no_tool_turns' = no_tool_turns + 1
             /\ Break(IF t = NoText THEN "notice" ELSE t) /\ warned' = warned
    <3>1. no_tool_turns' \in 0..NoToolCap /\ warned >= NoToolCap - 1
      BY <1>1, <2>1
    <3>2. phase' = "returned" /\ n' = n /\ final' \in Texts \cup {"notice"}
      BY <1>2, <2>1 DEF Break
    <3> QED
      BY <1>1, <2>1, <3>1, <3>2, ClaimAccepted
  <2>2. CASE /\ no_tool_turns + 1 < NoToolCap /\ no_tool_turns' = 0 /\ NextTurn /\ warned' = warned
    <3>1. no_tool_turns' \in 0..(NoToolCap - 1) /\ no_tool_turns' <= warned'
      BY <1>1, <2>2
    <3> QED
      BY <1>1, <2>2, <3>1, ClaimGoesOn DEF NextTurn
  <2>3. CASE /\ no_tool_turns + 1 < NoToolCap /\ no_tool_turns' = no_tool_turns + 1
             /\ Suspicious(t) /\ RejectClaim
    <3>1. /\ no_tool_turns' \in 0..(NoToolCap - 1) /\ no_tool_turns' <= warned'
          /\ warned' = warned + 1
      BY <1>1, <2>3 DEF RejectClaim
    <3> QED
      BY <1>1, <2>3, <3>1, ClaimGoesOn DEF NextTurn, RejectClaim
  <2>4. CASE /\ no_tool_turns + 1 < NoToolCap /\ no_tool_turns' = no_tool_turns + 1
             /\ ~Suspicious(t) /\ Break(t) /\ warned' = warned
    <3>1. no_tool_turns' \in 0..NoToolCap
      BY <1>1, <2>4
    <3> QED
      BY <1>3, <2>4, <3>1 DEF Break
  <2> QED
    BY <1>4, <2>1, <2>2, <2>3, <2>4 DEF OpenAIText, OpenAITextReply
<1>5. CASE ClaudeText(t) \/ GeminiText(t)
  <2>1. no_tool_turns' = no_tool_turns
    BY <1>5 DEF ClaudeText, GeminiText, TextReply, counterVars
  <2>2. CASE Suspicious(t) /\ RejectClaim
    <3>1. /\ no_tool_turns' \in 0..(NoToolCap - 1) /\ no_tool_turns' <= warned'
          /\ warned' = warned + 1
      BY <1>1, <2>1, <2>2 DEF RejectClaim
    <3> QED
      BY <1>1, <2>2, <3>1, ClaimGoesOn DEF NextTurn, RejectClaim
  <2>3. CASE ~Suspicious(t) /\ Break(t) /\ warned' = warned
    <3>1. no_tool_turns' \in 0..NoToolCap
      BY <1>1, <2>1
    <3> QED
      BY <1>3, <2>3, <3>1 DEF Break
  <2> QED
    BY <1>5, <2>2, <2>3 DEF ClaudeText, GeminiText, TextReply
<1> QED
  BY <1>4, <1>5

\* The tools of a turn end the count of turns without one.
LEMMA ClaimTools ==
    ASSUME ClaimInv, NEW t \in Turns, OpenAITools(t) \/ ClaudeTools(t) \/ GeminiTools(t)
    PROVE  ClaimInv'
<1>1. /\ phase = "call" /\ no_tool_turns' = 0 /\ UNCHANGED <<warned, cut>>
      /\ substantive' = (substantive \/ t.work)
  BY DEF OpenAITools, ClaudeTools, GeminiTools, RunTools, CallReturned
<1>2. substantive' \in BOOLEAN /\ cut' \in BOOLEAN
  BY <1>1 DEF ClaimInv
<1>3. /\ no_tool_turns' \in 0..NoToolCap /\ no_tool_turns' \in 0..(NoToolCap - 1)
      /\ no_tool_turns' <= warned'
  BY <1>1, CounterAssumption, IterAssumption DEF ClaimInv
<1>4. final = NoText /\ NoText # "claim" /\ final \in Texts \cup {"notice"}
  BY <1>1 DEF ClaimInv, NoText
<1>5. NextTurn \/ Break(final)
  BY DEF OpenAITools, ClaudeTools, GeminiTools
<1>6. CASE NextTurn
  BY <1>1, <1>2, <1>3, <1>6, ClaimGoesOn DEF NextTurn
<1>7. CASE Break(final)
  BY <1>1, <1>2, <1>3, <1>4, <1>7, ClaimAccepted DEF Break
<1> QED
  BY <1>5, <1>6, <1>7

\* Every step keeps the counters of the turns and the text the run may end with.
LEMMA ClaimNext == ClaimInv /\ [AgentNext]_agentVars => ClaimInv'
<1> SUFFICES ASSUME ClaimInv, [AgentNext]_agentVars PROVE ClaimInv'
  OBVIOUS
<1> USE DEF counterVars
<1>1. /\ n \in 0..MaxIter /\ MaxIter \in Nat /\ warned \in 0..n /\ NoToolCap \in Nat /\ NoToolCap > 0
      /\ no_tool_turns \in 0..NoToolCap /\ final \in Texts \cup {"notice"}
      /\ substantive \in BOOLEAN /\ cut \in BOOLEAN
      /\ phase \in {"start", "turn", "call"} =>
             final = NoText /\ no_tool_turns < NoToolCap /\ no_tool_turns <= warned
  BY IterAssumption, CounterAssumption DEF ClaimInv
<1>2. NoText # "claim" /\ {NoText, "notice", "plain", "claim", "code"} = Texts \cup {"notice"}
  BY DEF NoText, Texts
<1>3. ASSUME UNCHANGED <<n, no_tool_turns, warned, final, substantive, cut>>,
             phase \in {"start", "turn", "call"}, phase' \in {"turn", "returned", "done"}
      PROVE  ClaimInv'
  BY <1>1, <1>2, <1>3 DEF ClaimInv, UnbackedClaimWarned
<1>4. ASSUME NEW i \in Inputs, NEW prior \in Priors, ReadInput(i, prior) PROVE ClaimInv'
  <2>1. phase = "start" /\ phase' \in {"turn", "done"}
        /\ UNCHANGED <<n, no_tool_turns, warned, final, substantive, cut>>
    BY <1>4 DEF ReadInput
  <2> QED
    BY <1>3, <2>1
<1>5. CASE PrepareTurn
  <2>1. /\ phase = "turn" /\ n < MaxIter /\ phase' = "call" /\ no_tool_turns' \in {0, no_tool_turns}
        /\ UNCHANGED <<n, warned, final, substantive, cut>>
    BY <1>5 DEF PrepareTurn
  <2> QED
    BY <1>1, <1>2, <2>1 DEF ClaimInv, UnbackedClaimWarned
<1>6. CASE LoopExhausted
  BY <1>3, <1>6 DEF LoopExhausted
<1>7. ASSUME NEW e \in Errors, CallFails(e) PROVE ClaimInv'
  <2>1. phase = "call" /\ UNCHANGED <<n, no_tool_turns, warned, substantive, cut>>
    BY <1>7 DEF CallFails
  <2>2. \/ phase' = phase /\ final' = final
        \/ phase' = "returned" /\ final' = "notice"
        \/ phase' = "done" /\ final' = final
    BY <1>7 DEF CallFails, GiveUpCall, RetryCall, RetryStep
  <2>3. CASE phase' = phase /\ final' = final
    BY <1>1, <2>1, <2>3 DEF ClaimInv, UnbackedClaimWarned
  <2>4. CASE phase' \in {"returned", "done"} /\ final' \in {"notice", NoText}
    BY <1>1, <1>2, <2>1, <2>4, ClaimAccepted
  <2> QED
    BY <1>1, <2>1, <2>2, <2>3, <2>4
<1>8. ASSUME NEW t \in Texts, LengthStop(t) PROVE ClaimInv'
  <2>1. /\ phase' = "returned" /\ final' \in Texts \cup {"notice"} /\ cut'
        /\ UNCHANGED <<n, no_tool_turns, warned, substantive>>
    BY <1>8 DEF LengthStop, Break
  <2>2. cut' \in BOOLEAN
    BY <1>8 DEF LengthStop
  <2> QED
    BY <1>1, <2>1, <2>2, ClaimAccepted
<1>9. ASSUME NEW t \in Texts, OpenAIText(t) \/ ClaudeText(t) \/ GeminiText(t) PROVE ClaimInv'
  BY <1>9, ClaimText
<1>10. CASE GeminiBlocked
  <2>1. /\ phase' = "returned" /\ final' = "notice" /\ cut' = TRUE
        /\ UNCHANGED <<n, no_tool_turns, warned, substantive>>
    BY <1>10 DEF GeminiBlocked, Break
  <2> QED
    BY <1>1, <1>2, <2>1, ClaimAccepted
<1>11. CASE GeminiEmpty \/ ClaudeNoBlocks
  <2>1. /\ phase = "call" /\ phase' = "returned" /\ final' = final
        /\ UNCHANGED <<n, no_tool_turns, warned, substantive, cut>>
    BY <1>11 DEF GeminiEmpty, ClaudeNoBlocks, EmptyReply, Break, CallReturned
  <2> QED
    BY <1>3, <2>1
<1>12. ASSUME NEW t \in Texts, NEW s \in Sends \cup {"no"}, ClaudeOtherStop(t, s) PROVE ClaimInv'
  <2>1. /\ phase' = "returned" /\ final' = t /\ cut' = TRUE
        /\ UNCHANGED <<n, no_tool_turns, warned, substantive>>
    BY <1>12 DEF ClaudeOtherStop, Break
  <2> QED
    BY <1>1, <2>1, ClaimAccepted
<1>13. ASSUME NEW t \in Turns, OpenAITools(t) \/ ClaudeTools(t) \/ GeminiTools(t) PROVE ClaimInv'
  BY <1>13, ClaimTools
<1>14. CASE Emit
  <2>1. /\ phase = "returned" /\ phase' = "done"
        /\ UNCHANGED <<n, no_tool_turns, warned, final, substantive, cut>>
    BY <1>14 DEF Emit
  <2> QED
    BY <1>1, <2>1 DEF ClaimInv, UnbackedClaimWarned
<1>15. CASE UNCHANGED agentVars
  BY <1>1, <1>15 DEF agentVars, ClaimInv, UnbackedClaimWarned
<1> QED
  BY <1>4, <1>5, <1>6, <1>7, <1>8, <1>9, <1>10, <1>11, <1>12, <1>13, <1>14, <1>15 DEF AgentNext

-----------------------------------------------------------------------------
(* The tallies of a run and what it hands over.                            *)

TallyInv ==
    /\ mode \in {"stream", "plain", "auto"}
    /\ turns_since_notify \in 0..NotifyTurns /\ only_notify_turns \in 0..OnlyNotifyTurns
    /\ memory_written \in BOOLEAN /\ marked \in BOOLEAN /\ delivered \in BOOLEAN
    /\ fails \in 0..MaxFails /\ completions \in 0..2
    /\ status \in {"none", "success", "error"}
    /\ result \in Texts \cup {"notice", "hint"}

\* The smaller of two numbers.
LEMMA Capped ==
    ASSUME NEW x \in Nat, NEW y \in Nat
    PROVE  Min({x, y}) \in 0..y
<1>1. PICK m \in {x, y} : \A z \in {x, y} : m <= z
  BY DEF Nat
<1> QED
  BY <1>1 DEF Min

\* A run begins with nothing delivered and every counter at zero.
LEMMA TallyInit == AgentInit => TallyInv
<1> SUFFICES ASSUME AgentInit PROVE TallyInv
  OBVIOUS
<1>1. memory_written \in BOOLEAN /\ marked \in BOOLEAN /\ delivered \in BOOLEAN
  BY DEF AgentInit
<1>2. /\ turns_since_notify = 0 /\ only_notify_turns = 0 /\ fails = 0 /\ completions = 0
      /\ mode = "stream" /\ status = "none" /\ result = NoText
  BY DEF AgentInit
<1>3. NotifyTurns \in Nat /\ OnlyNotifyTurns \in Nat /\ MaxFails \in Nat /\ result \in Texts
  BY <1>2, CounterAssumption DEF Texts
<1> QED
  BY <1>1, <1>2, <1>3 DEF TallyInv

\* The counters a turn's tools move are cut off at their limits.
LEMMA TallyTools ==
    ASSUME TallyInv, NEW t \in Turns, OpenAITools(t) \/ ClaudeTools(t) \/ GeminiTools(t)
    PROVE  TallyInv'
<1>1. RunTools(t) /\ UNCHANGED emitVars
  BY DEF OpenAITools, ClaudeTools, GeminiTools, RunTools
<1>2. /\ NotifyTurns \in Nat /\ OnlyNotifyTurns \in Nat /\ MaxFails \in Nat
      /\ turns_since_notify \in Nat /\ only_notify_turns \in Nat /\ fails \in 0..MaxFails
      /\ completions \in Nat /\ completions \in 0..2 /\ t.confirms \in Nat
      /\ t.outcome \in {"fail", "ok", "other"}
  BY CounterAssumption DEF TallyInv, Turns
<1>3. only_notify_turns' \in 0..OnlyNotifyTurns
  <2>1. OnlyNotify(t) \in Nat
    BY <1>2 DEF OnlyNotify
  <2> QED
    BY <1>1, <1>2, <2>1, Capped DEF RunTools
<1>4. turns_since_notify' \in 0..NotifyTurns
  <2>1. SinceNotify(t) \in Nat
    BY <1>2 DEF SinceNotify
  <2>2. Min({SinceNotify(t), NotifyTurns}) \in 0..NotifyTurns
    BY <1>2, <2>1, Capped
  <2>3. turns_since_notify' \in {0, Min({SinceNotify(t), NotifyTurns})}
    BY <1>1 DEF RunTools
  <2> QED
    BY <1>2, <2>2, <2>3
<1>5. fails' \in 0..MaxFails
  <2>1. Min({fails + 1, MaxFails}) \in 0..MaxFails
    <3>1. fails + 1 \in Nat
      BY <1>2
    <3> QED
      BY <1>2, <3>1, Capped
  <2>2. FailCount(t) \in {fails, 0, Min({fails + 1, MaxFails})}
    BY <1>2 DEF FailCount
  <2> QED
    BY <1>1, <1>2, <2>1, <2>2 DEF RunTools
<1>6. completions' \in 0..2
  <2>1. completions + t.confirms \in Nat /\ 2 \in Nat
    BY <1>2
  <2>2. Min({completions + t.confirms, 2}) \in 0..2
    BY <2>1, Capped
  <2>3. completions' \in {completions, Min({completions + t.confirms, 2})}
    BY DEF OpenAITools, ClaudeTools, GeminiTools
  <2> QED
    BY <1>2, <2>2, <2>3
<1>7. memory_written' \in BOOLEAN /\ marked' \in BOOLEAN /\ delivered' \in BOOLEAN
  BY <1>1 DEF RunTools, MarkSent
<1>8. mode' = "stream" /\ UNCHANGED <<status, result>>
  BY <1>1 DEF RunTools, CallReturned, emitVars
<1> QED
  BY <1>3, <1>4, <1>5, <1>6, <1>7, <1>8 DEF TallyInv

\* Every step keeps the tallies of messages, failures and emitted markers.
LEMMA TallyNext == TallyInv /\ ClaimInv /\ [AgentNext]_agentVars => TallyInv'
<1> SUFFICES ASSUME TallyInv, ClaimInv, [AgentNext]_agentVars PROVE TallyInv'
  OBVIOUS
<1> DEFINE counters == <<turns_since_notify, only_notify_turns, memory_written, fails, completions>>
<1>1. ASSUME UNCHANGED <<counters, sendVars, emitVars>>, mode' \in {"stream", "plain", "auto"}
      PROVE  TallyInv'
  BY <1>1 DEF TallyInv, sendVars, emitVars
<1>2. mode \in {"stream", "plain", "auto"} /\ final \in Texts \cup {"notice"}
  BY DEF TallyInv, ClaimInv
<1> USE DEF counterVars, callVars
<1>3. ASSUME NEW i \in Inputs, NEW prior \in Priors, ReadInput(i, prior) PROVE TallyInv'
  <2>1. UNCHANGED <<counters, sendVars, mode, result>> /\ status' \in {status, "error"}
    BY <1>3 DEF ReadInput
  <2> QED
    BY <2>1 DEF TallyInv, sendVars
<1>4. CASE PrepareTurn
  <2>1. UNCHANGED <<counters, sendVars, emitVars>> /\ mode' = "stream"
    BY <1>4 DEF PrepareTurn
  <2> HIDE DEF counters
  <2> QED
    BY <1>1, <2>1
<1>5. CASE LoopExhausted
  <2>1. UNCHANGED <<counters, sendVars, emitVars>> /\ mode' = mode
    BY <1>5 DEF LoopExhausted
  <2> HIDE DEF counters
  <2> QED
    BY <1>1, <1>2, <2>1
<1>6. ASSUME NEW e \in Errors, CallFails(e) PROVE TallyInv'
  <2>1. UNCHANGED <<counters, sendVars>>
    BY <1>6 DEF CallFails
  <2>2. /\ mode' \in {mode, "plain", "auto"} /\ status' \in {status, "success", "error"}
        /\ result' \in {result, "hint"}
    BY <1>6 DEF CallFails, GiveUpCall, RetryCall, RetryStep, emitVars
  <2> QED
    BY <1>2, <2>1, <2>2 DEF TallyInv, sendVars
<1>7. ASSUME NEW t \in Texts, LengthStop(t) \/ OpenAIText(t) \/ ClaudeText(t) \/ GeminiText(t)
      PROVE  TallyInv'
  <2>1. UNCHANGED <<counters, sendVars, emitVars>> /\ mode' = "stream"
    BY <1>7 DEF LengthStop, OpenAIText, OpenAITextReply, ClaudeText, GeminiText, TextReply,
                CallReturned
  <2> HIDE DEF counters
  <2> QED
    BY <1>1, <2>1
<1>8. CASE GeminiBlocked \/ GeminiEmpty \/ ClaudeNoBlocks
  <2>1. UNCHANGED <<counters, sendVars, emitVars>> /\ mode' = "stream"
    BY <1>8 DEF GeminiBlocked, GeminiEmpty, ClaudeNoBlocks, EmptyReply, CallReturned
  <2> HIDE DEF counters
  <2> QED
    BY <1>1, <2>1
<1>9. ASSUME NEW t \in Texts, NEW s \in Sends \cup {"no"}, ClaudeOtherStop(t, s) PROVE TallyInv'
  <2>1. UNCHANGED <<counters, emitVars>> /\ mode' = "stream"
    BY <1>9 DEF ClaudeOtherStop, CallReturned
  <2>2. marked' \in BOOLEAN /\ delivered' \in BOOLEAN
    BY <1>9 DEF ClaudeOtherStop, MarkSent
  <2> QED
    BY <2>1, <2>2 DEF TallyInv, emitVars
<1>10. ASSUME NEW t \in Turns, OpenAITools(t) \/ ClaudeTools(t) \/ GeminiTools(t) PROVE TallyInv'
  BY <1>10, TallyTools
<1>11. CASE Emit
  <2>1. UNCHANGED <<counters, sendVars, mode>> /\ status' = "success"
    BY <1>11 DEF Emit
  <2>2. result' \in {NoText, "notice", final}
    BY <1>11 DEF Emit
  <2>3. result' \in Texts \cup {"notice", "hint"}
    BY <1>2, <2>2 DEF Texts
  <2> QED
    BY <2>1, <2>3 DEF TallyInv, sendVars
<1>12. CASE UNCHANGED agentVars
  <2>1. UNCHANGED <<counters, sendVars, emitVars>> /\ mode' = mode
    BY <1>12 DEF agentVars
  <2> HIDE DEF counters
  <2> QED
    BY <1>1, <1>2, <2>1
<1> QED
  BY <1>3, <1>4, <1>5, <1>6, <1>7, <1>8, <1>9, <1>10, <1>11, <1>12 DEF AgentNext

-----------------------------------------------------------------------------
AgentInv == HistoryInv /\ KeysInv /\ ClaimInv /\ TallyInv

\* The four invariants together say what the run checks.
LEMMA AgentEnough == AgentInv => AgentSound
<1> SUFFICES ASSUME AgentInv PROVE AgentSound
  OBVIOUS
<1>1. AgentTypeOK
  <2>1. MaxIter \in Nat /\ \A i \in DOMAIN history : history[i] \in MessageKinds
    BY IterAssumption DEF AgentInv, HistoryInv
  <2>2. warned \in 0..MaxIter /\ n \in 0..MaxIter
    BY <2>1 DEF AgentInv, ClaimInv
  <2>3. {substantive, memory_written, marked, delivered, cut} \subseteq BOOLEAN
    BY DEF AgentInv, ClaimInv, TallyInv
  <2>4. /\ backend \in Backends
        /\ phase \in {"start", "turn", "call", "returned", "done"}
        /\ no_tool_turns \in 0..NoToolCap /\ final \in Texts \cup {"notice"}
    BY DEF AgentInv, ClaimInv, HistoryInv
  <2>5. attempt \in 0..(MaxAttempts - 1) /\ key \in 0..(PoolSize - 1)
        /\ limited \subseteq 0..(PoolSize - 1)
    BY DEF AgentInv, KeysInv, Pool
  <2>6. /\ mode \in {"stream", "plain", "auto"}
        /\ turns_since_notify \in 0..NotifyTurns /\ only_notify_turns \in 0..OnlyNotifyTurns
        /\ fails \in 0..MaxFails /\ completions \in 0..2
        /\ status \in {"none", "success", "error"}
        /\ result \in Texts \cup {"notice", "hint"}
    BY DEF AgentInv, TallyInv
  <2> QED
    BY <2>1, <2>2, <2>3, <2>4, <2>5, <2>6 DEF AgentTypeOK
<1>2. RequestWellFormed
  <2> SUFFICES ASSUME phase = "call", NEW i \in 1..(Len(history) + 2)
               PROVE  (\E j \in DOMAIN history : j < i /\ i - j <= Replies(history[j]))
                      <=> (i \in DOMAIN history /\ history[i] = "tool")
    BY DEF RequestWellFormed
  <2>1. DOMAIN history = 1..Len(history) /\ Paired(backend, history)
    BY DEF AgentInv, HistoryInv, Sendable
  <2>2. \A m : Replies(m) = Need(backend, m)
    BY DEF Replies, Need
  <2> QED
    BY <2>1, <2>2 DEF Paired, Asks
<1>3. LimitedKeysSkipped
  BY ArcLeavesKey DEF AgentInv, LimitedKeysSkipped, Pool
<1> QED
  BY <1>1, <1>2, <1>3 DEF AgentSound, AgentInv, ClaimInv

\* For any limits, histories and number of keys, whatever the model answers and however
\* its calls fail: every request answers each tool call directly after it and holds no
\* stray result, no claim of work that no tool backs is accepted before the loop has
\* challenged such claims as often as it allows (or on the last turn, or cut short), and
\* no call uses a key with a rate limit while the pool has another (the three loops of
\* agent.py, _trim_history, _llm_call_with_retry, _KeyPool).
THEOREM AgentStaysSound == AgentSpec => []AgentSound
<1>1. AgentInit => AgentInv
  BY HistoryInit, KeysInit, ClaimInit, TallyInit DEF AgentInv
<1>2. AgentInv /\ [AgentNext]_agentVars => AgentInv'
  BY HistoryNext, KeysNext, ClaimNext, TallyNext DEF AgentInv
<1>3. AgentInv => AgentSound
  BY AgentEnough
<1> QED
  BY <1>1, <1>2, <1>3, PTL DEF AgentSpec

=============================================================================
