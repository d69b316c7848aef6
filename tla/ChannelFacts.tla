---------------------------- MODULE ChannelFacts ----------------------------
(***************************************************************************)
(* What a send to and a receive from a buffered channel do to the values   *)
(* in it.  Both pools hand their workers around in such a channel, modelled *)
(* as a sequence with the oldest value first.                              *)
(***************************************************************************)
EXTENDS Integers, Sequences, Functions, TLAPS

\* What a send adds.
LEMMA AppendFacts ==
    ASSUME NEW V, NEW s \in Seq(V), NEW v \in V
    PROVE  /\ Append(s, v) \in Seq(V)
           /\ Len(Append(s, v)) = Len(s) + 1
           /\ \A i \in 1 .. Len(s) : Append(s, v)[i] = s[i]
           /\ Append(s, v)[Len(s) + 1] = v
  OBVIOUS

\* What a receive takes.
LEMMA TailFacts ==
    ASSUME NEW V, NEW s \in Seq(V), s # <<>>
    PROVE  /\ Head(s) \in V /\ Head(s) = s[1]
           /\ Len(s) \in Nat /\ Len(s) >= 1
           /\ Tail(s) \in Seq(V)
           /\ Len(Tail(s)) = Len(s) - 1
           /\ \A i \in 1 .. Len(s) - 1 : Tail(s)[i] = s[i + 1]
  OBVIOUS

\* A send adds its value to the set of values in the channel.
LEMMA RangeAppend ==
    ASSUME NEW V, NEW s \in Seq(V), NEW v \in V
    PROVE  /\ Range(Append(s, v)) = Range(s) \cup {v}
           /\ IsInjective(s) /\ v \notin Range(s) => IsInjective(Append(s, v))
<1> DEFINE t == Append(s, v)
<1>1. /\ Len(s) \in Nat
      /\ DOMAIN s = 1 .. Len(s)
      /\ DOMAIN t = 1 .. Len(s) + 1
      /\ \A i \in 1 .. Len(s) : t[i] = s[i]
      /\ t[Len(s) + 1] = v
  BY AppendFacts
<1> HIDE DEF t
<1>2. Range(t) = Range(s) \cup {v}
  BY <1>1 DEF Range
<1>3. ASSUME IsInjective(s), v \notin Range(s) PROVE IsInjective(t)
  BY <1>1, <1>3 DEF Range, IsInjective
<1>4. QED
  BY <1>2, <1>3 DEF t

\* A receive removes the head, the only copy of it if there are no duplicates.
LEMMA RangeTail ==
    ASSUME NEW V, NEW s \in Seq(V), s # <<>>
    PROVE  /\ Head(s) \in V
           /\ Range(s) = Range(Tail(s)) \cup {Head(s)}
           /\ IsInjective(s) =>
                 IsInjective(Tail(s)) /\ Head(s) \notin Range(Tail(s))
<1> DEFINE t == Tail(s)
<1> DEFINE h == Head(s)
<1>1. /\ Len(s) \in Nat /\ Len(s) >= 1
      /\ DOMAIN s = 1 .. Len(s)
      /\ DOMAIN t = 1 .. Len(s) - 1
      /\ \A i \in 1 .. Len(s) - 1 : t[i] = s[i + 1]
      /\ h = s[1] /\ h \in V
  BY TailFacts
<1> HIDE DEF t, h
<1>2. Range(s) = Range(t) \cup {h}
  <2>1. ASSUME NEW i \in 1 .. Len(s) PROVE s[i] \in Range(t) \cup {h}
    <3>1. CASE i = 1
      BY <1>1, <3>1
    <3>2. CASE i # 1
      <4>1. i - 1 \in DOMAIN t /\ t[i - 1] = s[i]
        BY <1>1, <3>2
      <4>2. QED
        BY <4>1 DEF Range
    <3>3. QED
      BY <3>1, <3>2
  <2>2. Range(t) \cup {h} \subseteq Range(s)
    BY <1>1 DEF Range
  <2>3. QED
    BY <1>1, <2>1, <2>2 DEF Range
<1>3. ASSUME IsInjective(s) PROVE IsInjective(t) /\ h \notin Range(t)
  <2>1. IsInjective(t)
    BY <1>1, <1>3 DEF IsInjective
  <2>2. h \notin Range(t)
    BY <1>1, <1>3 DEF IsInjective, Range
  <2>3. QED
    BY <2>1, <2>2
<1>4. QED
  BY <1>1, <1>2, <1>3 DEF t, h

=============================================================================
