--------------------------- MODULE Control_proofs ---------------------------
(* Theorems about WifiControl, and in the last part about HostPowerSave,    *)
(* which shares no variable and no definition with it.                      *)
EXTENDS WifiControl, HostPowerSave, TLAPS

-----------------------------------------------------------------------------
(* Queues: what is in them and in which order.                              *)

In(s, S) == \E i \in 1..Len(s) : s[i] \in S
All(s, S) == \A i \in 1..Len(s) : s[i] \in S
\* Each of S is followed by one of T.
Followed(s, S, T) ==
    \A i \in 1..Len(s) : s[i] \in S => \E j \in 1..Len(s) : j > i /\ s[j] \in T
\* Behind one of S come only members of T.
Behind(s, S, T) == \A i, j \in 1..Len(s) : i < j /\ s[i] \in S => s[j] \in T
\* Before each of S comes one of T.
Preceded(s, S, T) ==
    \A i \in 1..Len(s) : s[i] \in S => \E j \in 1..Len(s) : j < i /\ s[j] \in T
\* Between two of S comes one of T.
Parted(s, S, T) ==
    \A i, j \in 1..Len(s) : i < j /\ s[i] \in S /\ s[j] \in S
                              => \E k \in 1..Len(s) : i < k /\ k < j /\ s[k] \in T


LEMMA AppendElements ==
  ASSUME NEW M, NEW s \in Seq(M), NEW x \in M
  PROVE  /\ Len(s) \in Nat /\ Len(Append(s, x)) = Len(s) + 1
         /\ \A i \in 1..Len(s) : Append(s, x)[i] = s[i]
         /\ Append(s, x)[Len(s) + 1] = x
  OBVIOUS

LEMMA TailElements ==
  ASSUME NEW M, NEW s \in Seq(M), s # << >>
  PROVE  /\ Len(s) \in Nat \ {0} /\ Head(s) = s[1] /\ Head(s) \in M /\ Tail(s) \in Seq(M)
         /\ Len(Tail(s)) = Len(s) - 1
         /\ \A i \in 1..(Len(s) - 1) : Tail(s)[i] = s[i + 1]
  OBVIOUS

LEMMA NothingIn ==
  ASSUME NEW S, NEW T
  PROVE  /\ ~In(<< >>, S) /\ All(<< >>, S) /\ Followed(<< >>, S, T) /\ Behind(<< >>, S, T)
         /\ Preceded(<< >>, S, T) /\ Parted(<< >>, S, T)
  BY DEF In, All, Followed, Behind, Preceded, Parted

LEMMA InAppend ==
  ASSUME NEW M, NEW s \in Seq(M), NEW x \in M, NEW S
  PROVE  In(Append(s, x), S) <=> In(s, S) \/ x \in S
<1> DEFINE k == Len(s) t == Append(s, x)
<1>1. /\ k \in Nat /\ Len(t) = k + 1
      /\ \A i \in 1..k : t[i] = s[i]
      /\ t[k + 1] = x
  BY AppendElements
<1> SUFFICES In(t, S) <=> In(s, S) \/ x \in S
  OBVIOUS
<1> HIDE DEF t
<1>2. In(s, S) <=> \E i \in 1..k : s[i] \in S
  BY DEF In
<1>3. In(t, S) <=> \E i \in 1..(k + 1) : t[i] \in S
  BY <1>1 DEF In
<1> HIDE DEF k
<1> QED
  BY <1>1, <1>2, <1>3

LEMMA InTail ==
  ASSUME NEW M, NEW s \in Seq(M), s # << >>, NEW S
  PROVE  In(s, S) <=> Head(s) \in S \/ In(Tail(s), S)
<1> DEFINE k == Len(s) t == Tail(s)
<1>1. /\ k \in Nat \ {0} /\ Len(t) = k - 1 /\ Head(s) = s[1]
      /\ \A i \in 1..(k - 1) : t[i] = s[i + 1]
  BY TailElements
<1> SUFFICES In(s, S) <=> Head(s) \in S \/ In(t, S)
  OBVIOUS
<1> HIDE DEF t
<1>2. In(s, S) <=> \E i \in 1..k : s[i] \in S
  BY DEF In
<1>3. In(t, S) <=> \E i \in 1..(k - 1) : t[i] \in S
  BY <1>1 DEF In
<1> HIDE DEF k
<1>4. ASSUME In(s, S) PROVE Head(s) \in S \/ In(t, S)
  <2>1. PICK i \in 1..k : s[i] \in S
    BY <1>2, <1>4
  <2>2. CASE i = 1
    BY <1>1, <2>1, <2>2
  <2>3. CASE i # 1
    <3>1. i - 1 \in 1..(k - 1) /\ t[i - 1] = s[(i - 1) + 1] /\ (i - 1) + 1 = i
      BY <1>1, <2>3
    <3> QED
      BY <1>3, <2>1, <3>1
  <2> QED
    BY <2>2, <2>3
<1>5. ASSUME In(t, S) PROVE In(s, S)
  <2>1. PICK i \in 1..(k - 1) : t[i] \in S
    BY <1>3, <1>5
  <2>2. i + 1 \in 1..k /\ t[i] = s[i + 1]
    BY <1>1
  <2> QED
    BY <1>2, <2>1, <2>2
<1>6. ASSUME Head(s) \in S PROVE In(s, S)
  <2>1. 1 \in 1..k
    BY <1>1
  <2> QED
    BY <1>1, <1>2, <1>6, <2>1
<1> QED
  BY <1>4, <1>5, <1>6

LEMMA AllIsNone ==
  ASSUME NEW M, NEW s \in Seq(M), NEW S
  PROVE  All(s, S) <=> ~In(s, M \ S)
<1>1. \A i \in 1..Len(s) : s[i] \in M
  OBVIOUS
<1> QED
  BY <1>1 DEF All, In

LEMMA AllAppend ==
  ASSUME NEW M, NEW s \in Seq(M), NEW x \in M, NEW S
  PROVE  All(Append(s, x), S) <=> All(s, S) /\ x \in S
<1>1. Append(s, x) \in Seq(M)
  OBVIOUS
<1>2. All(s, S) <=> ~In(s, M \ S)
  BY AllIsNone
<1>3. All(Append(s, x), S) <=> ~In(Append(s, x), M \ S)
  BY <1>1, AllIsNone
<1>4. In(Append(s, x), M \ S) <=> In(s, M \ S) \/ x \in M \ S
  BY InAppend
<1> QED
  BY <1>2, <1>3, <1>4

LEMMA AllTail ==
  ASSUME NEW M, NEW s \in Seq(M), s # << >>, NEW S
  PROVE  All(s, S) <=> Head(s) \in S /\ All(Tail(s), S)
<1>1. Head(s) \in M /\ Tail(s) \in Seq(M)
  BY TailElements
<1>2. All(s, S) <=> ~In(s, M \ S)
  BY AllIsNone
<1>3. All(Tail(s), S) <=> ~In(Tail(s), M \ S)
  BY <1>1, AllIsNone
<1>4. In(s, M \ S) <=> Head(s) \in M \ S \/ In(Tail(s), M \ S)
  BY InTail
<1> QED
  BY <1>1, <1>2, <1>3, <1>4
LEMMA FollowedAppend ==
  ASSUME NEW M, NEW s \in Seq(M), NEW x \in M, NEW S, NEW T,
         x \notin S, Followed(s, S, T) \/ x \in T
  PROVE  Followed(Append(s, x), S, T)
<1> DEFINE k == Len(s) t == Append(s, x)
<1>1. /\ k \in Nat /\ Len(t) = k + 1
      /\ \A i \in 1..k : t[i] = s[i]
      /\ t[k + 1] = x
  BY AppendElements
<1> SUFFICES Followed(t, S, T)
  OBVIOUS
<1> HIDE DEF t
<1>2. Followed(s, S, T) => \A i \in 1..k : s[i] \in S => \E j \in 1..k : j > i /\ s[j] \in T
  BY DEF Followed
<1> HIDE DEF k
<1> SUFFICES ASSUME NEW i \in 1..(k + 1), t[i] \in S PROVE \E j \in 1..(k + 1) : j > i /\ t[j] \in T
  BY <1>1 DEF Followed
<1>3. i \in 1..k /\ s[i] \in S
  BY <1>1
<1>4. CASE x \in T
  <2>1. k + 1 \in 1..(k + 1) /\ k + 1 > i
    BY <1>1, <1>3
  <2> QED
    BY <1>1, <1>4, <2>1
<1>5. CASE Followed(s, S, T)
  <2>1. PICK j \in 1..k : j > i /\ s[j] \in T
    BY <1>2, <1>3, <1>5
  <2>2. j \in 1..(k + 1) /\ t[j] = s[j]
    BY <1>1
  <2> QED
    BY <2>1, <2>2
<1> QED
  BY <1>4, <1>5

LEMMA FollowedTail ==
  ASSUME NEW M, NEW s \in Seq(M), s # << >>, NEW S, NEW T, Followed(s, S, T)
  PROVE  Followed(Tail(s), S, T) /\ (Head(s) \in S => In(Tail(s), T))
<1> DEFINE k == Len(s) t == Tail(s)
<1>1. /\ k \in Nat \ {0} /\ Len(t) = k - 1 /\ Head(s) = s[1]
      /\ \A i \in 1..(k - 1) : t[i] = s[i + 1]
  BY TailElements
<1> SUFFICES Followed(t, S, T) /\ (Head(s) \in S => In(t, T))
  OBVIOUS
<1> HIDE DEF t
<1>2. \A i \in 1..k : s[i] \in S => \E j \in 1..k : j > i /\ s[j] \in T
  BY DEF Followed
<1> HIDE DEF k
<1>3. ASSUME NEW i \in 1..k, s[i] \in S PROVE \E j \in 1..(k - 1) : j > i - 1 /\ t[j] \in T
  <2>1. PICK j \in 1..k : j > i /\ s[j] \in T
    BY <1>2, <1>3
  <2>2. j - 1 \in 1..(k - 1) /\ j - 1 > i - 1 /\ t[j - 1] = s[(j - 1) + 1] /\ (j - 1) + 1 = j
    BY <1>1, <2>1
  <2> QED
    BY <2>1, <2>2
<1>4. Followed(t, S, T)
  <2> SUFFICES ASSUME NEW i \in 1..(k - 1), t[i] \in S
               PROVE  \E j \in 1..(k - 1) : j > i /\ t[j] \in T
    BY <1>1 DEF Followed
  <2>1. i + 1 \in 1..k /\ s[i + 1] \in S /\ (i + 1) - 1 = i
    BY <1>1
  <2>2. PICK j \in 1..(k - 1) : j > (i + 1) - 1 /\ t[j] \in T
    BY <1>3, <2>1
  <2> QED
    BY <2>1, <2>2
<1>5. Head(s) \in S => In(t, T)
  <2> SUFFICES ASSUME s[1] \in S PROVE \E j \in 1..(k - 1) : t[j] \in T
    BY <1>1 DEF In
  <2>1. 1 \in 1..k
    BY <1>1
  <2> QED
    BY <1>3, <2>1
<1> QED
  BY <1>4, <1>5

LEMMA BehindAppend ==
  ASSUME NEW M, NEW s \in Seq(M), NEW x \in M, NEW S, NEW T, Behind(s, S, T), In(s, S) => x \in T
  PROVE  Behind(Append(s, x), S, T)
<1> DEFINE k == Len(s) t == Append(s, x)
<1>1. /\ k \in Nat /\ Len(t) = k + 1
      /\ \A i \in 1..k : t[i] = s[i]
      /\ t[k + 1] = x
  BY AppendElements
<1> SUFFICES Behind(t, S, T)
  OBVIOUS
<1> HIDE DEF t
<1>2. \A i, j \in 1..k : i < j /\ s[i] \in S => s[j] \in T
  BY DEF Behind
<1>3. (\E i \in 1..k : s[i] \in S) => x \in T
  BY DEF In
<1> HIDE DEF k
<1> SUFFICES ASSUME NEW i \in 1..(k + 1), NEW j \in 1..(k + 1), i < j, t[i] \in S PROVE t[j] \in T
  BY <1>1 DEF Behind
<1>4. i \in 1..k /\ s[i] \in S
  BY <1>1
<1>5. CASE j \in 1..k
  BY <1>1, <1>2, <1>4, <1>5
<1>6. CASE j = k + 1
  BY <1>1, <1>3, <1>4, <1>6
<1> QED
  BY <1>1, <1>5, <1>6

LEMMA BehindTail ==
  ASSUME NEW M, NEW s \in Seq(M), s # << >>, NEW S, NEW T, Behind(s, S, T)
  PROVE  Behind(Tail(s), S, T) /\ (Head(s) \in S => All(Tail(s), T))
<1> DEFINE k == Len(s) t == Tail(s)
<1>1. /\ k \in Nat \ {0} /\ Len(t) = k - 1 /\ Head(s) = s[1]
      /\ \A i \in 1..(k - 1) : t[i] = s[i + 1]
  BY TailElements
<1> SUFFICES Behind(t, S, T) /\ (Head(s) \in S => All(t, T))
  OBVIOUS
<1> HIDE DEF t
<1>2. \A i, j \in 1..k : i < j /\ s[i] \in S => s[j] \in T
  BY DEF Behind
<1> HIDE DEF k
<1>3. Behind(t, S, T)
  <2> SUFFICES ASSUME NEW i \in 1..(k - 1), NEW j \in 1..(k - 1), i < j, t[i] \in S PROVE t[j] \in T
    BY <1>1 DEF Behind
  <2>1. i + 1 \in 1..k /\ j + 1 \in 1..k /\ i + 1 < j + 1 /\ t[i] = s[i + 1] /\ t[j] = s[j + 1]
    BY <1>1
  <2> QED
    BY <1>2, <2>1
<1>4. Head(s) \in S => All(t, T)
  <2> SUFFICES ASSUME s[1] \in S, NEW j \in 1..(k - 1) PROVE t[j] \in T
    BY <1>1 DEF All
  <2>1. 1 \in 1..k /\ j + 1 \in 1..k /\ 1 < j + 1 /\ t[j] = s[j + 1]
    BY <1>1
  <2> QED
    BY <1>2, <2>1
<1> QED
  BY <1>3, <1>4

LEMMA PrecededAppend ==
  ASSUME NEW M, NEW s \in Seq(M), NEW x \in M, NEW S, NEW T, Preceded(s, S, T), x \in S => In(s, T)
  PROVE  Preceded(Append(s, x), S, T)
<1> DEFINE k == Len(s) t == Append(s, x)
<1>1. /\ k \in Nat /\ Len(t) = k + 1
      /\ \A i \in 1..k : t[i] = s[i]
      /\ t[k + 1] = x
  BY AppendElements
<1> SUFFICES Preceded(t, S, T)
  OBVIOUS
<1> HIDE DEF t
<1>2. \A i \in 1..k : s[i] \in S => \E j \in 1..k : j < i /\ s[j] \in T
  BY DEF Preceded
<1>3. x \in S => \E j \in 1..k : s[j] \in T
  BY DEF In
<1> HIDE DEF k
<1> SUFFICES ASSUME NEW i \in 1..(k + 1), t[i] \in S PROVE \E j \in 1..k : j < i /\ s[j] \in T
  <2>1. \A j \in 1..k : j \in 1..(k + 1) /\ t[j] = s[j]
    BY <1>1
  <2> QED
    BY <1>1, <2>1 DEF Preceded
<1>4. CASE i \in 1..k
  BY <1>1, <1>2, <1>4
<1>5. CASE i = k + 1
  <2>1. PICK j \in 1..k : s[j] \in T
    BY <1>1, <1>3, <1>5
  <2> QED
    BY <1>1, <1>5, <2>1
<1> QED
  BY <1>1, <1>4, <1>5

LEMMA PrecededTail ==
  ASSUME NEW M, NEW s \in Seq(M), s # << >>, NEW S, NEW T, Preceded(s, S, T)
  PROVE  Head(s) \notin S /\ (Head(s) \notin T => Preceded(Tail(s), S, T))
<1> DEFINE k == Len(s) t == Tail(s)
<1>1. /\ k \in Nat \ {0} /\ Len(t) = k - 1 /\ Head(s) = s[1]
      /\ \A i \in 1..(k - 1) : t[i] = s[i + 1]
  BY TailElements
<1> SUFFICES Head(s) \notin S /\ (Head(s) \notin T => Preceded(t, S, T))
  OBVIOUS
<1> HIDE DEF t
<1>2. \A i \in 1..k : s[i] \in S => \E j \in 1..k : j < i /\ s[j] \in T
  BY DEF Preceded
<1> HIDE DEF k
<1>3. Head(s) \notin S
  <2>1. 1 \in 1..k /\ ~\E j \in 1..k : j < 1
    BY <1>1
  <2> QED
    BY <1>1, <1>2, <2>1
<1>4. ASSUME Head(s) \notin T PROVE Preceded(t, S, T)
  <2> SUFFICES ASSUME NEW i \in 1..(k - 1), t[i] \in S
               PROVE  \E j \in 1..(k - 1) : j < i /\ t[j] \in T
    BY <1>1 DEF Preceded
  <2>1. i + 1 \in 1..k /\ s[i + 1] \in S
    BY <1>1
  <2>2. PICK j \in 1..k : j < i + 1 /\ s[j] \in T
    BY <1>2, <2>1
  <2>3. j # 1
    BY <1>1, <1>4, <2>2
  <2>4. j - 1 \in 1..(k - 1) /\ j - 1 < i /\ t[j - 1] = s[(j - 1) + 1] /\ (j - 1) + 1 = j
    BY <1>1, <2>2, <2>3
  <2> QED
    BY <2>2, <2>4
<1> QED
  BY <1>3, <1>4

LEMMA PartedAppend ==
  ASSUME NEW M, NEW s \in Seq(M), NEW x \in M, NEW S, NEW T,
         Parted(s, S, T), x \in S => Followed(s, S, T)
  PROVE  Parted(Append(s, x), S, T)
<1> DEFINE k == Len(s) t == Append(s, x)
<1>1. /\ k \in Nat /\ Len(t) = k + 1
      /\ \A i \in 1..k : t[i] = s[i]
      /\ t[k + 1] = x
  BY AppendElements
<1> SUFFICES Parted(t, S, T)
  OBVIOUS
<1> HIDE DEF t
<1>2. \A i, j \in 1..k : i < j /\ s[i] \in S /\ s[j] \in S
                          => \E n \in 1..k : i < n /\ n < j /\ s[n] \in T
  BY DEF Parted
<1>3. x \in S => \A i \in 1..k : s[i] \in S => \E n \in 1..k : n > i /\ s[n] \in T
  BY DEF Followed
<1> HIDE DEF k
<1> SUFFICES ASSUME NEW i \in 1..(k + 1), NEW j \in 1..(k + 1), i < j, t[i] \in S, t[j] \in S
             PROVE  \E n \in 1..k : i < n /\ n < j /\ s[n] \in T
  <2>1. \A n \in 1..k : n \in 1..(k + 1) /\ t[n] = s[n]
    BY <1>1
  <2> QED
    BY <1>1, <2>1 DEF Parted
<1>4. i \in 1..k /\ s[i] \in S
  BY <1>1
<1>5. CASE j \in 1..k
  BY <1>1, <1>2, <1>4, <1>5
<1>6. CASE j = k + 1
  <2>1. PICK n \in 1..k : n > i /\ s[n] \in T
    BY <1>1, <1>3, <1>4, <1>6
  <2> QED
    BY <1>1, <1>6, <2>1
<1> QED
  BY <1>1, <1>5, <1>6

LEMMA PartedTail ==
  ASSUME NEW M, NEW s \in Seq(M), s # << >>, NEW S, NEW T, Parted(s, S, T)
  PROVE  Parted(Tail(s), S, T) /\ (Head(s) \in S => Preceded(Tail(s), S, T))
<1> DEFINE k == Len(s) t == Tail(s)
<1>1. /\ k \in Nat \ {0} /\ Len(t) = k - 1 /\ Head(s) = s[1]
      /\ \A i \in 1..(k - 1) : t[i] = s[i + 1]
  BY TailElements
<1> SUFFICES Parted(t, S, T) /\ (Head(s) \in S => Preceded(t, S, T))
  OBVIOUS
<1> HIDE DEF t
<1>2. \A i, j \in 1..k : i < j /\ s[i] \in S /\ s[j] \in S
                          => \E n \in 1..k : i < n /\ n < j /\ s[n] \in T
  BY DEF Parted
<1> HIDE DEF k
<1>3. ASSUME NEW i \in 1..k, NEW j \in 1..(k - 1), i < j + 1, s[i] \in S, t[j] \in S
      PROVE  \E n \in 1..(k - 1) : i - 1 < n /\ n < j /\ t[n] \in T
  <2>1. j + 1 \in 1..k /\ t[j] = s[j + 1]
    BY <1>1
  <2>2. PICK n \in 1..k : i < n /\ n < j + 1 /\ s[n] \in T
    BY <1>2, <1>3, <2>1
  <2>3. n - 1 \in 1..(k - 1) /\ i - 1 < n - 1 /\ n - 1 < j
    BY <1>1, <2>2
  <2>4. t[n - 1] = s[n]
    BY <1>1, <2>3
  <2> QED
    BY <2>2, <2>3, <2>4
<1>4. Parted(t, S, T)
  <2> SUFFICES ASSUME NEW i \in 1..(k - 1), NEW j \in 1..(k - 1), i < j, t[i] \in S, t[j] \in S
               PROVE  \E n \in 1..(k - 1) : i < n /\ n < j /\ t[n] \in T
    BY <1>1 DEF Parted
  <2>1. i + 1 \in 1..k /\ i + 1 < j + 1 /\ s[i + 1] \in S /\ (i + 1) - 1 = i
    BY <1>1
  <2>2. PICK n \in 1..(k - 1) : (i + 1) - 1 < n /\ n < j /\ t[n] \in T
    BY <1>3, <2>1
  <2> QED
    BY <2>1, <2>2
<1>5. ASSUME Head(s) \in S PROVE Preceded(t, S, T)
  <2> SUFFICES ASSUME NEW j \in 1..(k - 1), t[j] \in S
               PROVE  \E n \in 1..(k - 1) : n < j /\ t[n] \in T
    BY <1>1 DEF Preceded
  <2>1. 1 \in 1..k /\ 1 < j + 1 /\ s[1] \in S
    BY <1>1, <1>5
  <2> QED
    BY <1>3, <2>1
<1> QED
  BY <1>4, <1>5
-----------------------------------------------------------------------------
(* Messages.                                                                *)

Froms == Nat \cup {NoCaller}
Requests ==
    {m \in Messages : /\ m.kind = "req" /\ m.what \in Ops /\ m.from \in Froms
                      /\ m.from = NoCaller => m.what = "connect"
                      /\ m.what = "set_config" => m.cfg # NoConfig}
Responses == {m \in Messages : m.kind = "rsp" /\ m.what \in Ops /\ m.from \in Froms}
EventMessages == {Event(e) : e \in Events}

\* Each queue carries what it should.
MessagesOK ==
    /\ All(toSlave, Requests) /\ All(reqQ, Requests \cup EventMessages)
    /\ All(toHost, Responses \cup EventMessages)

Statements == [what \in Ops |->
    CASE what = "start" -> {"start", "startEvent"}
      [] what = "stop" -> {"stop"}
      [] what = "connect" -> {"connect", "connectLib", "connectAck"}
      [] what = "disconnect" -> {"disconnect"}
      [] what = "set_config" -> {"set_config", "provision", "provisioned", "flag", "copy",
                                 "same"}]
\* pserial_task executes a statement of the handler of its request.
RpcOK == rpcPc # "idle" => rpc \in Requests /\ rpcPc \in Statements[rpc.what]

\* The event task executes a statement of the handler of its event.
EvOK ==
    /\ evPc = "connect" => ev = "STA_START"
    /\ evPc \in {"apply", "clear"} => ev \in {"STA_CONNECTED", "STA_DISCONNECTED"}
    /\ evPc \in {"drop", "open"} => ev = "STA_CONNECTED"
    /\ evPc \in {"lost", "close"} => ev = "STA_DISCONNECTED"

Typed == TypeOK /\ MessagesOK /\ RpcOK /\ EvOK

LEMMA EventMessage ==
  ASSUME NEW e \in Events
  PROVE  /\ Event(e) \in Messages /\ Event(e) \in EventMessages
         /\ Event(e).kind = "evt" /\ Event(e).what = e /\ Event(e).from = NoCaller
  BY DEF Event, Message, Messages, EventMessages, NoCaller

LEMMA EventsDiffer ==
  ASSUME NEW e \in Events, NEW f \in Events
  PROVE  Event(e) = Event(f) <=> e = f
  BY EventMessage

LEMMA EventKind ==
  ASSUME NEW m \in EventMessages
  PROVE  /\ m \in Messages /\ m.kind = "evt" /\ m.what \in Events /\ m = Event(m.what)
         /\ m.from = NoCaller
<1>1. PICK e \in Events : m = Event(e)
  BY DEF EventMessages
<1> QED
  BY <1>1, EventMessage

LEMMA KindsDiffer ==
  /\ Requests \cap EventMessages = {} /\ Responses \cap EventMessages = {}
  /\ Requests \cap Responses = {}
  BY EventKind DEF Requests, Responses

LEMMA ResponseMessage ==
  ASSUME NEW m \in Requests
  PROVE  /\ Response(m) \in Responses /\ Response(m).what = m.what
         /\ Response(m).from = m.from
<1>1. /\ m \in [kind : {"req", "rsp", "evt"}, what : Ops \cup Events,
                cfg : Configs \cup {NoConfig}, from : Int]
      /\ m.what \in Ops /\ m.from \in Froms
  BY DEF Requests, Messages
<1> QED
  BY <1>1 DEF Response, Responses, Messages

LEMMA CallMessage ==
  ASSUME NEW op \in Ops, NEW cfg \in Configs \cup {NoConfig}, NEW r \in Nat,
         (op = "set_config") = (cfg # NoConfig)
  PROVE  /\ Message("req", op, cfg, r) \in Requests
         /\ Message("req", op, cfg, r).what = op /\ Message("req", op, cfg, r).from = r
  BY DEF Message, Requests, Messages, Froms, NoCaller

LEMMA ConnectMessage ==
  /\ ConnectRequest(NoCaller) \in Requests /\ ConnectRequest(NoCaller).from = NoCaller
  /\ ConnectRequest(NoCaller).what = "connect"
  BY DEF ConnectRequest, Message, Requests, Messages, Froms, NoCaller, Ops

LEMMA NoMessageTyped == NoMessage \in Messages
  BY EventMessage DEF NoMessage, NoEvent, Events

-----------------------------------------------------------------------------
(* Types.                                                                   *)

HostTyped ==
    /\ app \in {"idle", "wait"} /\ calls \in Nat /\ restarts \in Nat /\ drops \in Nat
    /\ calls <= MaxActs /\ restarts <= MaxActs /\ drops <= MaxActs
    /\ hostStarted \in BOOLEAN /\ netifStarted \in BOOLEAN /\ netifConnected \in BOOLEAN
    /\ view \in {"stopped", "started", "connected", "disconnected"}
QueuesTyped ==
    /\ toSlave \in Seq(Messages) /\ toHost \in Seq(Messages)
    /\ reqQ \in Seq(Messages) /\ Len(reqQ) <= ReqQSize
RpcTyped ==
    /\ rpc \in Messages
    /\ rpcPc \in Ops \cup {"idle", "startEvent", "connectLib", "connectAck", "provision",
                        "provisioned", "flag", "copy", "same"}
EventTyped ==
    /\ evPc \in {"idle", "lost", "connect", "apply", "clear", "drop", "close", "send", "open"}
    /\ ev \in Events
StationTyped ==
    /\ newConfigRecvd \in BOOLEAN /\ stationConnected \in BOOLEAN
    /\ stationConnecting \in BOOLEAN /\ rxcb \in BOOLEAN /\ withheld \in BOOLEAN
    /\ overtaken \in BOOLEAN
    /\ newConfig \in Configs \cup {NoConfig} /\ libCfg \in Configs \cup {NoConfig}
    /\ asked \in Configs \cup {NoConfig}
    /\ lib \in {"stopped", "idle", "connecting", "connected"}
    /\ evQ \in Seq(Events)

LEMMA TypedParts ==
  TypeOK <=> HostTyped /\ QueuesTyped /\ RpcTyped /\ EventTyped /\ StationTyped
  BY BoundsAssumption DEF TypeOK, HostTyped, QueuesTyped, RpcTyped, EventTyped, StationTyped

LEMMA TypedInit == Init => Typed
<1> SUFFICES ASSUME Init PROVE Typed
  OBVIOUS
<1>1. HostTyped
  <2>1. calls = 0 /\ restarts = 0 /\ drops = 0 /\ 0 <= MaxActs
    BY BoundsAssumption DEF Init
  <2>2. hostStarted = FALSE /\ netifStarted = FALSE /\ netifConnected = FALSE
    BY DEF Init
  <2>3. app = "idle" /\ view = "stopped"
    BY DEF Init
  <2> QED
    BY <2>1, <2>2, <2>3 DEF HostTyped
<1>2. QueuesTyped
  <2>1. Len(<< >>) <= ReqQSize /\ << >> \in Seq(Messages)
    BY BoundsAssumption
  <2> QED
    BY <2>1 DEF Init, QueuesTyped
<1>3. RpcTyped /\ EventTyped
  BY NoMessageTyped DEF Init, RpcTyped, EventTyped, NoEvent, Events
<1>4. StationTyped
  <2>1. libCfg \in Configs \cup {NoConfig}
    BY ConfigsAssumption DEF Init
  <2>2. evQ \in Seq(Events)
    BY DEF Init
  <2> QED
    BY <2>1, <2>2 DEF Init, StationTyped
<1>5. MessagesOK
  BY NothingIn DEF Init, MessagesOK
<1>6. RpcOK /\ EvOK
  BY DEF Init, RpcOK, EvOK
<1> QED
  BY <1>1, <1>2, <1>3, <1>4, <1>5, <1>6, TypedParts DEF Typed
-----------------------------------------------------------------------------
(* What each part of the system leaves alone.                               *)

HostSide == AppCalls \/ HostRestart \/ HostReceive

LEMMA NextParts ==
  ASSUME [Next]_vars
  PROVE  HostSide \/ RecvRequest \/ LinkUp \/ LinkDown \/ Pserial \/ EventTask \/ UNCHANGED vars
  BY DEF Next, HostSide

LEMMA HostFrame ==
  ASSUME HostSide
  PROVE  UNCHANGED <<reqQ, rpcPc, rpc, evPc, ev, newConfigRecvd, newConfig, stationConnected,
                     stationConnecting, rxcb, withheld, lib, libCfg, evQ, drops, asked,
                     overtaken>>
  BY DEF HostSide, AppCalls, AppCall, HostRestart, HostReceive, HostResponse, OnStart, OnStop,
         OnConnected, OnDisconnected, HostTake, pserial, eventTask, pending, station, link,
         library, history

LEMMA RecvFrame ==
  ASSUME RecvRequest
  PROVE  UNCHANGED <<app, calls, restarts, hostStarted, netifStarted, netifConnected, view,
                     toHost, rpcPc, rpc, evPc, ev, newConfigRecvd, newConfig, stationConnected,
                     stationConnecting, rxcb, withheld, lib, libCfg, evQ, drops, asked,
                     overtaken>>
  BY DEF RecvRequest, hostVars, pserial, eventTask, pending, station, link, library, history

LEMMA LinkFrame ==
  ASSUME LinkUp \/ LinkDown
  PROVE  UNCHANGED <<app, calls, restarts, hostStarted, netifStarted, netifConnected, view,
                     toSlave, toHost, reqQ, rpcPc, rpc, evPc, ev, newConfigRecvd, newConfig,
                     stationConnected, stationConnecting, rxcb, withheld, libCfg, asked,
                     overtaken>>
  BY DEF LinkUp, LinkDown, hostVars, pserial, eventTask, pending, station, link, history

LEMMA PserialFrame ==
  ASSUME Pserial
  PROVE  UNCHANGED <<app, calls, restarts, hostStarted, netifStarted, netifConnected, view,
                     toSlave, evPc, ev, stationConnected, rxcb, drops>>
<1>1. CASE PserialEvent \/ PserialRequest
  BY <1>1 DEF PserialEvent, PserialRequest, hostVars, eventTask, station, link, library
<1>2. CASE StartLib \/ StartEvent \/ StopLib \/ DisconnectLib
  BY <1>2 DEF StartLib, StartEvent, StopLib, DisconnectLib, EspStart, EspStop, EspDisconnect,
              hostVars, eventTask, station, link, library
<1>3. CASE ConnectCheck \/ ConnectLib \/ ConnectAck
  BY <1>3 DEF ConnectCheck, ConnectLib, ConnectAck, EspConnect, hostVars, eventTask, station,
              link, library
<1>4. CASE ConfigCheck \/ ConfigProvision \/ ConfigFlag
  BY <1>4 DEF ConfigCheck, ConfigProvision, ConfigFlag, EspSetConfig, hostVars, eventTask,
              station, link, library
<1>5. CASE ConfigCopy \/ ConfigSame
  BY <1>5 DEF ConfigCopy, ConfigSame, hostVars, eventTask, station, link, library
<1> QED
  BY <1>1, <1>2, <1>3, <1>4, <1>5 DEF Pserial

LEMMA EventFrame ==
  ASSUME EventTask
  PROVE  UNCHANGED <<app, calls, restarts, hostStarted, netifStarted, netifConnected, view,
                     toSlave, toHost, rpcPc, rpc, drops, asked>>
<1>1. CASE TakeConnected \/ TakeDisconnected \/ TakeStart \/ TakeStop
  BY <1>1 DEF TakeConnected, TakeDisconnected, TakeStart, TakeStop, EventTake, EventStep,
              hostVars, pserial
<1>2. CASE StartConnect \/ ApplyPending \/ ClearPending \/ DropLink
  BY <1>2 DEF StartConnect, ApplyPending, ClearPending, DropLink, EventStep, EspConnect,
              EspSetConfig, EspDisconnect, hostVars, pserial, library
<1>3. CASE LostPending \/ CloseData \/ SendEvent \/ OpenData
  BY <1>3 DEF LostPending, CloseData, SendEvent, OpenData, EventStep, hostVars, pserial, library
<1> QED
  BY <1>1, <1>2, <1>3 DEF EventTask

LEMMA StutterFrame ==
  ASSUME UNCHANGED vars
  PROVE  UNCHANGED <<app, calls, restarts, hostStarted, netifStarted, netifConnected, view,
                     toSlave, toHost, reqQ, rpcPc, rpc, evPc, ev, newConfigRecvd, newConfig,
                     stationConnected, stationConnecting, rxcb, withheld, lib, libCfg, evQ,
                     drops, asked, overtaken>>
  BY DEF vars, hostVars, pserial, eventTask, pending, station, link, library, history

-----------------------------------------------------------------------------
(* Types are kept.                                                          *)

LEMMA HostTypedStep ==
  ASSUME HostTyped, [Next]_vars
  PROVE  HostTyped'
<1> USE DEF HostTyped
<1>1. CASE AppCalls
  <2>1. PICK op \in Ops, cfg \in Configs \cup {NoConfig} : AppCall(op, cfg)
    BY <1>1 DEF AppCalls
  <2>2. calls + 1 \in Nat /\ calls + 1 <= MaxActs
    BY <2>1, BoundsAssumption DEF AppCall, Act
  <2>3. (hostStarted /\ op # "stop") \in BOOLEAN
    OBVIOUS
  <2> QED
    BY <2>1, <2>2, <2>3 DEF AppCall, library
<1>2. CASE HostRestart
  <2>1. restarts + 1 \in Nat /\ restarts + 1 <= MaxActs
    BY <1>2, BoundsAssumption DEF HostRestart, Act
  <2> QED
    BY <1>2, <2>1 DEF HostRestart, library
<1>3. CASE HostResponse
  BY <1>3 DEF HostResponse, HostTake, library
<1>4. CASE OnStart \/ OnStop \/ OnConnected \/ OnDisconnected
  BY <1>4 DEF OnStart, OnStop, OnConnected, OnDisconnected, HostTake, library
<1>5. CASE LinkDown
  <2>1. drops + 1 \in Nat /\ drops + 1 <= MaxActs
    BY <1>5, BoundsAssumption DEF LinkDown, Act
  <2> QED
    BY <1>5, <2>1 DEF LinkDown, hostVars
<1>6. CASE RecvRequest \/ LinkUp \/ Pserial \/ EventTask \/ UNCHANGED vars
  <2>1. UNCHANGED <<app, calls, restarts, drops, hostStarted, netifStarted, netifConnected, view>>
    BY <1>6, RecvFrame, LinkFrame, PserialFrame, EventFrame, StutterFrame DEF LinkUp
  <2> QED
    BY <2>1
<1> QED
  BY <1>1, <1>2, <1>3, <1>4, <1>5, <1>6, NextParts DEF HostSide, HostReceive

\* What follows the head of a queue.
LEMMA HeadMessage ==
  ASSUME NEW q \in Seq(Messages), q # << >>, NEW S, All(q, S)
  PROVE  /\ Head(q) \in S /\ Head(q) \in Messages /\ Tail(q) \in Seq(Messages)
         /\ All(Tail(q), S) /\ Len(Tail(q)) <= Len(q)
<1>1. Head(q) \in Messages /\ Tail(q) \in Seq(Messages) /\ Len(Tail(q)) <= Len(q)
  BY TailElements
<1> QED
  BY <1>1, AllTail

LEMMA LongerQueue ==
  ASSUME NEW q \in Seq(Messages), NEW S, All(q, S), NEW m \in Messages, m \in S
  PROVE  /\ Append(q, m) \in Seq(Messages) /\ All(Append(q, m), S)
         /\ Len(q) \in Nat /\ Len(Append(q, m)) = Len(q) + 1
<1>1. Append(q, m) \in Seq(Messages) /\ Len(q) \in Nat /\ Len(Append(q, m)) = Len(q) + 1
  BY AppendElements
<1> QED
  BY <1>1, AllAppend
-----------------------------------------------------------------------------
(* What the tasks of the co-processor do to the queues.                     *)

Answering ==
    /\ rpcPc # "idle" /\ rpcPc' = "idle" /\ rpc' = NoMessage
    /\ toHost' = Append(toHost, Response(rpc))
Continuing ==
    /\ <<rpcPc, rpcPc'>> \in {<<"start", "startEvent">>, <<"connect", "connectLib">>,
                              <<"connect", "connectAck">>, <<"set_config", "provision">>,
                              <<"set_config", "same">>, <<"set_config", "flag">>,
                              <<"provision", "provisioned">>, <<"provision", "flag">>,
                              <<"provisioned", "flag">>, <<"flag", "copy">>}
    /\ rpc' = rpc /\ toHost' = toHost
Putting(e) == Len(reqQ) < ReqQSize /\ reqQ' = Append(reqQ, Event(e))

LEMMA AnsweringPserial ==
  ASSUME StopLib \/ DisconnectLib \/ ConnectLib \/ ConfigCopy \/ ConfigSame
  PROVE  /\ Answering /\ reqQ' = reqQ
         /\ rpcPc \in {"stop", "disconnect", "connectLib", "copy", "same"}
  BY DEF StopLib, DisconnectLib, ConnectLib, ConfigCopy, ConfigSame, Respond, Answering

LEMMA CheckingPserial ==
  ASSUME StartLib \/ ConnectCheck \/ ConfigCheck \/ ConfigProvision \/ ConfigFlag
  PROVE  /\ Answering \/ Continuing
         /\ reqQ' = reqQ
         /\ rpcPc \in {"start", "connect", "set_config", "provision", "provisioned", "flag"}
<1>1. CASE StartLib
  BY <1>1 DEF StartLib, Continue, Continuing
<1>2. CASE ConnectCheck
  <2>1. CASE libCfg = NoConfig
    BY <1>2, <2>1 DEF ConnectCheck, Respond, Answering
  <2>2. CASE libCfg # NoConfig
    BY <1>2, <2>2 DEF ConnectCheck, Continue, Continuing
  <2> QED
    BY <1>2, <2>1, <2>2 DEF ConnectCheck
<1>3. CASE ConfigCheck
  BY <1>3 DEF ConfigCheck, Continue, Continuing
<1>4. CASE ConfigProvision \/ ConfigFlag
  BY <1>4 DEF ConfigProvision, ConfigFlag, Continue, Continuing
<1> QED
  BY <1>1, <1>2, <1>3, <1>4

LEMMA PuttingPserial ==
  /\ StartEvent => Answering /\ Putting("STA_START") /\ rpcPc = "startEvent"
  /\ ConnectAck => Answering /\ Putting("STA_CONNECTED") /\ rpcPc = "connectAck"
  BY DEF StartEvent, ConnectAck, PutEvent, QueueHasRoom, Respond, Answering, Putting

LEMMA PserialCases ==
  ASSUME Pserial
  PROVE  \/ PserialEvent \/ PserialRequest
         \/ Answering /\ reqQ' = reqQ
         \/ Continuing /\ reqQ' = reqQ
         \/ StartEvent \/ ConnectAck
  BY AnsweringPserial, CheckingPserial DEF Pserial

LEMMA EventQueue ==
  ASSUME EventTask
  PROVE  \/ ~SendEvent /\ reqQ' = reqQ
         \/ SendEvent /\ evPc = "send" /\ Putting(ev)
<1>1. CASE TakeConnected \/ TakeDisconnected \/ TakeStart \/ TakeStop
  BY <1>1 DEF TakeConnected, TakeDisconnected, TakeStart, TakeStop, EventTake, EventStep,
              SendEvent
<1>2. CASE StartConnect \/ ApplyPending \/ ClearPending \/ DropLink
  BY <1>2 DEF StartConnect, ApplyPending, ClearPending, DropLink, EventStep, SendEvent
<1>3. CASE LostPending \/ CloseData \/ OpenData
  BY <1>3 DEF LostPending, CloseData, OpenData, EventStep, SendEvent
<1>4. CASE SendEvent
  BY <1>4 DEF SendEvent, EventStep, PutEvent, QueueHasRoom, Putting
<1> QED
  BY <1>1, <1>2, <1>3, <1>4 DEF EventTask

LEMMA HostTaken ==
  ASSUME HostReceive
  PROVE  /\ toHost # << >> /\ toHost' = Tail(toHost)
         /\ toSlave' \in {toSlave, Append(toSlave, ConnectRequest(NoCaller))}
         /\ restarts' = restarts
  BY DEF HostReceive, HostResponse, OnStart, OnStop, OnConnected, OnDisconnected, HostTake

-----------------------------------------------------------------------------

QueuesOK == QueuesTyped /\ RpcTyped /\ MessagesOK /\ RpcOK

LEMMA HostQueues ==
  ASSUME HostTyped, QueuesOK, HostSide
  PROVE  QueuesOK'
<1>1. UNCHANGED <<reqQ, rpcPc, rpc>>
  BY HostFrame
<1>2. /\ toSlave \in Seq(Messages) /\ toHost \in Seq(Messages)
      /\ All(toSlave, Requests) /\ All(toHost, Responses \cup EventMessages)
  BY DEF QueuesOK, QueuesTyped, MessagesOK
<1>3. toSlave' \in Seq(Messages) /\ All(toSlave', Requests)
  <2>1. CASE AppCalls
    <3>1. PICK op \in Ops, cfg \in Configs \cup {NoConfig} : AppCall(op, cfg)
      BY <2>1 DEF AppCalls
    <3> DEFINE m == Message("req", op, cfg, restarts)
    <3>2. m \in Requests
      BY <3>1, CallMessage DEF AppCall, HostTyped
    <3>3. m \in Messages
      BY <3>2 DEF Requests
    <3>4. toSlave' = Append(toSlave, m)
      BY <3>1 DEF AppCall
    <3> HIDE DEF m
    <3> QED
      BY <1>2, <3>2, <3>3, <3>4, LongerQueue
  <2>2. CASE HostRestart
    BY <1>2, <2>2 DEF HostRestart
  <2>3. CASE HostReceive
    <3>1. ConnectRequest(NoCaller) \in Requests /\ ConnectRequest(NoCaller) \in Messages
      BY ConnectMessage DEF Requests
    <3>2. CASE toSlave' = toSlave
      BY <1>2, <3>2
    <3>3. CASE toSlave' = Append(toSlave, ConnectRequest(NoCaller))
      BY <1>2, <3>1, <3>3, LongerQueue
    <3> QED
      BY <2>3, <3>2, <3>3, HostTaken
  <2> QED
    BY <2>1, <2>2, <2>3 DEF HostSide
<1>4. toHost' \in Seq(Messages) /\ All(toHost', Responses \cup EventMessages)
  <2>1. CASE AppCalls
    BY <1>2, <2>1 DEF AppCalls, AppCall
  <2>2. CASE HostRestart
    BY <2>2, NothingIn DEF HostRestart
  <2>3. CASE HostReceive
    BY <1>2, <2>3, HostTaken, HeadMessage
  <2> QED
    BY <2>1, <2>2, <2>3 DEF HostSide
<1> QED
  BY <1>1, <1>3, <1>4 DEF QueuesOK, QueuesTyped, MessagesOK, RpcTyped, RpcOK

LEMMA RecvQueues ==
  ASSUME QueuesOK, RecvRequest
  PROVE  QueuesOK'
<1>1. UNCHANGED <<toHost, rpcPc, rpc>>
  BY RecvFrame
<1>2. /\ toSlave # << >> /\ toSlave' = Tail(toSlave) /\ Len(reqQ) < ReqQSize
      /\ reqQ' = Append(reqQ, Head(toSlave))
  BY DEF RecvRequest
<1>3. /\ toSlave \in Seq(Messages) /\ reqQ \in Seq(Messages)
      /\ All(toSlave, Requests) /\ All(reqQ, Requests \cup EventMessages)
  BY DEF QueuesOK, QueuesTyped, MessagesOK
<1>4. Head(toSlave) \in Requests
  BY <1>2, <1>3, HeadMessage
<1>5. toSlave' \in Seq(Messages) /\ All(toSlave', Requests)
  BY <1>2, <1>3, HeadMessage
<1>6. Head(toSlave) \in Messages /\ Head(toSlave) \in Requests \cup EventMessages
  BY <1>4 DEF Requests
<1>7. /\ reqQ' \in Seq(Messages) /\ All(reqQ', Requests \cup EventMessages)
      /\ Len(reqQ) \in Nat /\ Len(reqQ') = Len(reqQ) + 1
  BY <1>2, <1>3, <1>6, LongerQueue
<1>8. Len(reqQ') <= ReqQSize
  BY <1>2, <1>7, BoundsAssumption
<1> QED
  BY <1>1, <1>5, <1>7, <1>8 DEF QueuesOK, QueuesTyped, MessagesOK, RpcTyped, RpcOK

LEMMA PutQueue ==
  ASSUME QueuesTyped, MessagesOK, NEW e \in Events, Putting(e)
  PROVE  /\ reqQ' \in Seq(Messages) /\ All(reqQ', Requests \cup EventMessages)
         /\ Len(reqQ') <= ReqQSize
<1>1. Len(reqQ) < ReqQSize /\ reqQ' = Append(reqQ, Event(e))
  BY DEF Putting
<1>2. reqQ \in Seq(Messages) /\ All(reqQ, Requests \cup EventMessages)
  BY DEF QueuesTyped, MessagesOK
<1>3. Event(e) \in Messages /\ Event(e) \in Requests \cup EventMessages
  BY EventMessage
<1>4. /\ reqQ' \in Seq(Messages) /\ All(reqQ', Requests \cup EventMessages)
      /\ Len(reqQ) \in Nat /\ Len(reqQ') = Len(reqQ) + 1
  BY <1>1, <1>2, <1>3, LongerQueue
<1> QED
  BY <1>1, <1>4, BoundsAssumption

LEMMA AnswerQueue ==
  ASSUME QueuesOK, Answering
  PROVE  /\ toHost' \in Seq(Messages) /\ All(toHost', Responses \cup EventMessages)
         /\ RpcTyped' /\ RpcOK'
<1>1. rpc \in Requests /\ toHost \in Seq(Messages) /\ All(toHost, Responses \cup EventMessages)
  BY DEF Answering, QueuesOK, QueuesTyped, MessagesOK, RpcOK
<1>2. Response(rpc) \in Messages /\ Response(rpc) \in Responses \cup EventMessages
  BY <1>1, ResponseMessage DEF Responses
<1>3. toHost' = Append(toHost, Response(rpc)) /\ rpcPc' = "idle" /\ rpc' = NoMessage
  BY DEF Answering
<1>4. toHost' \in Seq(Messages) /\ All(toHost', Responses \cup EventMessages)
  BY <1>1, <1>2, <1>3, LongerQueue
<1> QED
  BY <1>3, <1>4, NoMessageTyped DEF RpcTyped, RpcOK

LEMMA PserialQueues ==
  ASSUME QueuesOK, Pserial
  PROVE  QueuesOK'
<1>1. toSlave' = toSlave
  BY PserialFrame
<1>2. /\ toHost \in Seq(Messages) /\ reqQ \in Seq(Messages) /\ Len(reqQ) <= ReqQSize
      /\ All(toHost, Responses \cup EventMessages) /\ All(reqQ, Requests \cup EventMessages)
  BY DEF QueuesOK, QueuesTyped, MessagesOK
<1>3. ASSUME reqQ # << >>, reqQ' = Tail(reqQ)
      PROVE  /\ reqQ' \in Seq(Messages) /\ All(reqQ', Requests \cup EventMessages)
             /\ Len(reqQ') <= ReqQSize
             /\ Head(reqQ) \in Requests \cup EventMessages
  <2>1. /\ Head(reqQ) \in Requests \cup EventMessages /\ Tail(reqQ) \in Seq(Messages)
        /\ All(Tail(reqQ), Requests \cup EventMessages) /\ Len(Tail(reqQ)) <= Len(reqQ)
    BY <1>2, <1>3, HeadMessage
  <2>2. Len(reqQ) \in Nat /\ Len(Tail(reqQ)) \in Nat
    BY <1>2, <2>1
  <2> QED
    BY <1>2, <1>3, <2>1, <2>2, BoundsAssumption
<1>4. CASE PserialEvent
  <2>1. /\ reqQ # << >> /\ reqQ' = Tail(reqQ) /\ Head(reqQ).kind = "evt"
        /\ toHost' = Append(toHost, Head(reqQ)) /\ UNCHANGED <<rpcPc, rpc>>
    BY <1>4 DEF PserialEvent, pserial
  <2>2. Head(reqQ) \in EventMessages
    BY <1>3, <2>1 DEF Requests
  <2>3. Head(reqQ) \in Messages /\ Head(reqQ) \in Responses \cup EventMessages
    BY <2>2, EventKind
  <2>4. toHost' \in Seq(Messages) /\ All(toHost', Responses \cup EventMessages)
    BY <1>2, <2>1, <2>3, LongerQueue
  <2> QED
    BY <1>1, <1>3, <2>1, <2>4 DEF QueuesOK, QueuesTyped, MessagesOK, RpcTyped, RpcOK
<1>5. CASE PserialRequest
  <2>1. /\ reqQ # << >> /\ reqQ' = Tail(reqQ) /\ Head(reqQ).kind = "req"
        /\ rpc' = Head(reqQ) /\ rpcPc' = Head(reqQ).what /\ toHost' = toHost
    BY <1>5 DEF PserialRequest
  <2>2. Head(reqQ) \in Requests
    BY <1>3, <2>1, EventKind
  <2>3. Head(reqQ) \in Messages /\ Head(reqQ).what \in Ops
    BY <2>2 DEF Requests
  <2>4. Head(reqQ).what \in Statements[Head(reqQ).what]
    BY <2>3 DEF Statements, Ops
  <2>5. RpcTyped'
    BY <2>1, <2>3 DEF RpcTyped
  <2>6. RpcOK'
    BY <2>1, <2>2, <2>4 DEF RpcOK
  <2> QED
    BY <1>1, <1>3, <2>1, <2>5, <2>6 DEF QueuesOK, QueuesTyped, MessagesOK
<1>6. CASE Answering /\ reqQ' = reqQ
  BY <1>1, <1>6, AnswerQueue DEF QueuesOK, QueuesTyped, MessagesOK
<1>7. CASE Continuing /\ reqQ' = reqQ
  <2>1. rpcPc # "idle" /\ rpc \in Requests /\ rpc \in Messages /\ rpc.what \in Ops
    BY <1>7 DEF Continuing, QueuesOK, RpcOK, RpcTyped, Requests
  <2>2. rpcPc \in Statements[rpc.what]
    BY <2>1 DEF QueuesOK, RpcOK
  <2>3. rpcPc' \in Statements[rpc.what]
    BY <1>7, <2>1, <2>2 DEF Continuing, Statements, Ops
  <2>4. RpcTyped' /\ RpcOK'
    BY <1>7, <2>1, <2>3 DEF Continuing, RpcTyped, RpcOK
  <2> QED
    BY <1>1, <1>7, <2>4 DEF Continuing, QueuesOK, QueuesTyped, MessagesOK
<1>8. CASE StartEvent \/ ConnectAck
  <2>1. Answering
    BY <1>8, PuttingPserial
  <2>2. PICK e \in Events : Putting(e)
    BY <1>8, PuttingPserial DEF Events
  <2>3. /\ reqQ' \in Seq(Messages) /\ All(reqQ', Requests \cup EventMessages)
        /\ Len(reqQ') <= ReqQSize
    BY <2>2, PutQueue DEF QueuesOK
  <2> QED
    BY <1>1, <2>1, <2>3, AnswerQueue DEF QueuesOK, QueuesTyped, MessagesOK
<1> QED
  BY <1>4, <1>5, <1>6, <1>7, <1>8, PserialCases

LEMMA QueuesStep ==
  ASSUME HostTyped, QueuesOK, EventTyped, [Next]_vars
  PROVE  QueuesOK'
<1>1. CASE HostSide
  BY <1>1, HostQueues
<1>2. CASE RecvRequest
  BY <1>2, RecvQueues
<1>3. CASE Pserial
  BY <1>3, PserialQueues
<1>4. CASE EventTask
  <2>1. UNCHANGED <<toSlave, toHost, rpcPc, rpc>>
    BY <1>4, EventFrame
  <2>2. CASE reqQ' = reqQ
    BY <2>1, <2>2 DEF QueuesOK, QueuesTyped, MessagesOK, RpcTyped, RpcOK
  <2>3. CASE Putting(ev)
    <3>1. /\ reqQ' \in Seq(Messages) /\ All(reqQ', Requests \cup EventMessages)
          /\ Len(reqQ') <= ReqQSize
      BY <2>3, PutQueue DEF QueuesOK, EventTyped
    <3> QED
      BY <2>1, <3>1 DEF QueuesOK, QueuesTyped, MessagesOK, RpcTyped, RpcOK
  <2> QED
    BY <1>4, <2>2, <2>3, EventQueue
<1>5. CASE LinkUp \/ LinkDown \/ UNCHANGED vars
  <2>1. UNCHANGED <<toSlave, toHost, reqQ, rpcPc, rpc>>
    BY <1>5, LinkFrame, StutterFrame
  <2> QED
    BY <2>1 DEF QueuesOK, QueuesTyped, MessagesOK, RpcTyped, RpcOK
<1> QED
  BY <1>1, <1>2, <1>3, <1>4, <1>5, NextParts

-----------------------------------------------------------------------------
(* The event task: which statement comes next.                              *)

EventOK == EventTyped /\ EvOK

LEMMA TakesEvent ==
  ASSUME NEW e, NEW next, EventTake(e, next)
  PROVE  /\ evPc = "idle" /\ evPc' = next /\ ev' = IF next = "idle" THEN NoEvent ELSE e
         /\ evQ # << >> /\ Head(evQ) = e /\ evQ' = Tail(evQ)
         /\ UNCHANGED <<reqQ, newConfigRecvd, newConfig, rxcb, lib, libCfg>>
  BY DEF EventTake, EventStep, pending

LEMMA EventStepOK ==
  ASSUME EventOK, EventTask
  PROVE  EventOK'
<1> USE DEF EventOK, EventTyped, EvOK, Events
<1>1. CASE TakeConnected
  <2>1. EventTake("STA_CONNECTED", IF newConfigRecvd THEN "apply" ELSE "send")
    BY <1>1 DEF TakeConnected
  <2>2. evPc' \in {"apply", "send"} /\ ev' = "STA_CONNECTED"
    BY <2>1, TakesEvent
  <2> QED
    BY <2>2
<1>2. CASE TakeDisconnected
  <2>1. EventTake("STA_DISCONNECTED", "lost")
    BY <1>2 DEF TakeDisconnected
  <2>2. evPc' = "lost" /\ ev' = "STA_DISCONNECTED"
    BY <2>1, TakesEvent
  <2> QED
    BY <2>2
<1>3. CASE TakeStart
  <2>1. CASE stationConnecting
    <3>1. EventTake("STA_START", "idle")
      BY <1>3, <2>1 DEF TakeStart
    <3>2. evPc' = "idle" /\ ev' = NoEvent
      BY <3>1, TakesEvent
    <3> QED
      BY <3>2 DEF NoEvent
  <2>2. CASE ~stationConnecting
    <3>1. EventTake("STA_START", "connect")
      BY <1>3, <2>2 DEF TakeStart
    <3>2. evPc' = "connect" /\ ev' = "STA_START"
      BY <3>1, TakesEvent
    <3> QED
      BY <3>2
  <2> QED
    BY <2>1, <2>2
<1>4. CASE TakeStop
  <2>1. EventTake("STA_STOP", "send")
    BY <1>4 DEF TakeStop
  <2>2. evPc' = "send" /\ ev' = "STA_STOP"
    BY <2>1, TakesEvent
  <2> QED
    BY <2>2
<1>5. CASE StartConnect \/ DropLink \/ OpenData \/ CloseData \/ LostPending
  BY <1>5 DEF StartConnect, DropLink, OpenData, CloseData, LostPending, EventStep, Goto, NoEvent
<1>6. CASE ApplyPending \/ ClearPending \/ SendEvent
  BY <1>6 DEF ApplyPending, ClearPending, SendEvent, EventStep, Goto, AfterPending, NoEvent
<1> QED
  BY <1>1, <1>2, <1>3, <1>4, <1>5, <1>6 DEF EventTask

LEMMA EventKept ==
  ASSUME EventOK, [Next]_vars
  PROVE  EventOK'
<1>1. CASE EventTask
  BY <1>1, EventStepOK
<1>2. CASE HostSide \/ RecvRequest \/ LinkUp \/ LinkDown \/ Pserial \/ UNCHANGED vars
  <2>1. evPc' = evPc /\ ev' = ev
    BY <1>2, HostFrame, RecvFrame, LinkFrame, PserialFrame, StutterFrame
  <2> QED
    BY <2>1 DEF EventOK, EventTyped, EvOK
<1> QED
  BY <1>1, <1>2, NextParts

-----------------------------------------------------------------------------
(* The Wi-Fi library: what a step does to it and to its event queue.        *)

LibSame == lib' = lib /\ evQ' = evQ
LibStarts == lib = "stopped" /\ lib' = "idle" /\ evQ' = Append(evQ, "STA_START")
LibStops ==
    /\ lib # "stopped" /\ lib' = "stopped"
    /\ evQ' = Append(IF Linking THEN Append(evQ, "STA_DISCONNECTED") ELSE evQ, "STA_STOP")
LibConnects == lib = "idle" /\ lib' = "connecting" /\ evQ' = evQ /\ libCfg # NoConfig
LibLinks == lib = "connecting" /\ lib' = "connected" /\ evQ' = Append(evQ, "STA_CONNECTED")
LibUnlinks == Linking /\ lib' = "idle" /\ evQ' = Append(evQ, "STA_DISCONNECTED")
LibTaken == lib' = lib /\ evQ # << >> /\ evQ' = Tail(evQ)

LEMMA LibStopping ==
  ASSUME StationTyped, EspStop
  PROVE  LibSame \/ LibStops
<1>1. evQ \in Seq(Events)
  BY DEF StationTyped
<1>2. /\ evQ \o << >> = evQ /\ (evQ \o << >>) \o << >> = evQ
      /\ (evQ \o << >>) \o <<"STA_STOP">> = Append(evQ, "STA_STOP")
      /\ (evQ \o <<"STA_DISCONNECTED">>) \o <<"STA_STOP">>
           = Append(Append(evQ, "STA_DISCONNECTED"), "STA_STOP")
  BY <1>1 DEF Events
<1>3. CASE lib = "stopped"
  <2>1. ~Linking
    BY <1>3 DEF Linking
  <2> QED
    BY <1>2, <1>3, <2>1 DEF EspStop, LibSame
<1>4. CASE lib # "stopped" /\ Linking
  BY <1>2, <1>4 DEF EspStop, LibStops
<1>5. CASE lib # "stopped" /\ ~Linking
  BY <1>2, <1>5 DEF EspStop, LibStops
<1> QED
  BY <1>3, <1>4, <1>5

LEMMA PserialLibrary ==
  ASSUME StationTyped, Pserial
  PROVE  /\ LibSame \/ LibStarts \/ LibStops \/ LibConnects \/ LibUnlinks
         /\ LibStarts \/ LibSame \/ ~StartLib
<1>1. CASE PserialEvent \/ PserialRequest
  BY <1>1 DEF PserialEvent, PserialRequest, library, LibSame, StartLib
<1>2. CASE StartEvent \/ ConnectCheck \/ ConnectAck
  BY <1>2 DEF StartEvent, ConnectCheck, ConnectAck, library, LibSame, StartLib
<1>3. CASE ConfigCheck \/ ConfigProvision \/ ConfigFlag \/ ConfigCopy \/ ConfigSame
  BY <1>3 DEF ConfigCheck, ConfigProvision, ConfigFlag, ConfigCopy, ConfigSame, EspSetConfig,
              library, LibSame, StartLib
<1>4. CASE StartLib
  BY <1>4 DEF StartLib, EspStart, LibSame, LibStarts
<1>5. CASE StopLib
  BY <1>5, LibStopping DEF StopLib, StartLib
<1>6. CASE DisconnectLib \/ ConnectLib
  BY <1>6 DEF DisconnectLib, ConnectLib, EspDisconnect, EspConnect, CanConnect, LibSame,
              LibUnlinks, LibConnects, StartLib
<1> QED
  BY <1>1, <1>2, <1>3, <1>4, <1>5, <1>6 DEF Pserial

TakesFrom == TakeConnected \/ TakeDisconnected \/ TakeStart \/ TakeStop

LEMMA EventLibrary ==
  ASSUME EventTask
  PROVE  \/ TakesFrom /\ LibTaken
         \/ ~TakesFrom /\ evPc # "idle" /\ (LibSame \/ LibConnects \/ LibUnlinks)
<1>1. CASE TakesFrom
  BY <1>1, TakesEvent DEF TakesFrom, TakeConnected, TakeDisconnected, TakeStart, TakeStop, LibTaken
<1>2. CASE StartConnect \/ DropLink
  <2>1. evPc \in {"connect", "drop"}
    BY <1>2 DEF StartConnect, DropLink, EventStep
  <2>2. LibSame \/ LibConnects \/ LibUnlinks
    BY <1>2 DEF StartConnect, DropLink, EspConnect, EspDisconnect, CanConnect, LibSame,
                LibConnects, LibUnlinks
  <2>3. ~TakesFrom
    BY <2>1, TakesEvent DEF TakesFrom, TakeConnected, TakeDisconnected, TakeStart, TakeStop
  <2> QED
    BY <2>1, <2>2, <2>3
<1>3. CASE LostPending \/ ApplyPending \/ ClearPending \/ CloseData \/ SendEvent \/ OpenData
  <2>1. evPc \in {"lost", "apply", "clear", "close", "send", "open"}
    BY <1>3 DEF LostPending, ApplyPending, ClearPending, CloseData, SendEvent, OpenData, EventStep
  <2>2. LibSame
    BY <1>3 DEF LostPending, ApplyPending, ClearPending, CloseData, SendEvent, OpenData,
                EspSetConfig, library, LibSame
  <2>3. ~TakesFrom
    BY <2>1, TakesEvent DEF TakesFrom, TakeConnected, TakeDisconnected, TakeStart, TakeStop
  <2> QED
    BY <2>1, <2>2, <2>3
<1> QED
  BY <1>1, <1>2, <1>3 DEF EventTask, TakesFrom

LEMMA LibraryCases ==
  ASSUME StationTyped, [Next]_vars
  PROVE  \/ LibSame \/ LibStarts \/ LibStops \/ LibConnects \/ LibUnlinks
         \/ LinkUp /\ LibLinks
         \/ EventTask /\ LibTaken
<1>1. CASE HostSide \/ RecvRequest \/ UNCHANGED vars
  BY <1>1, HostFrame, RecvFrame, StutterFrame DEF LibSame
<1>2. CASE LinkUp \/ LinkDown
  BY <1>2 DEF LinkUp, LinkDown, LibLinks, LibUnlinks
<1>3. CASE Pserial
  BY <1>3, PserialLibrary
<1>4. CASE EventTask
  BY <1>4, EventLibrary
<1> QED
  BY <1>1, <1>2, <1>3, <1>4, NextParts

LEMMA LibraryTyped ==
  ASSUME StationTyped, [Next]_vars
  PROVE  lib' \in {"stopped", "idle", "connecting", "connected"} /\ evQ' \in Seq(Events)
<1>1. lib \in {"stopped", "idle", "connecting", "connected"} /\ evQ \in Seq(Events)
  BY DEF StationTyped
<1>2. \A e \in Events : Append(evQ, e) \in Seq(Events)
  BY <1>1
<1>3. Append(evQ, "STA_DISCONNECTED") \in Seq(Events)
  BY <1>2 DEF Events
<1>4. Append(Append(evQ, "STA_DISCONNECTED"), "STA_STOP") \in Seq(Events)
  BY <1>3 DEF Events
<1>5. LibStops => lib' = "stopped" /\ evQ' \in Seq(Events)
  BY <1>2, <1>4 DEF LibStops, Events
<1>6. LibTaken => lib' = lib /\ evQ' \in Seq(Events)
  BY <1>1, TailElements DEF LibTaken
<1>7. LibSame \/ LibConnects => lib' \in {lib, "connecting"} /\ evQ' = evQ
  BY DEF LibSame, LibConnects
<1>8. LibStarts \/ LibUnlinks \/ LibLinks =>
        lib' \in {"idle", "connected"} /\ evQ' \in Seq(Events)
  BY <1>2 DEF LibStarts, LibUnlinks, LibLinks, Events
<1> QED
  BY <1>1, <1>5, <1>6, <1>7, <1>8, LibraryCases

\* A request that is executed asks for a station configuration to be set only
\* with one.
LEMMA RpcConfig ==
  ASSUME QueuesOK,
         rpcPc \in {"set_config", "provision", "provisioned", "flag", "copy", "same"}
  PROVE  rpc.cfg \in Configs
<1>1. rpc \in Requests /\ rpcPc \in Statements[rpc.what] /\ rpc.what \in Ops
  BY DEF QueuesOK, RpcOK, Requests
<1>2. rpc.what = "set_config"
  BY <1>1 DEF Statements, Ops
<1> QED
  BY <1>1, <1>2 DEF Requests, Messages

\* The history of the event that a connect sent too late.
LEMMA OvertakenTyped ==
  ASSUME StationTyped, [Next]_vars
  PROVE  overtaken' \in BOOLEAN
<1>1. CASE HostSide \/ RecvRequest \/ LinkUp \/ LinkDown \/ UNCHANGED vars
  BY <1>1, HostFrame, RecvFrame, LinkFrame, StutterFrame DEF StationTyped
<1>2. CASE PserialEvent \/ PserialRequest \/ StartLib \/ StartEvent \/ StopLib \/ DisconnectLib
  BY <1>2 DEF PserialEvent, PserialRequest, StartLib, StartEvent, StopLib, DisconnectLib,
              history, StationTyped
<1>3. CASE ConnectCheck \/ ConnectLib \/ ConnectAck
  BY <1>3 DEF ConnectCheck, ConnectLib, ConnectAck, history, StationTyped
<1>4. CASE ConfigCheck \/ ConfigProvision \/ ConfigFlag \/ ConfigCopy \/ ConfigSame
  BY <1>4 DEF ConfigCheck, ConfigProvision, ConfigFlag, ConfigCopy, ConfigSame, history,
              StationTyped
<1>5. CASE TakesFrom
  BY <1>5 DEF TakesFrom, TakeConnected, TakeDisconnected, TakeStart, TakeStop, EventTake, EventStep
<1>6. CASE LostPending \/ StartConnect \/ ApplyPending \/ ClearPending \/ DropLink
  BY <1>6 DEF LostPending, StartConnect, ApplyPending, ClearPending, DropLink, EventStep
<1>7. CASE CloseData \/ SendEvent \/ OpenData
  BY <1>7 DEF CloseData, SendEvent, OpenData, EventStep
<1> QED
  BY <1>1, <1>2, <1>3, <1>4, <1>5, <1>6, <1>7, NextParts DEF Pserial, EventTask, TakesFrom

LEMMA StationTypedStep ==
  ASSUME QueuesOK, StationTyped, [Next]_vars
  PROVE  StationTyped'
<1>1. /\ lib' \in {"stopped", "idle", "connecting", "connected"} /\ evQ' \in Seq(Events)
      /\ overtaken' \in BOOLEAN
  BY LibraryTyped, OvertakenTyped
<1>2. CASE HostSide \/ RecvRequest \/ LinkUp \/ LinkDown \/ UNCHANGED vars
  <2>1. UNCHANGED <<newConfigRecvd, newConfig, stationConnected, stationConnecting, rxcb,
                    withheld, libCfg, asked>>
    BY <1>2, HostFrame, RecvFrame, LinkFrame, StutterFrame
  <2> QED
    BY <1>1, <2>1 DEF StationTyped
<1>3. CASE PserialEvent \/ PserialRequest \/ StartEvent \/ ConnectAck
  <2>1. UNCHANGED <<newConfigRecvd, newConfig, stationConnected, stationConnecting, rxcb,
                    withheld, libCfg, asked>>
    BY <1>3 DEF PserialEvent, PserialRequest, StartEvent, ConnectAck, pending, station, link,
                library, history
  <2> QED
    BY <1>1, <2>1 DEF StationTyped
<1>4. CASE StartLib \/ StopLib \/ DisconnectLib
  <2>1. UNCHANGED <<newConfigRecvd, newConfig, stationConnected, stationConnecting, rxcb,
                    withheld, libCfg, asked>>
    BY <1>4 DEF StartLib, StopLib, DisconnectLib, EspStart, EspStop, EspDisconnect, pending,
                station, link, history
  <2> QED
    BY <1>1, <2>1 DEF StationTyped
<1>5. CASE ConnectCheck
  <2>1. UNCHANGED <<newConfigRecvd, newConfig, stationConnected, stationConnecting, rxcb,
                    libCfg, asked>>
    BY <1>5 DEF ConnectCheck, pending, library, history
  <2>2. withheld' \in BOOLEAN
    BY <1>5 DEF ConnectCheck
  <2> QED
    BY <1>1, <2>1, <2>2 DEF StationTyped
<1>6. CASE ConnectLib
  <2>1. UNCHANGED <<newConfigRecvd, newConfig, stationConnected, rxcb, withheld, libCfg, asked>>
    BY <1>6 DEF ConnectLib, EspConnect, pending, link, history
  <2>2. stationConnecting' \in BOOLEAN
    BY <1>6 DEF ConnectLib
  <2> QED
    BY <1>1, <2>1, <2>2 DEF StationTyped
<1>7. CASE ConfigCheck \/ ConfigProvision \/ ConfigFlag \/ ConfigCopy \/ ConfigSame
  <2>1. rpc.cfg \in Configs
    BY <1>7, RpcConfig DEF ConfigCheck, ConfigProvision, ConfigFlag, ConfigCopy, ConfigSame
  <2>2. UNCHANGED <<stationConnected, rxcb, withheld>>
    BY <1>7, PserialFrame
       DEF Pserial, ConfigCheck, ConfigProvision, ConfigFlag, ConfigCopy, ConfigSame, station, link
  <2>3. newConfig' \in {newConfig, rpc.cfg} /\ asked' \in {asked, rpc.cfg}
    BY <1>7 DEF ConfigCheck, ConfigProvision, ConfigFlag, ConfigCopy, ConfigSame, pending, history
  <2>4. libCfg' \in {libCfg, rpc.cfg}
    BY <1>7 DEF ConfigCheck, ConfigProvision, ConfigFlag, ConfigCopy, ConfigSame, EspSetConfig,
                library
  <2>5. newConfigRecvd' \in {newConfigRecvd, TRUE, FALSE}
    BY <1>7 DEF ConfigCheck, ConfigProvision, ConfigFlag, ConfigCopy, ConfigSame, pending
  <2>6. stationConnecting' \in {stationConnecting, TRUE, FALSE}
    BY <1>7 DEF ConfigCheck, ConfigProvision, ConfigFlag, ConfigCopy, ConfigSame, station
  <2>7. newConfigRecvd' \in BOOLEAN /\ stationConnecting' \in BOOLEAN
    BY <2>5, <2>6 DEF StationTyped
  <2> QED
    BY <1>1, <2>1, <2>2, <2>3, <2>4, <2>7 DEF StationTyped
<1>8. CASE TakesFrom
  <2>1. UNCHANGED <<newConfigRecvd, newConfig, rxcb, libCfg, asked>>
    BY <1>8, EventFrame, TakesEvent
       DEF TakesFrom, TakeConnected, TakeDisconnected, TakeStart, TakeStop, EventTask
  <2>2. stationConnected' \in {stationConnected, FALSE} /\ withheld' \in {withheld, FALSE}
    BY <1>8 DEF TakesFrom, TakeConnected, TakeDisconnected, TakeStart, TakeStop, link
  <2>3. stationConnecting' \in {stationConnecting, FALSE, TRUE}
    BY <1>8 DEF TakesFrom, TakeConnected, TakeDisconnected, TakeStart, TakeStop
  <2>4. stationConnected' \in BOOLEAN /\ withheld' \in BOOLEAN /\ stationConnecting' \in BOOLEAN
    BY <2>2, <2>3 DEF StationTyped
  <2> QED
    BY <1>1, <2>1, <2>4 DEF StationTyped
<1>9. CASE LostPending \/ StartConnect \/ DropLink \/ SendEvent
  <2>1. UNCHANGED <<newConfigRecvd, newConfig, stationConnected, stationConnecting, rxcb,
                    withheld, libCfg, asked>>
    BY <1>9 DEF LostPending, StartConnect, DropLink, SendEvent, EventStep, EspConnect,
       EspDisconnect,
                pending, station, link, library
  <2> QED
    BY <1>1, <2>1 DEF StationTyped
<1>10. CASE ApplyPending
  <2>1. UNCHANGED <<newConfigRecvd, newConfig, stationConnected, stationConnecting, rxcb,
                    withheld, asked>>
    BY <1>10 DEF ApplyPending, EventStep, pending, station, link
  <2>2. libCfg' \in {libCfg, newConfig}
    BY <1>10 DEF ApplyPending, EspSetConfig
  <2> QED
    BY <1>1, <2>1, <2>2 DEF StationTyped
<1>11. CASE ClearPending \/ CloseData \/ OpenData
  <2>1. UNCHANGED <<newConfig, withheld, libCfg, asked>>
    BY <1>11 DEF ClearPending, CloseData, OpenData, EventStep, pending, station, link, library
  <2>2. /\ newConfigRecvd' \in {newConfigRecvd, FALSE}
        /\ stationConnecting' \in {stationConnecting, FALSE}
        /\ rxcb' \in {rxcb, TRUE, FALSE} /\ stationConnected' \in {stationConnected, TRUE}
    BY <1>11 DEF ClearPending, CloseData, OpenData, EventStep, pending, station, link
  <2> QED
    BY <1>1, <2>1, <2>2 DEF StationTyped
<1> QED
  BY <1>2, <1>3, <1>4, <1>5, <1>6, <1>7, <1>8, <1>9, <1>10, <1>11, NextParts
     DEF Pserial, EventTask, TakesFrom

LEMMA TypedStep == Typed /\ [Next]_vars => Typed'
<1> SUFFICES ASSUME Typed, [Next]_vars PROVE Typed'
  OBVIOUS
<1>1. HostTyped /\ QueuesOK /\ EventOK /\ StationTyped /\ EventTyped
  BY TypedParts DEF Typed, QueuesOK, EventOK
<1>2. HostTyped'
  BY <1>1, HostTypedStep
<1>3. QueuesOK'
  BY <1>1, QueuesStep
<1>4. EventOK'
  BY <1>1, EventKept
<1>5. StationTyped'
  BY <1>1, StationTypedStep
<1>6. QueuesTyped' /\ RpcTyped' /\ MessagesOK' /\ RpcOK' /\ EventTyped' /\ EvOK'
  BY <1>3, <1>4 DEF QueuesOK, EventOK
<1>7. TypeOK'
  BY <1>2, <1>5, <1>6, BoundsAssumption
     DEF TypeOK, HostTyped, QueuesTyped, RpcTyped, EventTyped, StationTyped
<1> QED
  BY <1>6, <1>7 DEF Typed

LEMMA AlwaysTyped == Spec => []Typed
  BY TypedInit, TypedStep, PTL DEF Spec

\* Every queue of the host, of the bus and of the co-processor carries only what
\* its reader can take, pserial_task's own queue is never fuller than REQ_Q_MAX,
\* and every flag and statement of the two tasks is one the code has.
THEOREM TypeCorrect == Spec => []TypeOK
<1>1. Typed => TypeOK
  BY DEF Typed
<1> QED
  BY <1>1, AlwaysTyped, PTL

-----------------------------------------------------------------------------
(* The host's flags, and whose messages the queues carry.                   *)

HostOK == (view = "connected" <=> netifConnected) /\ (netifConnected => netifStarted)

LEMMA HostKept ==
  ASSUME HostTyped, HostOK, [Next]_vars
  PROVE  HostOK'
<1> USE DEF HostOK
<1>1. CASE AppCalls
  BY <1>1 DEF AppCalls, AppCall
<1>2. CASE HostRestart
  BY <1>2 DEF HostRestart
<1>3. CASE HostResponse \/ OnStart \/ OnStop
  BY <1>3 DEF HostResponse, OnStart, OnStop, HostTyped
<1>4. CASE OnConnected \/ OnDisconnected
  BY <1>4 DEF OnConnected, OnDisconnected, HostTyped
<1>5. CASE RecvRequest \/ LinkUp \/ LinkDown \/ Pserial \/ EventTask \/ UNCHANGED vars
  BY <1>5, RecvFrame, LinkFrame, PserialFrame, EventFrame, StutterFrame
<1> QED
  BY <1>1, <1>2, <1>3, <1>4, <1>5, NextParts DEF HostSide, HostReceive

Of(r) == {m \in Messages : m.from = r}
UpTo(r) == {m \in Messages : m.from \in Froms /\ m.from <= r}

\* Messages of hosts up to r, and of r one at the most: behind it come only events
\* and requests that nobody waits for.
Carries(q, r) == All(q, UpTo(r)) /\ Behind(q, Of(r), Of(NoCaller))
Nobody(q) == All(q, Of(NoCaller))
Asks(q, r) == In(q, Of(r))
Serving(r) == rpcPc # "idle" /\ rpc.from = r

\* An application has one call open at a time, and it waits exactly as long as
\* the call is on its way.
Callers ==
    /\ Carries(toSlave, restarts) /\ Carries(reqQ, restarts) /\ Carries(toHost, restarts)
    /\ rpcPc # "idle" => rpc.from <= restarts
    /\ Asks(reqQ, restarts) => Nobody(toSlave)
    /\ Serving(restarts) => Nobody(reqQ) /\ Nobody(toSlave)
    /\ Asks(toHost, restarts) =>
         Nobody(reqQ) /\ Nobody(toSlave) /\ (rpcPc # "idle" => rpc.from = NoCaller)
    /\ app = "wait" <=> \/ Asks(toSlave, restarts) \/ Asks(reqQ, restarts)
                        \/ Asks(toHost, restarts) \/ Serving(restarts)

LEMMA NobodyAsks ==
  ASSUME NEW q \in Seq(Messages), NEW r \in Nat, Nobody(q)
  PROVE  ~Asks(q, r) /\ Carries(q, r)
<1>1. \A i \in 1..Len(q) : q[i] \in Messages /\ q[i].from = NoCaller
  BY DEF Nobody, All, Of
<1>2. -1 # r /\ -1 <= r
  OBVIOUS
<1> QED
  BY <1>1, <1>2 DEF Asks, In, Of, Carries, All, UpTo, Behind, NoCaller, Froms

LEMMA CarriesNothing ==
  ASSUME NEW r \in Nat
  PROVE  Carries(<< >>, r) /\ Nobody(<< >>) /\ ~Asks(<< >>, r)
  BY NothingIn DEF Carries, Nobody, Asks

LEMMA CarriesLonger ==
  ASSUME NEW q \in Seq(Messages), NEW r \in Nat, Carries(q, r), NEW m \in Messages,
         m.from \in Froms, m.from <= r, Asks(q, r) => m.from = NoCaller
  PROVE  /\ Carries(Append(q, m), r)
         /\ Asks(Append(q, m), r) <=> Asks(q, r) \/ m.from = r
         /\ Nobody(Append(q, m)) <=> Nobody(q) /\ m.from = NoCaller
<1>1. /\ m \in Of(r) <=> m.from = r
      /\ m \in Of(NoCaller) <=> m.from = NoCaller
      /\ m \in UpTo(r)
  BY DEF Of, UpTo
<1>2. All(q, UpTo(r)) /\ Behind(q, Of(r), Of(NoCaller))
  BY DEF Carries
<1>3. All(Append(q, m), UpTo(r))
  BY <1>1, <1>2, AllAppend
<1>4. In(q, Of(r)) => m \in Of(NoCaller)
  BY <1>1 DEF Asks
<1>5. Behind(Append(q, m), Of(r), Of(NoCaller))
  BY <1>2, <1>4, BehindAppend
<1>6. In(Append(q, m), Of(r)) <=> In(q, Of(r)) \/ m \in Of(r)
  BY InAppend
<1>7. All(Append(q, m), Of(NoCaller)) <=> All(q, Of(NoCaller)) /\ m \in Of(NoCaller)
  BY AllAppend
<1> QED
  BY <1>1, <1>3, <1>5, <1>6, <1>7 DEF Carries, Asks, Nobody

LEMMA CarriesTail ==
  ASSUME NEW q \in Seq(Messages), q # << >>, NEW r \in Nat, Carries(q, r)
  PROVE  /\ Carries(Tail(q), r) /\ Head(q).from \in Froms /\ Head(q).from <= r
         /\ Head(q).from = r => Nobody(Tail(q))
         /\ Asks(q, r) <=> Head(q).from = r \/ Asks(Tail(q), r)
         /\ Nobody(q) <=> Head(q).from = NoCaller /\ Nobody(Tail(q))
<1> DEFINE m == Head(q) t == Tail(q)
<1>1. m \in Messages /\ t \in Seq(Messages)
  BY TailElements
<1>2. All(q, UpTo(r)) /\ Behind(q, Of(r), Of(NoCaller))
  BY DEF Carries
<1>3. m \in UpTo(r) /\ All(t, UpTo(r))
  BY <1>2, AllTail
<1>4. Behind(t, Of(r), Of(NoCaller)) /\ (m \in Of(r) => All(t, Of(NoCaller)))
  BY <1>2, BehindTail
<1>5. In(q, Of(r)) <=> m \in Of(r) \/ In(t, Of(r))
  BY InTail
<1>6. All(q, Of(NoCaller)) <=> m \in Of(NoCaller) /\ All(t, Of(NoCaller))
  BY AllTail
<1> HIDE DEF m, t
<1>7. /\ m \in Of(r) <=> m.from = r
      /\ m \in Of(NoCaller) <=> m.from = NoCaller
      /\ m.from \in Froms /\ m.from <= r
  BY <1>1, <1>3 DEF Of, UpTo
<1>8. Carries(t, r) /\ (m.from = r => Nobody(t))
  BY <1>3, <1>4, <1>7 DEF Carries, Nobody
<1>9. /\ Asks(q, r) <=> m.from = r \/ Asks(t, r)
      /\ Nobody(q) <=> m.from = NoCaller /\ Nobody(t)
  BY <1>5, <1>6, <1>7 DEF Asks, Nobody
<1> QED
  BY <1>7, <1>8, <1>9 DEF m, t

LEMMA CarriesOlder ==
  ASSUME NEW q \in Seq(Messages), NEW r \in Nat, Carries(q, r)
  PROVE  Carries(q, r + 1) /\ ~Asks(q, r + 1)
<1>1. \A i \in 1..Len(q) : q[i] \in Messages /\ q[i].from \in Froms /\ q[i].from <= r
  BY DEF Carries, All, UpTo
<1>2. \A f \in Froms : f <= r => f <= r + 1 /\ f # r + 1
  BY DEF Froms, NoCaller
<1>3. \A i \in 1..Len(q) : q[i] \in UpTo(r + 1) /\ q[i] \notin Of(r + 1)
  BY <1>1, <1>2 DEF UpTo, Of
<1> QED
  BY <1>3 DEF Carries, All, Behind, Asks, In

LEMMA CallersTypes ==
  ASSUME Typed
  PROVE  /\ restarts \in Nat /\ restarts \in Froms /\ NoCaller \in Froms
         /\ NoCaller <= restarts /\ NoCaller # restarts
         /\ toSlave \in Seq(Messages) /\ toHost \in Seq(Messages) /\ reqQ \in Seq(Messages)
         /\ rpc \in Messages /\ (rpcPc # "idle" => rpc \in Requests /\ rpc.from \in Froms)
  BY TypedParts DEF Typed, HostTyped, QueuesTyped, RpcTyped, RpcOK, Requests, Froms, NoCaller

LEMMA CallersHost ==
  ASSUME Typed, Callers, HostSide
  PROVE  Callers'
<1> DEFINE r == restarts
<1>1. /\ r \in Nat /\ r \in Froms /\ NoCaller \in Froms /\ NoCaller <= r /\ NoCaller # r
      /\ toSlave \in Seq(Messages) /\ toHost \in Seq(Messages) /\ reqQ \in Seq(Messages)
  BY CallersTypes
<1>2. UNCHANGED <<reqQ, rpcPc, rpc>>
  BY HostFrame
<1>3. CASE AppCalls
  <2>1. PICK op \in Ops, cfg \in Configs \cup {NoConfig} : AppCall(op, cfg)
    BY <1>3 DEF AppCalls
  <2> DEFINE m == Message("req", op, cfg, restarts)
  <2>2. m \in Requests /\ m.from = r
    BY <1>1, <2>1, CallMessage DEF AppCall
  <2>3. m \in Messages
    BY <2>2 DEF Requests
  <2>4. /\ app = "idle" /\ app' = "wait" /\ toSlave' = Append(toSlave, m)
        /\ toHost' = toHost /\ restarts' = restarts
    BY <2>1 DEF AppCall
  <2> HIDE DEF m
  <2>5. ~Asks(toSlave, r) /\ ~Asks(reqQ, r) /\ ~Asks(toHost, r) /\ ~Serving(r)
    BY <2>4 DEF Callers
  <2>6. r <= r
    BY <1>1
  <2>7. Carries(toSlave, r)
    BY DEF Callers
  <2>8. Carries(toSlave', r) /\ Asks(toSlave', r)
    BY <1>1, <2>2, <2>3, <2>4, <2>5, <2>6, <2>7, CarriesLonger
  <2> QED
    BY <1>2, <2>4, <2>5, <2>8 DEF Callers, Serving
<1>4. CASE HostRestart
  <2>1. restarts' = r + 1 /\ app' = "idle" /\ toHost' = << >> /\ toSlave' = toSlave
    BY <1>4 DEF HostRestart
  <2>2. Carries(toSlave, r + 1) /\ ~Asks(toSlave, r + 1)
    BY <1>1, CarriesOlder DEF Callers
  <2>3. Carries(reqQ, r + 1) /\ ~Asks(reqQ, r + 1)
    BY <1>1, CarriesOlder DEF Callers
  <2>4. r + 1 \in Nat
    BY <1>1
  <2>5. Carries(<< >>, r + 1) /\ ~Asks(<< >>, r + 1)
    BY <2>4, CarriesNothing
  <2>6. rpcPc # "idle" => rpc.from <= r + 1 /\ rpc.from # r + 1
    <3>1. rpcPc # "idle" => rpc.from \in Froms /\ rpc.from <= r
      BY CallersTypes DEF Callers
    <3>2. \A f \in Froms : f <= r => f <= r + 1 /\ f # r + 1
      BY <1>1 DEF Froms, NoCaller
    <3> QED
      BY <3>1, <3>2
  <2> QED
    BY <1>2, <2>1, <2>2, <2>3, <2>5, <2>6 DEF Callers, Serving
<1>5. CASE HostReceive
  <2> DEFINE m == Head(toHost) t == Tail(toHost)
  <2>1. toHost # << >> /\ toHost' = t /\ restarts' = r
    BY <1>5, HostTaken
  <2>2. Carries(toHost, r) /\ Carries(toSlave, r)
    BY DEF Callers
  <2>3. /\ Carries(t, r) /\ (m.from = r => Nobody(t))
        /\ Asks(toHost, r) <=> m.from = r \/ Asks(t, r)
    BY <1>1, <2>1, <2>2, CarriesTail
  <2>4. t \in Seq(Messages) /\ m \in Responses \cup EventMessages
    BY <1>1, <2>1, HeadMessage DEF Typed, MessagesOK
  <2>5. m.kind = "evt" => m.from = NoCaller
    BY <2>4, EventKind DEF Responses
  <2>6. Nobody(t) => ~Asks(t, r)
    BY <1>1, <2>4, NobodyAsks
  <2> DEFINE c == ConnectRequest(NoCaller) s == Append(toSlave, c)
  <2>7. c \in Messages /\ c.from = NoCaller
    BY ConnectMessage DEF Requests
  <2> HIDE DEF m, t, c
  <2>8. /\ Carries(s, r) /\ (Asks(s, r) <=> Asks(toSlave, r))
        /\ Nobody(s) <=> Nobody(toSlave)
    BY <1>1, <2>2, <2>7, CarriesLonger
  <2> HIDE DEF s
  <2>9. CASE HostResponse
    <3>1. toSlave' = toSlave
      BY <2>9 DEF HostResponse
    <3>2. IF m.from = r THEN app' = "idle" ELSE app' = app
      BY <2>9 DEF HostResponse, m
    <3>3. CASE m.from = r
      <4>1. ~Asks(t, r) /\ app' = "idle" /\ Asks(toHost, r)
        BY <2>3, <2>6, <3>2, <3>3
      <4>2. ~Asks(reqQ, r) /\ ~Asks(toSlave, r) /\ ~Serving(r)
        BY <1>1, <4>1, NobodyAsks DEF Callers, Serving
      <4> QED
        BY <1>2, <2>1, <2>3, <3>1, <4>1, <4>2 DEF Callers, Serving
    <3>4. CASE m.from # r
      BY <1>2, <2>1, <2>3, <3>1, <3>2, <3>4 DEF Callers, Serving
    <3> QED
      BY <3>3, <3>4
  <2>10. CASE OnStart \/ OnStop \/ OnConnected \/ OnDisconnected
    <3>1. app' = app /\ m.kind = "evt"
      BY <2>10 DEF OnStart, OnStop, OnConnected, OnDisconnected, HostTake, m
    <3>2. Asks(toHost, r) <=> Asks(t, r)
      BY <1>1, <2>3, <2>5, <3>1
    <3>3. toSlave' \in {toSlave, s}
      BY <1>5, HostTaken DEF s, c
    <3>4. /\ Carries(toSlave', r) /\ (Asks(toSlave', r) <=> Asks(toSlave, r))
          /\ Nobody(toSlave') <=> Nobody(toSlave)
      BY <2>2, <2>8, <3>3
    <3> QED
      BY <1>2, <2>1, <2>3, <3>1, <3>2, <3>4 DEF Callers, Serving
  <2> QED
    BY <1>5, <2>9, <2>10 DEF HostReceive
<1> QED
  BY <1>3, <1>4, <1>5 DEF HostSide

LEMMA CallersRecv ==
  ASSUME Typed, Callers, RecvRequest
  PROVE  Callers'
<1> DEFINE r == restarts m == Head(toSlave) t == Tail(toSlave) q == Append(reqQ, m)
<1>1. /\ r \in Nat /\ NoCaller # r
      /\ toSlave \in Seq(Messages) /\ toHost \in Seq(Messages) /\ reqQ \in Seq(Messages)
  BY CallersTypes
<1>2. UNCHANGED <<toHost, rpcPc, rpc, restarts, app>>
  BY RecvFrame
<1>3. toSlave # << >> /\ toSlave' = t /\ reqQ' = q
  BY DEF RecvRequest
<1>4. Carries(toSlave, r) /\ Carries(reqQ, r)
  BY DEF Callers
<1>5. /\ Carries(t, r) /\ m.from \in Froms /\ m.from <= r
      /\ m.from = r => Nobody(t)
      /\ Asks(toSlave, r) <=> m.from = r \/ Asks(t, r)
      /\ Nobody(toSlave) <=> m.from = NoCaller /\ Nobody(t)
  BY <1>1, <1>3, <1>4, CarriesTail
<1>6. m \in Messages /\ t \in Seq(Messages)
  BY <1>1, <1>3, TailElements
<1> HIDE DEF m, t
<1>7. Asks(reqQ, r) => m.from = NoCaller /\ Nobody(t)
  BY <1>5 DEF Callers
<1>8. /\ Carries(q, r) /\ (Asks(q, r) <=> Asks(reqQ, r) \/ m.from = r)
      /\ Nobody(q) <=> Nobody(reqQ) /\ m.from = NoCaller
  BY <1>1, <1>4, <1>5, <1>6, <1>7, CarriesLonger
<1> HIDE DEF q
<1>9. Asks(q, r) => Nobody(t)
  BY <1>5, <1>7, <1>8
<1>10. Serving(r) \/ Asks(toHost, r) => Nobody(q) /\ Nobody(t)
  BY <1>5, <1>8 DEF Callers
<1>11. Asks(toSlave, r) \/ Asks(reqQ, r) <=> Asks(t, r) \/ Asks(q, r)
  BY <1>5, <1>8
<1>12. app = "wait" <=> Asks(t, r) \/ Asks(q, r) \/ Asks(toHost, r) \/ Serving(r)
  BY <1>11 DEF Callers
<1> QED
  BY <1>2, <1>3, <1>5, <1>8, <1>9, <1>10, <1>12 DEF Callers, Serving

\* An event does not count as a call.
LEMMA CallersPut ==
  ASSUME Typed, Callers, NEW e \in Events, Putting(e)
  PROVE  /\ Carries(reqQ', restarts) /\ (Asks(reqQ', restarts) <=> Asks(reqQ, restarts))
         /\ Nobody(reqQ') <=> Nobody(reqQ)
<1> DEFINE m == Event(e)
<1>1. m \in Messages /\ m.from = NoCaller
  BY EventMessage
<1> HIDE DEF m
<1>2. /\ restarts \in Nat /\ NoCaller \in Froms /\ NoCaller <= restarts /\ NoCaller # restarts
      /\ reqQ \in Seq(Messages) /\ Carries(reqQ, restarts)
  BY CallersTypes DEF Callers
<1>3. reqQ' = Append(reqQ, m)
  BY DEF Putting, m
<1> QED
  BY <1>1, <1>2, <1>3, CarriesLonger

\* The response takes the place of the request.
LEMMA CallersAnswer ==
  ASSUME Typed, Callers, Answering
  PROVE  /\ Carries(toHost', restarts)
         /\ Asks(toHost', restarts) <=> Asks(toHost, restarts) \/ Serving(restarts)
         /\ ~Serving(restarts)'
<1> DEFINE m == Response(rpc)
<1>1. /\ rpcPc # "idle" /\ rpcPc' = "idle" /\ toHost' = Append(toHost, m)
  BY DEF Answering
<1>2. rpc \in Requests /\ rpc.from \in Froms /\ rpc.from <= restarts
  BY <1>1, CallersTypes DEF Callers
<1>3. m \in Messages /\ m.from = rpc.from
  BY <1>2, ResponseMessage DEF Responses
<1> HIDE DEF m
<1>4. Asks(toHost, restarts) => m.from = NoCaller
  BY <1>1, <1>3 DEF Callers
<1>5. restarts \in Nat /\ toHost \in Seq(Messages) /\ Carries(toHost, restarts)
  BY CallersTypes DEF Callers
<1>6. /\ Carries(toHost', restarts)
      /\ Asks(toHost', restarts) <=> Asks(toHost, restarts) \/ m.from = restarts
  BY <1>1, <1>2, <1>3, <1>4, <1>5, CarriesLonger
<1> QED
  BY <1>1, <1>3, <1>6 DEF Serving

LEMMA CallersPserial ==
  ASSUME Typed, Callers, Pserial
  PROVE  Callers'
<1> DEFINE r == restarts
<1>1. /\ r \in Nat /\ r \in Froms /\ NoCaller \in Froms /\ NoCaller <= r /\ NoCaller # r
      /\ toSlave \in Seq(Messages) /\ toHost \in Seq(Messages) /\ reqQ \in Seq(Messages)
      /\ Carries(toHost, r) /\ Carries(reqQ, r)
  BY CallersTypes DEF Callers
<1>2. UNCHANGED <<toSlave, restarts, app>>
  BY PserialFrame
<1>3. CASE PserialEvent \/ PserialRequest
  <2> DEFINE m == Head(reqQ) t == Tail(reqQ) q == Append(toHost, m)
  <2>1. reqQ # << >> /\ reqQ' = t /\ rpcPc = "idle"
    BY <1>3 DEF PserialEvent, PserialRequest
  <2>2. /\ Carries(t, r) /\ m.from \in Froms /\ m.from <= r
        /\ m.from = r => Nobody(t)
        /\ Asks(reqQ, r) <=> m.from = r \/ Asks(t, r)
        /\ Nobody(reqQ) <=> m.from = NoCaller /\ Nobody(t)
    BY <1>1, <2>1, CarriesTail
  <2>3. m \in Messages /\ t \in Seq(Messages) /\ m \in Requests \cup EventMessages
    BY <1>1, <2>1, HeadMessage DEF Typed, MessagesOK
  <2> HIDE DEF m, t
  <2>4. CASE PserialEvent
    <3>1. m.kind = "evt" /\ toHost' = q /\ rpcPc' = rpcPc
      BY <2>4 DEF PserialEvent, pserial, m
    <3>2. m.from = NoCaller
      BY <2>3, <3>1, EventKind DEF Requests
    <3>3. Carries(q, r) /\ (Asks(q, r) <=> Asks(toHost, r))
      BY <1>1, <2>3, <3>2, CarriesLonger
    <3> HIDE DEF q
    <3>4. Asks(reqQ, r) <=> Asks(t, r)
      BY <1>1, <2>2, <3>2
    <3>5. ~Serving(r) /\ ~Serving(r)'
      BY <2>1, <3>1 DEF Serving
    <3> QED
      BY <1>2, <2>1, <2>2, <3>1, <3>3, <3>4, <3>5 DEF Callers, Serving
  <2>5. CASE PserialRequest
    <3>1. m.kind = "req" /\ toHost' = toHost /\ rpc' = m /\ rpcPc' = m.what
      BY <2>5 DEF PserialRequest, m
    <3>2. m \in Requests
      BY <2>3, <3>1, EventKind
    <3>3. m.what # "idle"
      BY <3>2 DEF Requests, Ops
    <3>4. Serving(r)' <=> m.from = r
      BY <1>2, <3>1, <3>3 DEF Serving
    <3>5. ~Serving(r)
      BY <2>1 DEF Serving
    <3>6. Asks(t, r) \/ m.from = r => Nobody(toSlave)
      BY <2>2 DEF Callers
    <3>7. Asks(toHost, r) => Nobody(t) /\ Nobody(toSlave) /\ m.from = NoCaller
      BY <2>2 DEF Callers
    <3>8. app = "wait" <=> Asks(toSlave, r) \/ Asks(t, r) \/ Asks(toHost, r) \/ m.from = r
      BY <2>2, <3>5 DEF Callers
    <3> QED
      BY <1>1, <1>2, <2>1, <2>2, <3>1, <3>4, <3>6, <3>7, <3>8 DEF Callers
  <2> QED
    BY <1>3, <2>4, <2>5
<1>4. ASSUME Answering,
             /\ Carries(reqQ', r) /\ (Asks(reqQ', r) <=> Asks(reqQ, r))
             /\ Nobody(reqQ') <=> Nobody(reqQ)
      PROVE  Callers'
  <2>1. /\ Carries(toHost', r) /\ (Asks(toHost', r) <=> Asks(toHost, r) \/ Serving(r))
        /\ ~Serving(r)'
    BY <1>4, CallersAnswer
  <2>2. rpcPc' = "idle"
    BY <1>4 DEF Answering
  <2> QED
    BY <1>2, <1>4, <2>1, <2>2 DEF Callers
<1>5. CASE Answering /\ reqQ' = reqQ
  BY <1>1, <1>4, <1>5
<1>6. CASE Continuing /\ reqQ' = reqQ
  <2>1. rpcPc # "idle" /\ rpcPc' # "idle" /\ rpc' = rpc /\ toHost' = toHost
    BY <1>6 DEF Continuing
  <2> QED
    BY <1>2, <1>6, <2>1 DEF Callers, Serving
<1>7. CASE StartEvent \/ ConnectAck
  <2>1. PICK e \in Events : Putting(e)
    BY <1>7, PuttingPserial DEF Events
  <2>2. Answering
    BY <1>7, PuttingPserial
  <2> QED
    BY <1>4, <2>1, <2>2, CallersPut
<1> QED
  BY <1>3, <1>5, <1>6, <1>7, PserialCases

LEMMA CallersKept ==
  ASSUME Typed, Callers, [Next]_vars
  PROVE  Callers'
<1>1. CASE EventTask
  <2>1. UNCHANGED <<toSlave, toHost, rpcPc, rpc, restarts, app>>
    BY <1>1, EventFrame
  <2>2. CASE reqQ' = reqQ
    BY <2>1, <2>2 DEF Callers, Serving
  <2>3. CASE Putting(ev)
    <3>1. ev \in Events
      BY TypedParts DEF Typed, EventTyped
    <3>2. /\ Carries(reqQ', restarts) /\ (Asks(reqQ', restarts) <=> Asks(reqQ, restarts))
          /\ Nobody(reqQ') <=> Nobody(reqQ)
      BY <2>3, <3>1, CallersPut
    <3> QED
      BY <2>1, <3>2 DEF Callers, Serving
  <2> QED
    BY <1>1, <2>2, <2>3, EventQueue
<1>2. CASE LinkUp \/ LinkDown \/ UNCHANGED vars
  <2>1. UNCHANGED <<toSlave, toHost, reqQ, rpcPc, rpc, restarts, app>>
    BY <1>2, LinkFrame, StutterFrame
  <2> QED
    BY <2>1 DEF Callers, Serving
<1> QED
  BY <1>1, <1>2, CallersHost, CallersRecv, CallersPserial, NextParts

-----------------------------------------------------------------------------
(* The library's events: starts and stops alternate, and so do links and    *)
(* losses.                                                                   *)

LEMMA AlternateTail ==
  ASSUME NEW M, NEW q \in Seq(M), q # << >>, NEW S, NEW P
  PROVE  /\ Parted(q, S, P) =>
              Parted(Tail(q), S, P) /\ (Head(q) \in S => Preceded(Tail(q), S, P))
         /\ Preceded(q, S, P) /\ Head(q) \notin P => Preceded(Tail(q), S, P)
         /\ Followed(q, S, P) =>
              Followed(Tail(q), S, P) /\ (Head(q) \in S => In(Tail(q), P))
         /\ Followed(q, P, S) =>
              Followed(Tail(q), P, S) /\ (Head(q) \in P => In(Tail(q), S))
         /\ In(q, S) <=> Head(q) \in S \/ In(Tail(q), S)
         /\ In(q, P) <=> Head(q) \in P \/ In(Tail(q), P)
<1>1. /\ Followed(q, S, P) =>
           Followed(Tail(q), S, P) /\ (Head(q) \in S => In(Tail(q), P))
      /\ Followed(q, P, S) =>
           Followed(Tail(q), P, S) /\ (Head(q) \in P => In(Tail(q), S))
  BY FollowedTail
<1>2. /\ In(q, S) <=> Head(q) \in S \/ In(Tail(q), S)
      /\ In(q, P) <=> Head(q) \in P \/ In(Tail(q), P)
  BY InTail
<1> QED
  BY <1>1, <1>2, PartedTail, PrecededTail

LEMMA AlternateAppend ==
  ASSUME NEW M, NEW q \in Seq(M), NEW x \in M, NEW S, NEW P
  PROVE  /\ x \notin S =>
              /\ Parted(q, S, P) => Parted(Append(q, x), S, P)
              /\ Preceded(q, S, P) => Preceded(Append(q, x), S, P)
              /\ Followed(q, S, P) \/ x \in P => Followed(Append(q, x), S, P)
         /\ x \notin P /\ (Followed(q, P, S) \/ x \in S) => Followed(Append(q, x), P, S)
         /\ Parted(q, S, P) /\ Followed(q, S, P) => Parted(Append(q, x), S, P)
         /\ Preceded(q, S, P) /\ In(q, P) => Preceded(Append(q, x), S, P)
         /\ In(Append(q, x), S) <=> In(q, S) \/ x \in S
         /\ In(Append(q, x), P) <=> In(q, P) \/ x \in P
<1>1. /\ x \notin S /\ (Followed(q, S, P) \/ x \in P) => Followed(Append(q, x), S, P)
      /\ x \notin P /\ (Followed(q, P, S) \/ x \in S) => Followed(Append(q, x), P, S)
  BY FollowedAppend
<1>2. /\ In(Append(q, x), S) <=> In(q, S) \/ x \in S
      /\ In(Append(q, x), P) <=> In(q, P) \/ x \in P
  BY InAppend
<1>3. Parted(q, S, P) /\ (x \in S => Followed(q, S, P)) => Parted(Append(q, x), S, P)
  BY PartedAppend
<1>4. Preceded(q, S, P) /\ (x \in S => In(q, P)) => Preceded(Append(q, x), S, P)
  BY PrecededAppend
<1> QED
  BY <1>1, <1>2, <1>3, <1>4

Handling(e) == evPc # "idle" /\ ev = e
StartSet == {"STA_START"}
StopSet == {"STA_STOP"}
UpSet == {"STA_CONNECTED"}
DownSet == {"STA_DISCONNECTED"}

LEMMA EventSets ==
  \A e \in Events :
    /\ e \in StartSet <=> e = "STA_START"
    /\ e \in StopSet <=> e = "STA_STOP"
    /\ e \in UpSet <=> e = "STA_CONNECTED"
    /\ e \in DownSet <=> e = "STA_DISCONNECTED"
  BY DEF StartSet, StopSet, UpSet, DownSet

\* Which step takes an event, and what it makes of the flags.
LEMMA TakeCases ==
  ASSUME TakesFrom
  PROVE  /\ evQ # << >> /\ evQ' = Tail(evQ) /\ lib' = lib /\ evPc = "idle"
         /\ \/ /\ TakeStart /\ Head(evQ) = "STA_START" /\ stationConnecting' = TRUE
               /\ stationConnected' = stationConnected
               /\ \/ evPc' = "idle" /\ stationConnecting
                  \/ evPc' = "connect" /\ ev' = "STA_START" /\ ~stationConnecting
            \/ /\ TakeStop /\ Head(evQ) = "STA_STOP" /\ stationConnecting' = FALSE
               /\ stationConnected' = stationConnected /\ evPc' = "send" /\ ev' = "STA_STOP"
            \/ /\ TakeConnected /\ Head(evQ) = "STA_CONNECTED"
               /\ (stationConnecting' => stationConnecting)
               /\ stationConnected' = stationConnected
               /\ evPc' = (IF newConfigRecvd THEN "apply" ELSE "send") /\ ev' = "STA_CONNECTED"
            \/ /\ TakeDisconnected /\ Head(evQ) = "STA_DISCONNECTED"
               /\ stationConnecting' = stationConnecting /\ stationConnected' = FALSE
               /\ evPc' = "lost" /\ ev' = "STA_DISCONNECTED"
<1>1. CASE TakeStart
  <2>1. EventTake("STA_START", IF stationConnecting THEN "idle" ELSE "connect")
    BY <1>1 DEF TakeStart
  <2>2. stationConnecting' = TRUE /\ stationConnected' = stationConnected
    BY <1>1 DEF TakeStart, link
  <2>3. CASE stationConnecting
    <3>1. EventTake("STA_START", "idle")
      BY <2>1, <2>3
    <3> QED
      BY <1>1, <2>2, <2>3, <3>1, TakesEvent
  <2>4. CASE ~stationConnecting
    <3>1. EventTake("STA_START", "connect")
      BY <2>1, <2>4
    <3>2. /\ evPc = "idle" /\ evPc' = "connect" /\ ev' = "STA_START" /\ lib' = lib
          /\ evQ # << >> /\ Head(evQ) = "STA_START" /\ evQ' = Tail(evQ)
      BY <3>1, TakesEvent
    <3> QED
      BY <1>1, <2>2, <2>4, <3>2
  <2> QED
    BY <2>3, <2>4
<1>2. CASE TakeStop
  <2>1. EventTake("STA_STOP", "send")
    BY <1>2 DEF TakeStop
  <2> QED
    BY <1>2, <2>1, TakesEvent DEF TakeStop, link
<1>3. CASE TakeConnected
  <2> DEFINE next == IF newConfigRecvd THEN "apply" ELSE "send"
  <2>1. EventTake("STA_CONNECTED", next) /\ next # "idle"
    BY <1>3 DEF TakeConnected
  <2> HIDE DEF next
  <2>2. /\ evPc = "idle" /\ evPc' = next /\ ev' = "STA_CONNECTED" /\ lib' = lib
        /\ evQ # << >> /\ Head(evQ) = "STA_CONNECTED" /\ evQ' = Tail(evQ)
    BY <2>1, TakesEvent
  <2>3. (stationConnecting' => stationConnecting) /\ stationConnected' = stationConnected
    BY <1>3 DEF TakeConnected, link
  <2> QED
    BY <1>3, <2>2, <2>3 DEF next
<1>4. CASE TakeDisconnected
  <2>1. EventTake("STA_DISCONNECTED", "lost")
    BY <1>4 DEF TakeDisconnected
  <2>2. stationConnecting' = stationConnecting /\ stationConnected' = FALSE
    BY <1>4 DEF TakeDisconnected
  <2> QED
    BY <1>4, <2>1, <2>2, TakesEvent
<1> QED
  BY <1>1, <1>2, <1>3, <1>4 DEF TakesFrom

\* What the other steps leave of the flags and of the event that is handled.
LEMMA FlagCases ==
  ASSUME [Next]_vars, ~TakesFrom
  PROVE  /\ stationConnecting' => stationConnecting
         /\ stationConnected' = stationConnected \/ OpenData
         /\ \/ evPc' = evPc /\ ev' = ev
            \/ evPc # "idle" /\ (evPc' = "idle" \/ ev' = ev)
<1>1. CASE HostSide \/ RecvRequest \/ LinkUp \/ LinkDown \/ UNCHANGED vars
  BY <1>1, HostFrame, RecvFrame, LinkFrame, StutterFrame
<1>2. CASE Pserial
  <2>1. evPc' = evPc /\ ev' = ev /\ stationConnected' = stationConnected
    BY <1>2, PserialFrame
  <2>2. stationConnecting' => stationConnecting
    <3>1. CASE \/ PserialEvent \/ PserialRequest \/ StartEvent \/ ConnectAck \/ StartLib
               \/ StopLib \/ DisconnectLib \/ ConnectCheck
      BY <3>1 DEF PserialEvent, PserialRequest, StartEvent, ConnectAck, StartLib, StopLib,
                  DisconnectLib, ConnectCheck, station
    <3>2. CASE \/ ConnectLib \/ ConfigCheck \/ ConfigProvision \/ ConfigFlag \/ ConfigCopy
               \/ ConfigSame
      BY <3>2 DEF ConnectLib, ConfigCheck, ConfigProvision, ConfigFlag, ConfigCopy, ConfigSame,
                  station
    <3> QED
      BY <1>2, <3>1, <3>2 DEF Pserial
  <2> QED
    BY <2>1, <2>2
<1>3. CASE EventTask
  <2>1. CASE \/ LostPending \/ StartConnect \/ ApplyPending \/ ClearPending \/ DropLink
             \/ SendEvent
    <3>1. evPc # "idle" /\ (evPc' = "idle" \/ ev' = ev)
      BY <2>1 DEF LostPending, StartConnect, ApplyPending, ClearPending, DropLink, SendEvent,
                  EventStep, Goto
    <3>2. stationConnecting' = stationConnecting /\ stationConnected' = stationConnected
      BY <2>1 DEF LostPending, StartConnect, ApplyPending, ClearPending, DropLink, SendEvent,
                  station, link
    <3> QED
      BY <3>1, <3>2
  <2>2. CASE CloseData \/ OpenData
    BY <2>2 DEF CloseData, OpenData, EventStep, Goto, link
  <2> QED
    BY <1>3, <2>1, <2>2 DEF EventTask, TakesFrom
<1> QED
  BY <1>1, <1>2, <1>3, NextParts

LEMMA HandlingKept ==
  ASSUME [Next]_vars, ~TakesFrom, NEW e
  PROVE  Handling(e)' => Handling(e)
  BY FlagCases DEF Handling

\* esp_wifi_stop is called by pserial_task only.
LEMMA OthersNeverStop ==
  ASSUME [Next]_vars, ~Pserial, lib # "stopped"
  PROVE  lib' # "stopped"
<1>1. CASE HostSide \/ RecvRequest \/ UNCHANGED vars
  BY <1>1, HostFrame, RecvFrame, StutterFrame
<1>2. CASE LinkUp \/ LinkDown
  BY <1>2 DEF LinkUp, LinkDown
<1>3. CASE EventTask
  BY <1>3, EventLibrary DEF LibSame, LibTaken, LibConnects, LibUnlinks
<1> QED
  BY <1>1, <1>2, <1>3, NextParts

StartRuns == rpcPc = "startEvent" => lib # "stopped"

LEMMA StartRunsKept ==
  ASSUME Typed, StartRuns, [Next]_vars
  PROVE  StartRuns'
<1>1. CASE ~Pserial
  <2>1. rpcPc' = rpcPc
    BY <1>1, NextParts, HostFrame, RecvFrame, LinkFrame, EventFrame, StutterFrame
  <2> QED
    BY <1>1, <2>1, OthersNeverStop DEF StartRuns
<1>2. CASE StartLib
  <2>1. lib' # "stopped"
    BY <1>2 DEF StartLib, EspStart
  <2> QED
    BY <2>1 DEF StartRuns
<1>3. CASE PserialRequest
  <2>1. reqQ # << >> /\ rpcPc' = Head(reqQ).what /\ Head(reqQ).kind = "req"
    BY <1>3 DEF PserialRequest
  <2>2. Head(reqQ) \in Requests \cup EventMessages
    BY <2>1, HeadMessage, TypedParts DEF Typed, QueuesTyped, MessagesOK
  <2>3. Head(reqQ) \in Requests
    BY <2>1, <2>2, EventKind
  <2>4. rpcPc' # "startEvent"
    BY <2>1, <2>3 DEF Requests, Ops
  <2> QED
    BY <2>4 DEF StartRuns
<1>4. CASE PserialEvent
  <2>1. rpcPc' = "idle"
    BY <1>4 DEF PserialEvent, pserial
  <2> QED
    BY <2>1 DEF StartRuns
<1>5. CASE Answering
  BY <1>5 DEF Answering, StartRuns
<1>6. CASE ConnectCheck \/ ConfigCheck \/ ConfigProvision \/ ConfigFlag
  <2>1. rpcPc' # "startEvent"
    <3>1. Answering \/ (Continuing /\ rpcPc # "start")
      BY <1>6, CheckingPserial DEF ConnectCheck, ConfigCheck, ConfigProvision, ConfigFlag
    <3> QED
      BY <3>1 DEF Answering, Continuing
  <2> QED
    BY <2>1 DEF StartRuns
<1> QED
  BY <1>1, <1>2, <1>3, <1>4, <1>5, <1>6, AnsweringPserial, PuttingPserial DEF Pserial

Starts ==
    /\ Parted(evQ, StartSet, StopSet)
    /\ stationConnecting => Preceded(evQ, StartSet, StopSet)
    /\ lib = "stopped" => /\ Followed(evQ, StartSet, StopSet)
                          /\ stationConnecting => In(evQ, StopSet)
    /\ lib # "stopped" => /\ Followed(evQ, StopSet, StartSet)
                          /\ Handling("STA_STOP") => In(evQ, StartSet)

LEMMA StartsTaken ==
  ASSUME evQ \in Seq(Events), Starts, TakesFrom
  PROVE  Starts'
<1> DEFINE q == evQ t == Tail(evQ) x == Head(evQ)
<1>1. evQ' = t /\ lib' = lib /\ q # << >>
  BY TakeCases
<1>2. x \in Events
  BY <1>1, TailElements
<1>3. /\ Parted(q, StartSet, StopSet) =>
           Parted(t, StartSet, StopSet) /\ (x \in StartSet => Preceded(t, StartSet, StopSet))
      /\ Preceded(q, StartSet, StopSet) /\ x \notin StopSet => Preceded(t, StartSet, StopSet)
      /\ Followed(q, StartSet, StopSet) =>
           Followed(t, StartSet, StopSet) /\ (x \in StartSet => In(t, StopSet))
      /\ Followed(q, StopSet, StartSet) =>
           Followed(t, StopSet, StartSet) /\ (x \in StopSet => In(t, StartSet))
      /\ In(q, StartSet) <=> x \in StartSet \/ In(t, StartSet)
      /\ In(q, StopSet) <=> x \in StopSet \/ In(t, StopSet)
  BY <1>1, AlternateTail
<1>4. (x \in StartSet <=> x = "STA_START") /\ (x \in StopSet <=> x = "STA_STOP")
  BY <1>2, EventSets
<1>5. /\ Parted(q, StartSet, StopSet)
      /\ stationConnecting => Preceded(q, StartSet, StopSet)
      /\ lib = "stopped" => /\ Followed(q, StartSet, StopSet)
                            /\ stationConnecting => In(q, StopSet)
      /\ lib # "stopped" => Followed(q, StopSet, StartSet)
  BY DEF Starts
<1>6. /\ stationConnecting' => x = "STA_START" \/ (stationConnecting /\ x # "STA_STOP")
      /\ Handling("STA_STOP")' => x = "STA_STOP"
  <2>1. stationConnecting' => x = "STA_START" \/ (stationConnecting /\ x # "STA_STOP")
    BY TakeCases
  <2>2. x = "STA_STOP" \/ evPc' = "idle" \/ ev' # "STA_STOP"
    BY TakeCases
  <2> QED
    BY <2>1, <2>2 DEF Handling
<1> HIDE DEF q, t, x
<1>7. Parted(t, StartSet, StopSet)
  BY <1>3, <1>5
<1>8. stationConnecting' => Preceded(t, StartSet, StopSet)
  BY <1>3, <1>4, <1>5, <1>6
<1>9. lib = "stopped" => /\ Followed(t, StartSet, StopSet)
                         /\ stationConnecting' => In(t, StopSet)
  BY <1>3, <1>4, <1>5, <1>6
<1>10. lib # "stopped" => /\ Followed(t, StopSet, StartSet)
                          /\ Handling("STA_STOP")' => In(t, StartSet)
  BY <1>3, <1>4, <1>5, <1>6
<1> QED
  BY <1>1, <1>7, <1>8, <1>9, <1>10 DEF Starts

LEMMA StartsKept ==
  ASSUME StationTyped, Starts, [Next]_vars
  PROVE  Starts'
<1> DEFINE q == evQ
<1>1. q \in Seq(Events)
  BY DEF StationTyped
<1>2. CASE TakesFrom
  BY <1>1, <1>2, StartsTaken
<1>3. CASE ~TakesFrom
  <2>1. (stationConnecting' => stationConnecting) /\ (Handling("STA_STOP")' => Handling("STA_STOP"))
    BY <1>3, FlagCases, HandlingKept
  <2>2. /\ Parted(q, StartSet, StopSet)
        /\ stationConnecting => Preceded(q, StartSet, StopSet)
        /\ lib = "stopped" => /\ Followed(q, StartSet, StopSet)
                              /\ stationConnecting => In(q, StopSet)
        /\ lib # "stopped" => /\ Followed(q, StopSet, StartSet)
                              /\ Handling("STA_STOP") => In(q, StartSet)
    BY DEF Starts
  <2> HIDE DEF q
  <2>3. CASE LibSame \/ LibConnects
    <3>1. evQ' = q /\ (lib' = "stopped" <=> lib = "stopped")
      BY <2>3 DEF LibSame, LibConnects, q
    <3> QED
      BY <2>1, <2>2, <3>1 DEF Starts
  <2>4. ASSUME NEW s \in Seq(Events), NEW x \in Events
        PROVE  /\ x # "STA_START" =>
                    /\ Parted(s, StartSet, StopSet) => Parted(Append(s, x), StartSet, StopSet)
                    /\ Preceded(s, StartSet, StopSet) => Preceded(Append(s, x), StartSet, StopSet)
                    /\ Followed(s, StartSet, StopSet) \/ x = "STA_STOP" =>
                         Followed(Append(s, x), StartSet, StopSet)
               /\ x # "STA_STOP" /\ (Followed(s, StopSet, StartSet) \/ x = "STA_START") =>
                    Followed(Append(s, x), StopSet, StartSet)
               /\ Parted(s, StartSet, StopSet) /\ Followed(s, StartSet, StopSet) =>
                    Parted(Append(s, x), StartSet, StopSet)
               /\ Preceded(s, StartSet, StopSet) /\ In(s, StopSet) =>
                    Preceded(Append(s, x), StartSet, StopSet)
               /\ In(Append(s, x), StartSet) <=> In(s, StartSet) \/ x = "STA_START"
               /\ In(Append(s, x), StopSet) <=> In(s, StopSet) \/ x = "STA_STOP"
    <3>1. (x \in StartSet <=> x = "STA_START") /\ (x \in StopSet <=> x = "STA_STOP")
      BY EventSets
    <3> QED
      BY <3>1, AlternateAppend
  <2>5. CASE LibStarts
    <3> DEFINE u == Append(q, "STA_START")
    <3>1. evQ' = u /\ lib = "stopped" /\ lib' # "stopped"
      BY <2>5 DEF LibStarts, q
    <3>2. /\ Followed(u, StopSet, StartSet) /\ In(u, StartSet)
          /\ Parted(q, StartSet, StopSet) /\ Followed(q, StartSet, StopSet) =>
               Parted(u, StartSet, StopSet)
          /\ Preceded(q, StartSet, StopSet) /\ In(q, StopSet) => Preceded(u, StartSet, StopSet)
      BY <1>1, <2>4 DEF Events
    <3> HIDE DEF u
    <3> QED
      BY <2>1, <2>2, <3>1, <3>2 DEF Starts
  <2>6. CASE LibUnlinks \/ LibLinks
    <3>1. PICK x \in {"STA_CONNECTED", "STA_DISCONNECTED"} :
            evQ' = Append(q, x) /\ lib # "stopped" /\ lib' # "stopped"
      BY <2>6 DEF LibUnlinks, LibLinks, Linking, q
    <3>2. x \in Events /\ x # "STA_START" /\ x # "STA_STOP"
      BY DEF Events
    <3> DEFINE u == Append(q, x)
    <3>3. /\ Parted(q, StartSet, StopSet) => Parted(u, StartSet, StopSet)
          /\ Preceded(q, StartSet, StopSet) => Preceded(u, StartSet, StopSet)
          /\ Followed(q, StopSet, StartSet) => Followed(u, StopSet, StartSet)
          /\ In(u, StartSet) <=> In(q, StartSet)
      BY <1>1, <2>4, <3>2
    <3>4. evQ' = u
      BY <3>1
    <3> HIDE DEF u
    <3> QED
      BY <2>1, <2>2, <3>1, <3>3, <3>4 DEF Starts
  <2>7. CASE LibStops
    <3> DEFINE v == IF Linking THEN Append(q, "STA_DISCONNECTED") ELSE q
               u == Append(v, "STA_STOP")
    <3>1. evQ' = u /\ lib # "stopped" /\ lib' = "stopped"
      BY <2>7 DEF LibStops, q
    <3>2. /\ v \in Seq(Events)
          /\ Parted(q, StartSet, StopSet) => Parted(v, StartSet, StopSet)
          /\ Preceded(q, StartSet, StopSet) => Preceded(v, StartSet, StopSet)
      <4>1. CASE Linking
        BY <1>1, <2>4, <4>1 DEF Events
      <4>2. CASE ~Linking
        BY <1>1, <4>2
      <4> QED
        BY <4>1, <4>2
    <3> HIDE DEF v
    <3>3. /\ Parted(v, StartSet, StopSet) => Parted(u, StartSet, StopSet)
          /\ Preceded(v, StartSet, StopSet) => Preceded(u, StartSet, StopSet)
          /\ Followed(u, StartSet, StopSet) /\ In(u, StopSet)
      BY <2>4, <3>2 DEF Events
    <3> HIDE DEF u
    <3> QED
      BY <2>1, <2>2, <3>1, <3>2, <3>3 DEF Starts
  <2> QED
    BY <1>3, <2>3, <2>5, <2>6, <2>7, LibraryCases, EventLibrary DEF EventTask, TakesFrom
<1> QED
  BY <1>2, <1>3

LinkSeen == stationConnected \/ Handling("STA_CONNECTED")

Links ==
    /\ Parted(evQ, UpSet, DownSet)
    /\ LinkSeen => Preceded(evQ, UpSet, DownSet)
    /\ lib # "connected" => /\ Followed(evQ, UpSet, DownSet)
                            /\ LinkSeen => In(evQ, DownSet)
    /\ lib = "connected" => /\ Followed(evQ, DownSet, UpSet)
                            /\ LinkSeen \/ In(evQ, UpSet)

LEMMA LinkSeenKept ==
  ASSUME EventOK, [Next]_vars, ~TakesFrom
  PROVE  (LinkSeen' => LinkSeen) /\ (LinkSeen => LinkSeen' \/ lib' # "connected")
<1>1. LinkSeen' => LinkSeen
  <2>1. OpenData => Handling("STA_CONNECTED")
    BY DEF OpenData, EventStep, EventOK, EvOK, Handling
  <2> QED
    BY <2>1, FlagCases, HandlingKept DEF LinkSeen
<1>2. ASSUME LinkSeen PROVE LinkSeen' \/ lib' # "connected"
  <2>1. CASE OpenData
    BY <2>1 DEF OpenData, LinkSeen
  <2>2. CASE stationConnected /\ ~OpenData
    BY <2>2, FlagCases DEF LinkSeen
  <2>3. CASE Handling("STA_CONNECTED") /\ ~OpenData
    <3>1. evPc # "idle" /\ ev = "STA_CONNECTED"
      BY <2>3 DEF Handling
    <3>2. CASE EventTask
      <4>1. CASE DropLink
        BY <4>1 DEF DropLink, EspDisconnect, Linking
      <4>2. CASE ApplyPending \/ ClearPending \/ SendEvent
        <5>1. evPc' # "idle" /\ ev' = ev
          BY <3>1, <4>2 DEF ApplyPending, ClearPending, SendEvent, Goto, AfterPending
        <5> QED
          BY <3>1, <5>1 DEF LinkSeen, Handling
      <4>3. ~LostPending /\ ~StartConnect /\ ~CloseData
        BY <3>1 DEF LostPending, StartConnect, CloseData, EventStep, EventOK, EvOK
      <4> QED
        BY <2>3, <3>2, <4>1, <4>2, <4>3 DEF EventTask, TakesFrom
    <3>3. CASE ~EventTask
      <4>1. evPc' = evPc /\ ev' = ev
        BY <3>3, NextParts, HostFrame, RecvFrame, LinkFrame, PserialFrame, StutterFrame
      <4> QED
        BY <3>1, <4>1 DEF LinkSeen, Handling
    <3> QED
      BY <3>2, <3>3
  <2> QED
    BY <1>2, <2>1, <2>2, <2>3 DEF LinkSeen
<1> QED
  BY <1>1, <1>2

LEMMA LinksTaken ==
  ASSUME evQ \in Seq(Events), Links, TakesFrom
  PROVE  Links'
<1> DEFINE q == evQ t == Tail(evQ) x == Head(evQ)
<1>1. evQ' = t /\ lib' = lib /\ q # << >>
  BY TakeCases
<1>2. x \in Events
  BY <1>1, TailElements
<1>3. /\ Parted(q, UpSet, DownSet) =>
           Parted(t, UpSet, DownSet) /\ (x \in UpSet => Preceded(t, UpSet, DownSet))
      /\ Preceded(q, UpSet, DownSet) /\ x \notin DownSet => Preceded(t, UpSet, DownSet)
      /\ Followed(q, UpSet, DownSet) =>
           Followed(t, UpSet, DownSet) /\ (x \in UpSet => In(t, DownSet))
      /\ Followed(q, DownSet, UpSet) =>
           Followed(t, DownSet, UpSet) /\ (x \in DownSet => In(t, UpSet))
      /\ In(q, UpSet) <=> x \in UpSet \/ In(t, UpSet)
      /\ In(q, DownSet) <=> x \in DownSet \/ In(t, DownSet)
  BY <1>1, AlternateTail
<1>4. (x \in UpSet <=> x = "STA_CONNECTED") /\ (x \in DownSet <=> x = "STA_DISCONNECTED")
  BY <1>2, EventSets
<1>5. /\ Parted(q, UpSet, DownSet)
      /\ LinkSeen => Preceded(q, UpSet, DownSet)
      /\ lib # "connected" => /\ Followed(q, UpSet, DownSet)
                              /\ LinkSeen => In(q, DownSet)
      /\ lib = "connected" => Followed(q, DownSet, UpSet) /\ (LinkSeen \/ In(q, UpSet))
  BY DEF Links
<1>6. /\ x = "STA_CONNECTED" => LinkSeen'
      /\ x = "STA_DISCONNECTED" => ~LinkSeen'
      /\ x # "STA_CONNECTED" /\ x # "STA_DISCONNECTED" => (LinkSeen' <=> LinkSeen)
  <2>1. LinkSeen <=> stationConnected
    BY TakeCases DEF LinkSeen, Handling
  <2>2. x = "STA_CONNECTED" => evPc' # "idle" /\ ev' = "STA_CONNECTED"
    BY TakeCases
  <2>3. x = "STA_DISCONNECTED" => ev' # "STA_CONNECTED" /\ stationConnected' = FALSE
    BY TakeCases
  <2>4. x # "STA_CONNECTED" /\ x # "STA_DISCONNECTED" =>
          (evPc' = "idle" \/ ev' # "STA_CONNECTED") /\ stationConnected' = stationConnected
    BY TakeCases
  <2> QED
    BY <2>1, <2>2, <2>3, <2>4 DEF LinkSeen, Handling
<1> HIDE DEF q, t, x
<1>7. Parted(t, UpSet, DownSet)
  BY <1>3, <1>5
<1>8. LinkSeen' => Preceded(t, UpSet, DownSet)
  BY <1>3, <1>4, <1>5, <1>6
<1>9. lib # "connected" => /\ Followed(t, UpSet, DownSet)
                           /\ LinkSeen' => In(t, DownSet)
  BY <1>3, <1>4, <1>5, <1>6
<1>10. lib = "connected" => /\ Followed(t, DownSet, UpSet)
                            /\ LinkSeen' \/ In(t, UpSet)
  BY <1>3, <1>4, <1>5, <1>6
<1> QED
  BY <1>1, <1>7, <1>8, <1>9, <1>10 DEF Links

LEMMA LinksKept ==
  ASSUME StationTyped, EventOK, Links, [Next]_vars
  PROVE  Links'
<1> DEFINE q == evQ
<1>1. q \in Seq(Events)
  BY DEF StationTyped
<1>2. CASE TakesFrom
  BY <1>1, <1>2, LinksTaken
<1>3. CASE ~TakesFrom
  <2>1. (LinkSeen' => LinkSeen) /\ (LinkSeen => LinkSeen' \/ lib' # "connected")
    BY <1>3, LinkSeenKept
  <2>2. /\ Parted(q, UpSet, DownSet)
        /\ LinkSeen => Preceded(q, UpSet, DownSet)
        /\ lib # "connected" => /\ Followed(q, UpSet, DownSet)
                                /\ LinkSeen => In(q, DownSet)
        /\ lib = "connected" => /\ Followed(q, DownSet, UpSet)
                                /\ LinkSeen \/ In(q, UpSet)
    BY DEF Links
  <2> HIDE DEF q
  <2>3. CASE LibSame
    <3>1. evQ' = q /\ lib' = lib
      BY <2>3 DEF LibSame, q
    <3> QED
      BY <2>1, <2>2, <3>1 DEF Links
  <2>4. CASE LibConnects
    <3>1. evQ' = q /\ lib # "connected" /\ lib' # "connected"
      BY <2>4 DEF LibConnects, q
    <3> QED
      BY <2>1, <2>2, <3>1 DEF Links
  <2>5. ASSUME NEW s \in Seq(Events), NEW x \in Events
        PROVE  /\ x # "STA_CONNECTED" =>
                    /\ Parted(s, UpSet, DownSet) => Parted(Append(s, x), UpSet, DownSet)
                    /\ Preceded(s, UpSet, DownSet) => Preceded(Append(s, x), UpSet, DownSet)
                    /\ Followed(s, UpSet, DownSet) \/ x = "STA_DISCONNECTED" =>
                         Followed(Append(s, x), UpSet, DownSet)
               /\ x # "STA_DISCONNECTED" /\ (Followed(s, DownSet, UpSet) \/ x = "STA_CONNECTED") =>
                    Followed(Append(s, x), DownSet, UpSet)
               /\ Parted(s, UpSet, DownSet) /\ Followed(s, UpSet, DownSet) =>
                    Parted(Append(s, x), UpSet, DownSet)
               /\ Preceded(s, UpSet, DownSet) /\ In(s, DownSet) =>
                    Preceded(Append(s, x), UpSet, DownSet)
               /\ In(Append(s, x), UpSet) <=> In(s, UpSet) \/ x = "STA_CONNECTED"
               /\ In(Append(s, x), DownSet) <=> In(s, DownSet) \/ x = "STA_DISCONNECTED"
    <3>1. (x \in UpSet <=> x = "STA_CONNECTED") /\ (x \in DownSet <=> x = "STA_DISCONNECTED")
      BY EventSets
    <3> QED
      BY <3>1, AlternateAppend
  <2>6. CASE LibStarts
    <3> DEFINE u == Append(q, "STA_START")
    <3>1. evQ' = u /\ lib # "connected" /\ lib' # "connected"
      BY <2>6 DEF LibStarts, q
    <3>2. /\ Parted(q, UpSet, DownSet) => Parted(u, UpSet, DownSet)
          /\ Preceded(q, UpSet, DownSet) => Preceded(u, UpSet, DownSet)
          /\ Followed(q, UpSet, DownSet) => Followed(u, UpSet, DownSet)
          /\ In(u, DownSet) <=> In(q, DownSet)
      BY <1>1, <2>5 DEF Events
    <3> HIDE DEF u
    <3> QED
      BY <2>1, <2>2, <3>1, <3>2 DEF Links
  <2>7. CASE LibLinks
    <3> DEFINE u == Append(q, "STA_CONNECTED")
    <3>1. evQ' = u /\ lib # "connected" /\ lib' = "connected"
      BY <2>7 DEF LibLinks, q
    <3>2. /\ Followed(u, DownSet, UpSet) /\ In(u, UpSet)
          /\ Parted(q, UpSet, DownSet) /\ Followed(q, UpSet, DownSet) => Parted(u, UpSet, DownSet)
          /\ Preceded(q, UpSet, DownSet) /\ In(q, DownSet) => Preceded(u, UpSet, DownSet)
      BY <1>1, <2>5 DEF Events
    <3> HIDE DEF u
    <3> QED
      BY <2>1, <2>2, <3>1, <3>2 DEF Links
  <2>8. CASE LibUnlinks
    <3> DEFINE u == Append(q, "STA_DISCONNECTED")
    <3>1. evQ' = u /\ lib' # "connected"
      BY <2>8 DEF LibUnlinks, q
    <3>2. /\ Followed(u, UpSet, DownSet) /\ In(u, DownSet)
          /\ Parted(q, UpSet, DownSet) => Parted(u, UpSet, DownSet)
          /\ Preceded(q, UpSet, DownSet) => Preceded(u, UpSet, DownSet)
      BY <1>1, <2>5 DEF Events
    <3> HIDE DEF u
    <3> QED
      BY <2>1, <2>2, <3>1, <3>2 DEF Links
  <2>9. CASE LibStops
    <3> DEFINE v == IF Linking THEN Append(q, "STA_DISCONNECTED") ELSE q
               u == Append(v, "STA_STOP")
    <3>1. evQ' = u /\ lib' = "stopped"
      BY <2>9 DEF LibStops, q
    <3>2. /\ v \in Seq(Events)
          /\ Parted(v, UpSet, DownSet)
          /\ LinkSeen => Preceded(v, UpSet, DownSet) /\ In(v, DownSet)
          /\ Followed(v, UpSet, DownSet)
      <4>1. CASE Linking
        <5> DEFINE w == Append(q, "STA_DISCONNECTED")
        <5>1. v = w /\ w \in Seq(Events)
          BY <1>1, <4>1 DEF Events
        <5>2. /\ Followed(w, UpSet, DownSet) /\ In(w, DownSet)
              /\ Parted(q, UpSet, DownSet) => Parted(w, UpSet, DownSet)
              /\ Preceded(q, UpSet, DownSet) => Preceded(w, UpSet, DownSet)
          BY <1>1, <2>5 DEF Events
        <5> HIDE DEF v, w
        <5> QED
          BY <2>2, <5>1, <5>2
      <4>2. CASE ~Linking
        <5>1. v = q /\ lib # "connected"
          BY <4>2 DEF Linking
        <5> HIDE DEF v
        <5> QED
          BY <1>1, <2>2, <5>1
      <4> QED
        BY <4>1, <4>2
    <3> HIDE DEF v
    <3>3. /\ Parted(v, UpSet, DownSet) => Parted(u, UpSet, DownSet)
          /\ Preceded(v, UpSet, DownSet) => Preceded(u, UpSet, DownSet)
          /\ Followed(v, UpSet, DownSet) => Followed(u, UpSet, DownSet)
          /\ In(u, DownSet) <=> In(v, DownSet)
      BY <2>5, <3>2 DEF Events
    <3> HIDE DEF u
    <3>4. lib' # "connected"
      BY <3>1
    <3> QED
      BY <2>1, <3>1, <3>2, <3>3, <3>4 DEF Links
  <2> QED
    BY <1>3, <2>3, <2>4, <2>6, <2>7, <2>8, <2>9, LibraryCases, EventLibrary DEF EventTask, TakesFrom
<1> QED
  BY <1>2, <1>3

\* Packets pass while a link is seen and until the handler of its loss closes the
\* data path.
Data ==
    /\ stationConnected =>
         rxcb /\ ~Handling("STA_CONNECTED") /\ ~Handling("STA_DISCONNECTED")
    /\ rxcb => \/ stationConnected
               \/ evPc \in {"lost", "apply", "clear", "close"} /\ ev = "STA_DISCONNECTED"

LEMMA DataKept ==
  ASSUME StationTyped, EventOK, Links, Data, [Next]_vars
  PROVE  Data'
<1>1. CASE TakesFrom
  <2>1. /\ rxcb' = rxcb /\ evPc = "idle" /\ evQ # << >>
        /\ (stationConnected <=> rxcb)
    <3>1. rxcb' = rxcb
      BY <1>1, TakesEvent DEF TakesFrom, TakeConnected, TakeDisconnected, TakeStart, TakeStop
    <3>2. evPc = "idle" /\ evQ # << >>
      BY <1>1, TakeCases
    <3> QED
      BY <3>1, <3>2 DEF Data
  <2>2. CASE TakeDisconnected
    <3>1. EventTake("STA_DISCONNECTED", "lost") /\ stationConnected' = FALSE
      BY <2>2 DEF TakeDisconnected
    <3>2. evPc' = "lost" /\ ev' = "STA_DISCONNECTED"
      BY <3>1, TakesEvent
    <3> QED
      BY <3>1, <3>2 DEF Data
  <2>3. CASE TakeConnected
    <3>1. Head(evQ) = "STA_CONNECTED" /\ stationConnected' = stationConnected
      BY <2>3, TakesEvent DEF TakeConnected, link
    <3>2. Head(evQ) \in UpSet
      BY <3>1 DEF UpSet
    <3>3. evQ \in Seq(Events)
      BY DEF StationTyped
    <3>4. ~Preceded(evQ, UpSet, DownSet)
      BY <2>1, <3>2, <3>3, PrecededTail
    <3>5. ~stationConnected
      BY <3>4 DEF Links, LinkSeen
    <3> QED
      BY <2>1, <3>1, <3>5 DEF Data
  <2>4. CASE TakeStart \/ TakeStop
    <3>1. stationConnected' = stationConnected
      BY <2>4 DEF TakeStart, TakeStop, link
    <3>2. evPc' = "idle" \/ ev' \in {"STA_START", "STA_STOP"}
      <4>1. CASE TakeStart
        <5>1. EventTake("STA_START", IF stationConnecting THEN "idle" ELSE "connect")
          BY <4>1 DEF TakeStart
        <5>2. CASE stationConnecting
          <6>1. EventTake("STA_START", "idle")
            BY <5>1, <5>2
          <6> QED
            BY <6>1, TakesEvent
        <5>3. CASE ~stationConnecting
          <6>1. EventTake("STA_START", "connect")
            BY <5>1, <5>3
          <6>2. ev' = "STA_START"
            BY <6>1, TakesEvent
          <6> QED
            BY <6>2
        <5> QED
          BY <5>2, <5>3
      <4>2. CASE TakeStop
        <5>1. EventTake("STA_STOP", "send")
          BY <4>2 DEF TakeStop
        <5>2. ev' = "STA_STOP"
          BY <5>1, TakesEvent
        <5> QED
          BY <5>2
      <4> QED
        BY <2>4, <4>1, <4>2
    <3>3. ~Handling("STA_CONNECTED")' /\ ~Handling("STA_DISCONNECTED")'
      BY <3>2 DEF Handling
    <3> QED
      BY <2>1, <3>1, <3>3 DEF Data
  <2> QED
    BY <1>1, <2>2, <2>3, <2>4 DEF TakesFrom
<1>2. CASE OpenData
  BY <1>2 DEF OpenData, Goto, Data, Handling
<1>3. CASE CloseData
  <2>1. evPc = "close" /\ ev = "STA_DISCONNECTED"
    BY <1>3 DEF CloseData, EventStep, EventOK, EvOK
  <2>2. ~stationConnected
    BY <2>1 DEF Data, Handling
  <2>3. stationConnected' = stationConnected /\ rxcb' = FALSE
    BY <1>3 DEF CloseData, link
  <2> QED
    BY <2>2, <2>3 DEF Data
<1>4. CASE LostPending \/ StartConnect \/ ApplyPending \/ ClearPending \/ DropLink \/ SendEvent
  <2>1. stationConnected' = stationConnected /\ rxcb' = rxcb /\ evPc # "idle"
    BY <1>4 DEF LostPending, StartConnect, ApplyPending, ClearPending, DropLink, SendEvent,
       EventStep,
                station, link
  <2>2. evPc' = "idle" \/ ev' = ev
    BY <1>4 DEF LostPending, StartConnect, ApplyPending, ClearPending, DropLink, SendEvent, Goto
  <2>3. stationConnected => ~Handling("STA_CONNECTED")' /\ ~Handling("STA_DISCONNECTED")'
    BY <2>1, <2>2 DEF Data, Handling
  <2>4. evPc \in {"lost", "apply", "clear", "close"} /\ ev = "STA_DISCONNECTED" =>
          evPc' \in {"apply", "clear", "close"} /\ ev' = "STA_DISCONNECTED"
    BY <1>4 DEF LostPending, StartConnect, ApplyPending, ClearPending, DropLink, SendEvent,
       EventStep, Goto,
                AfterPending
  <2> QED
    BY <2>1, <2>3, <2>4 DEF Data
<1>5. CASE HostSide \/ RecvRequest \/ LinkUp \/ LinkDown \/ Pserial \/ UNCHANGED vars
  <2>1. UNCHANGED <<stationConnected, rxcb, evPc, ev>>
    BY <1>5, HostFrame, RecvFrame, LinkFrame, PserialFrame, StutterFrame
  <2> QED
    BY <2>1 DEF Data, Handling
<1> QED
  BY <1>1, <1>2, <1>3, <1>4, <1>5, NextParts DEF EventTask, TakesFrom

-----------------------------------------------------------------------------
(* Events on their way to the host: toHost and then reqQ.                   *)

Sent(e) == {Event(e)}
\* Each d on the way is followed by an e.
Ends(d, e) ==
    /\ Followed(reqQ, Sent(d), Sent(e))
    /\ In(reqQ, Sent(e)) \/ Followed(toHost, Sent(d), Sent(e))
Comes(e) == In(reqQ, Sent(e)) \/ In(toHost, Sent(e))

Sends(e) ==
    \/ StartEvent /\ e = "STA_START"
    \/ ConnectAck /\ e = "STA_CONNECTED"
    \/ SendEvent /\ e = ev

LEMMA SentMessage ==
  ASSUME NEW e \in Events
  PROVE  /\ Event(e) \in Sent(e) /\ Event(e) \in Messages
         /\ \A d \in Events : d # e => Event(d) \notin Sent(e)
         /\ \A m \in Requests \cup Responses : m \notin Sent(e)
<1>1. Event(e) \in EventMessages /\ Event(e) \in Messages
  BY EventMessage
<1>2. \A d \in Events : d # e => Event(d) # Event(e)
  BY EventsDiffer
<1>3. \A m \in Requests \cup Responses : m # Event(e)
  BY <1>1, KindsDiffer
<1> QED
  BY <1>1, <1>2, <1>3 DEF Sent

LEMMA StreamTypes ==
  ASSUME Typed
  PROVE  /\ reqQ \in Seq(Messages) /\ toHost \in Seq(Messages) /\ toSlave \in Seq(Messages)
         /\ All(toSlave, Requests) /\ All(reqQ, Requests \cup EventMessages)
         /\ All(toHost, Responses \cup EventMessages)
  BY TypedParts DEF Typed, QueuesTyped, MessagesOK

\* What is no event changes nothing.
LEMMA OtherAppended ==
  ASSUME NEW q \in Seq(Messages), NEW m \in Messages, m \in Requests \cup Responses,
         NEW d \in Events, NEW e \in Events
  PROVE  /\ In(Append(q, m), Sent(e)) <=> In(q, Sent(e))
         /\ Followed(q, Sent(d), Sent(e)) => Followed(Append(q, m), Sent(d), Sent(e))
<1>1. m \notin Sent(d) /\ m \notin Sent(e)
  BY SentMessage
<1>2. In(Append(q, m), Sent(e)) <=> In(q, Sent(e)) \/ m \in Sent(e)
  BY InAppend
<1>3. Followed(q, Sent(d), Sent(e)) => Followed(Append(q, m), Sent(d), Sent(e))
  BY <1>1, FollowedAppend
<1> QED
  BY <1>1, <1>2, <1>3

LEMMA AnswerAppended ==
  ASSUME Typed, Answering, NEW d \in Events, NEW e \in Events
  PROVE  /\ In(toHost, Sent(e)) => In(toHost', Sent(e))
         /\ Followed(toHost, Sent(d), Sent(e)) => Followed(toHost', Sent(d), Sent(e))
<1> DEFINE m == Response(rpc)
<1>1. m \in Responses
  BY CallersTypes, ResponseMessage DEF Answering
<1>2. m \in Messages /\ m \in Requests \cup Responses
  BY <1>1 DEF Responses
<1>3. toHost' = Append(toHost, m)
  BY DEF Answering
<1> HIDE DEF m
<1>4. toHost \in Seq(Messages)
  BY StreamTypes
<1> QED
  BY <1>2, <1>3, <1>4, OtherAppended

LEMMA StreamSends ==
  ASSUME Typed, NEW f \in Events, Sends(f)
  PROVE  /\ Putting(f) /\ reqQ' = Append(reqQ, Event(f))
         /\ toHost' = toHost \/ Answering
         /\ rpcPc = "startEvent" \/ rpcPc = "connectAck" \/ rpcPc' = rpcPc
<1>1. StartEvent \/ ConnectAck => Answering /\ rpcPc \in {"startEvent", "connectAck"}
  BY PuttingPserial
<1>2. SendEvent => toHost' = toHost /\ rpcPc' = rpcPc
  BY DEF SendEvent, EventStep, pserial
<1>3. Putting(f)
  BY PuttingPserial DEF Sends, SendEvent, EventStep, PutEvent, QueueHasRoom, Putting
<1> QED
  BY <1>1, <1>2, <1>3 DEF Sends, Putting

LEMMA StreamPut ==
  ASSUME Typed, NEW d \in Events, NEW e \in Events, d # e, NEW f \in Events, Sends(f)
  PROVE  /\ Comes(e) => Comes(e)'
         /\ Ends(d, e) /\ f # d => Ends(d, e)'
         /\ f = e => Ends(d, e)' /\ Comes(e)'
<1> DEFINE m == Event(f) q == reqQ u == Append(reqQ, m)
<1>1. /\ reqQ' = u /\ (toHost' = toHost \/ Answering)
  BY StreamSends
<1>2. q \in Seq(Messages)
  BY StreamTypes
<1>3. /\ m \in Messages /\ (f # d => m \notin Sent(d)) /\ (f = e => m \in Sent(e))
  BY SentMessage
<1> HIDE DEF m
<1>4. /\ In(u, Sent(e)) <=> In(q, Sent(e)) \/ m \in Sent(e)
      /\ m \notin Sent(d) /\ (Followed(q, Sent(d), Sent(e)) \/ m \in Sent(e)) =>
           Followed(u, Sent(d), Sent(e))
  BY <1>2, <1>3, InAppend, FollowedAppend
<1> HIDE DEF u, q
<1>5. /\ In(toHost, Sent(e)) => In(toHost', Sent(e))
      /\ Followed(toHost, Sent(d), Sent(e)) => Followed(toHost', Sent(d), Sent(e))
  BY <1>1, AnswerAppended
<1>6. Comes(e) => Comes(e)'
  BY <1>1, <1>4, <1>5 DEF Comes, q
<1>7. Ends(d, e) /\ f # d => Ends(d, e)'
  BY <1>1, <1>3, <1>4, <1>5 DEF Ends, q
<1>8. f = e => Ends(d, e)' /\ Comes(e)'
  BY <1>1, <1>3, <1>4 DEF Ends, Comes
<1> QED
  BY <1>6, <1>7, <1>8

LEMMA StreamMoves ==
  ASSUME Typed, PserialEvent, NEW d \in Events, NEW e \in Events, d # e
  PROVE  (Comes(e) => Comes(e)') /\ (Ends(d, e) => Ends(d, e)')
<1> DEFINE m == Head(reqQ) q == reqQ t == Tail(reqQ) h == toHost u == Append(toHost, m)
<1>1. q # << >> /\ reqQ' = t /\ toHost' = u
  BY DEF PserialEvent
<1>2. q \in Seq(Messages) /\ h \in Seq(Messages)
  BY StreamTypes
<1>3. m \in Messages
  BY <1>1, <1>2, TailElements
<1>4. ~(m \in Sent(d) /\ m \in Sent(e))
  BY EventsDiffer DEF Sent
<1>5. /\ In(q, Sent(e)) <=> m \in Sent(e) \/ In(t, Sent(e))
      /\ In(q, Sent(d)) <=> m \in Sent(d) \/ In(t, Sent(d))
      /\ Followed(q, Sent(d), Sent(e)) =>
           Followed(t, Sent(d), Sent(e)) /\ (m \in Sent(d) => In(t, Sent(e)))
  BY <1>1, <1>2, InTail, FollowedTail
<1> HIDE DEF m, t
<1>6. /\ In(u, Sent(e)) <=> In(h, Sent(e)) \/ m \in Sent(e)
      /\ m \notin Sent(d) /\ (Followed(h, Sent(d), Sent(e)) \/ m \in Sent(e)) =>
           Followed(u, Sent(d), Sent(e))
  BY <1>2, <1>3, InAppend, FollowedAppend
<1> HIDE DEF q, h, u
<1>7. Comes(e) => Comes(e)'
  BY <1>1, <1>5, <1>6 DEF Comes, q, h
<1>8. Ends(d, e) => Ends(d, e)'
  BY <1>1, <1>4, <1>5, <1>6 DEF Ends, q, h
<1> QED
  BY <1>7, <1>8

\* Steps of the co-processor that send nothing.
LEMMA StreamKept ==
  ASSUME Typed, [Next]_vars, ~HostSide, NEW d \in Events, NEW e \in Events, d # e, ~Sends(d)
  PROVE  (Comes(e) => Comes(e)') /\ (Ends(d, e) => Ends(d, e)')
<1>1. /\ reqQ \in Seq(Messages) /\ toHost \in Seq(Messages) /\ toSlave \in Seq(Messages)
      /\ All(toSlave, Requests) /\ All(reqQ, Requests \cup EventMessages)
  BY StreamTypes
<1>2. CASE RecvRequest
  <2> DEFINE m == Head(toSlave)
  <2>1. toSlave # << >> /\ reqQ' = Append(reqQ, m) /\ toHost' = toHost
    BY <1>2, RecvFrame DEF RecvRequest
  <2>2. m \in Requests /\ m \in Messages
    BY <1>1, <2>1, HeadMessage
  <2> HIDE DEF m
  <2>3. /\ In(reqQ', Sent(e)) <=> In(reqQ, Sent(e))
        /\ Followed(reqQ, Sent(d), Sent(e)) => Followed(reqQ', Sent(d), Sent(e))
    BY <1>1, <2>1, <2>2, OtherAppended
  <2> QED
    BY <2>1, <2>3 DEF Comes, Ends
<1>3. CASE PserialRequest
  <2> DEFINE m == Head(reqQ) t == Tail(reqQ)
  <2>1. reqQ # << >> /\ reqQ' = t /\ toHost' = toHost /\ m.kind = "req"
    BY <1>3 DEF PserialRequest
  <2>2. m \in Requests \cup EventMessages
    BY <1>1, <2>1, HeadMessage
  <2> HIDE DEF m
  <2>3. m \in Requests
    BY <2>1, <2>2, EventKind
  <2>4. m \notin Sent(e)
    BY <2>3, SentMessage
  <2>5. /\ In(reqQ, Sent(e)) <=> m \in Sent(e) \/ In(t, Sent(e))
        /\ Followed(reqQ, Sent(d), Sent(e)) => Followed(t, Sent(d), Sent(e))
    BY <1>1, <2>1, InTail, FollowedTail DEF m
  <2> HIDE DEF t
  <2> QED
    BY <2>1, <2>4, <2>5 DEF Comes, Ends
<1>4. CASE PserialEvent
  BY <1>4, StreamMoves
<1>5. CASE reqQ' = reqQ /\ toHost' = toHost
  BY <1>5 DEF Comes, Ends
<1>6. CASE reqQ' = reqQ /\ Answering
  <2>1. /\ In(toHost, Sent(e)) => In(toHost', Sent(e))
        /\ Followed(toHost, Sent(d), Sent(e)) => Followed(toHost', Sent(d), Sent(e))
    BY <1>6, AnswerAppended
  <2> QED
    BY <1>6, <2>1 DEF Comes, Ends
<1>7. ASSUME NEW f \in Events, Sends(f)
      PROVE  (Comes(e) => Comes(e)') /\ (Ends(d, e) => Ends(d, e)')
  <2>1. f # d
    BY <1>7
  <2> QED
    BY <1>7, <2>1, StreamPut
<1>8. CASE Pserial
  <2>1. "STA_START" \in Events /\ "STA_CONNECTED" \in Events
    BY DEF Events
  <2>2. CASE StartEvent \/ ConnectAck
    BY <1>7, <2>1, <2>2 DEF Sends
  <2>3. CASE Continuing /\ reqQ' = reqQ
    BY <1>5, <2>3 DEF Continuing
  <2> QED
    BY <1>3, <1>4, <1>6, <1>8, <2>2, <2>3, PserialCases
<1>9. CASE EventTask
  <2>1. CASE SendEvent
    <3>1. ev \in Events
      BY TypedParts DEF Typed, EventTyped
    <3> QED
      BY <1>7, <2>1, <3>1 DEF Sends
  <2>2. CASE ~SendEvent
    BY <1>5, <1>9, <2>2, EventQueue, EventFrame
  <2> QED
    BY <2>1, <2>2
<1>10. CASE LinkUp \/ LinkDown \/ UNCHANGED vars
  BY <1>5, <1>10, LinkFrame, StutterFrame
<1> QED
  BY <1>2, <1>8, <1>9, <1>10, NextParts

\* The host takes the first message.
LEMMA StreamTaken ==
  ASSUME Typed, HostReceive, NEW d \in Events, NEW e \in Events, d # e
  PROVE  /\ Ends(d, e) => Ends(d, e)'
         /\ Comes(e) /\ Head(toHost) # Event(e) => Comes(e)'
         /\ Ends(d, e) /\ Head(toHost) = Event(d) => Comes(e)'
<1> DEFINE m == Head(toHost) h == toHost t == Tail(toHost)
<1>1. h # << >> /\ toHost' = t /\ reqQ' = reqQ
  BY HostTaken, HostFrame DEF HostSide
<1>2. h \in Seq(Messages)
  BY StreamTypes
<1>3. /\ In(h, Sent(e)) <=> m \in Sent(e) \/ In(t, Sent(e))
      /\ Followed(h, Sent(d), Sent(e)) =>
           Followed(t, Sent(d), Sent(e)) /\ (m \in Sent(d) => In(t, Sent(e)))
  BY <1>1, <1>2, InTail, FollowedTail
<1>4. (m \in Sent(d) <=> m = Event(d)) /\ (m \in Sent(e) <=> m = Event(e))
  BY DEF Sent
<1>5. Ends(d, e) => Ends(d, e)'
  <2> HIDE DEF t, h, m
  <2> QED
    BY <1>1, <1>3 DEF Ends, h
<1>6. Comes(e) /\ m # Event(e) => Comes(e)'
  <2> HIDE DEF t, h, m
  <2> QED
    BY <1>1, <1>3, <1>4 DEF Comes, h
<1>7. Ends(d, e) /\ m = Event(d) => Comes(e)'
  <2> HIDE DEF t, h, m
  <2> QED
    BY <1>1, <1>3, <1>4 DEF Ends, Comes, h
<1> QED
  BY <1>5, <1>6, <1>7

-----------------------------------------------------------------------------
(* A host that has started the station knows of its start, or will.         *)

Stops == {m \in Requests : m.what = "stop"}
StartAnswers(r) == {m \in Responses : m.what = "start" /\ m.from = r}

WillStart ==
    \/ In(evQ, StartSet) \/ Handling("STA_START")
    \/ Ends("STA_STOP", "STA_START") /\ (Comes("STA_START") \/ netifStarted)
Stopping == rpcPc = "stop" \/ In(reqQ, Stops) \/ In(toSlave, Stops)
Wants == hostStarted \/ In(toHost, StartAnswers(restarts))
Wanted == Wants => WillStart /\ lib # "stopped" /\ ~Stopping

LEMMA StartStopEvents ==
  /\ "STA_START" \in Events /\ "STA_STOP" \in Events /\ "STA_START" # "STA_STOP"
  /\ "STA_CONNECTED" \in Events /\ "STA_DISCONNECTED" \in Events
  BY DEF Events

LEMMA NobodyStops ==
  ASSUME NEW q \in Seq(Messages), All(q, Requests \cup EventMessages), Nobody(q)
  PROVE  ~In(q, Stops)
<1>1. \A i \in 1..Len(q) : q[i] \in Requests \cup EventMessages /\ q[i].from = NoCaller
  BY DEF All, Nobody, Of
<1>2. \A m \in Stops : m.from # NoCaller /\ m \in Requests
  BY DEF Stops, Requests
<1> QED
  BY <1>1, <1>2 DEF In

LEMMA AnswersAsk ==
  ASSUME NEW q, NEW r, In(q, StartAnswers(r))
  PROVE  Asks(q, r)
<1>1. StartAnswers(r) \subseteq Of(r)
  BY DEF StartAnswers, Of, Responses
<1> QED
  BY <1>1 DEF Asks, In

\* Stopping begins with a call of the application.
LEMMA StoppingKept ==
  ASSUME Typed, [Next]_vars, ~AppCalls
  PROVE  Stopping' => Stopping
<1>1. /\ reqQ \in Seq(Messages) /\ toHost \in Seq(Messages) /\ toSlave \in Seq(Messages)
      /\ All(toSlave, Requests) /\ All(reqQ, Requests \cup EventMessages)
  BY StreamTypes
<1>2. CASE HostRestart \/ HostReceive
  <2>1. reqQ' = reqQ /\ rpcPc' = rpcPc
    BY <1>2, HostFrame DEF HostSide
  <2>2. toSlave' \in {toSlave, Append(toSlave, ConnectRequest(NoCaller))}
    BY <1>2, HostTaken DEF HostRestart
  <2> DEFINE c == ConnectRequest(NoCaller)
  <2>3. c \in Messages /\ c \notin Stops
    BY ConnectMessage DEF Stops, Requests
  <2> HIDE DEF c
  <2>4. In(Append(toSlave, c), Stops) <=> In(toSlave, Stops)
    BY <1>1, <2>3, InAppend
  <2>5. In(toSlave', Stops) => In(toSlave, Stops)
    BY <2>2, <2>4 DEF c
  <2> QED
    BY <2>1, <2>5 DEF Stopping
<1>3. CASE RecvRequest
  <2> DEFINE m == Head(toSlave) t == Tail(toSlave)
  <2>1. toSlave # << >> /\ toSlave' = t /\ reqQ' = Append(reqQ, m) /\ rpcPc' = rpcPc
    BY <1>3, RecvFrame DEF RecvRequest
  <2>2. m \in Messages
    BY <1>1, <2>1, TailElements
  <2>3. In(toSlave, Stops) <=> m \in Stops \/ In(t, Stops)
    BY <1>1, <2>1, InTail
  <2> HIDE DEF m, t
  <2>4. In(reqQ', Stops) <=> In(reqQ, Stops) \/ m \in Stops
    BY <1>1, <2>1, <2>2, InAppend
  <2> QED
    BY <2>1, <2>3, <2>4 DEF Stopping
<1>4. CASE PserialEvent \/ PserialRequest
  <2> DEFINE m == Head(reqQ) t == Tail(reqQ)
  <2>1. reqQ # << >> /\ reqQ' = t /\ rpcPc = "idle" /\ toSlave' = toSlave
    BY <1>4 DEF PserialEvent, PserialRequest
  <2>2. m \in Requests \cup EventMessages
    BY <1>1, <2>1, HeadMessage
  <2>3. In(reqQ, Stops) <=> m \in Stops \/ In(t, Stops)
    BY <1>1, <2>1, InTail
  <2>4. rpcPc' = "stop" => m \in Stops
    <3>1. rpcPc' = "stop" => PserialRequest
      BY <1>4, <2>1 DEF PserialEvent, pserial
    <3>2. PserialRequest => m.kind = "req" /\ rpcPc' = m.what
      BY DEF PserialRequest
    <3>3. PserialRequest => m \in Requests
      BY <2>2, <3>2, EventKind
    <3> QED
      BY <3>1, <3>2, <3>3 DEF Stops
  <2> HIDE DEF m, t
  <2> QED
    BY <2>1, <2>3, <2>4 DEF Stopping
<1>5. ASSUME reqQ' = reqQ \/ \E e \in Events : reqQ' = Append(reqQ, Event(e))
      PROVE  In(reqQ', Stops) => In(reqQ, Stops)
  <2>1. CASE reqQ' = reqQ
    BY <2>1
  <2>2. CASE \E e \in Events : reqQ' = Append(reqQ, Event(e))
    <3>1. PICK e \in Events : reqQ' = Append(reqQ, Event(e))
      BY <2>2
    <3> DEFINE m == Event(e)
    <3>2. m \in Messages /\ m \notin Stops
      BY EventMessage DEF Stops, Requests
    <3>3. reqQ' = Append(reqQ, m)
      BY <3>1
    <3> HIDE DEF m
    <3> QED
      BY <1>1, <3>2, <3>3, InAppend
  <2> QED
    BY <1>5, <2>1, <2>2
<1>6. CASE Pserial /\ ~PserialEvent /\ ~PserialRequest
  <2>1. toSlave' = toSlave
    BY <1>6, PserialFrame
  <2>2. rpcPc' # "stop"
    BY <1>6, PserialCases, PuttingPserial DEF Answering, Continuing
  <2>3. reqQ' = reqQ \/ \E e \in Events : reqQ' = Append(reqQ, Event(e))
    BY <1>6, PserialCases, PuttingPserial, StartStopEvents DEF Putting
  <2> QED
    BY <1>5, <2>1, <2>2, <2>3 DEF Stopping
<1>7. CASE EventTask
  <2>1. toSlave' = toSlave /\ rpcPc' = rpcPc
    BY <1>7, EventFrame
  <2>2. ev \in Events
    BY TypedParts DEF Typed, EventTyped
  <2>3. reqQ' = reqQ \/ \E e \in Events : reqQ' = Append(reqQ, Event(e))
    BY <1>7, <2>2, EventQueue DEF Putting
  <2> QED
    BY <1>5, <2>1, <2>3 DEF Stopping
<1>8. CASE LinkUp \/ LinkDown \/ UNCHANGED vars
  <2>1. UNCHANGED <<toSlave, reqQ, rpcPc>>
    BY <1>8, LinkFrame, StutterFrame
  <2> QED
    BY <2>1 DEF Stopping
<1> QED
  BY <1>2, <1>3, <1>4, <1>6, <1>7, <1>8, NextParts DEF HostSide

\* The host takes a message: what it knows of the start.
LEMMA WillStartTaken ==
  ASSUME Typed, HostOK, HostReceive, WillStart
  PROVE  WillStart'
<1>1. evQ' = evQ /\ evPc' = evPc /\ ev' = ev
  BY HostFrame DEF HostSide
<1>2. CASE In(evQ, StartSet) \/ Handling("STA_START")
  BY <1>1, <1>2 DEF WillStart, Handling
<1>3. CASE Ends("STA_STOP", "STA_START") /\ (Comes("STA_START") \/ netifStarted)
  <2>1. Ends("STA_STOP", "STA_START")'
    BY <1>3, StreamTaken, StartStopEvents
  <2>2. CASE OnStart
    <3>1. ~netifStarted => view # "connected"
      BY DEF HostOK
    <3>2. netifStarted' = TRUE
      BY <2>2, <3>1 DEF OnStart, HostTyped, Typed, TypeOK
    <3> QED
      BY <2>1, <3>2 DEF WillStart
  <2>3. CASE OnStop
    <3>1. Head(toHost).kind = "evt" /\ Head(toHost).what = "STA_STOP"
      BY <2>3 DEF OnStop, HostTake
    <3>2. Head(toHost) \in Responses \cup EventMessages
      BY <2>3, StreamTypes, HeadMessage DEF OnStop, HostTake
    <3>3. Head(toHost) = Event("STA_STOP")
      BY <3>1, <3>2, EventKind DEF Responses
    <3>4. Comes("STA_START")'
      BY <1>3, <3>3, StreamTaken, StartStopEvents
    <3> QED
      BY <2>1, <3>4 DEF WillStart
  <2>4. CASE HostResponse \/ OnConnected \/ OnDisconnected
    <3>1. Head(toHost).what # "STA_START" /\ netifStarted' = netifStarted
      BY <2>4 DEF HostResponse, OnConnected, OnDisconnected, HostTake, Ops
    <3>2. Head(toHost) # Event("STA_START")
      BY <3>1, EventMessage, StartStopEvents
    <3>3. Comes("STA_START") => Comes("STA_START")'
      BY <3>2, StreamTaken, StartStopEvents
    <3> QED
      BY <1>3, <2>1, <3>1, <3>3 DEF WillStart
  <2> QED
    BY <2>2, <2>3, <2>4 DEF HostReceive
<1> QED
  BY <1>2, <1>3 DEF WillStart

\* The host wants the station from the moment its start is answered.
LEMMA WantsKept ==
  ASSUME Typed, Callers, [Next]_vars, Wants'
  PROVE  Wants \/ (StartEvent /\ Serving(restarts))
<1> DEFINE S == StartAnswers(restarts)
<1>1. toHost \in Seq(Messages)
  BY StreamTypes
<1>2. CASE AppCalls
  BY <1>2 DEF AppCalls, AppCall, Wants
<1>3. CASE HostRestart
  <2>1. hostStarted' = FALSE /\ toHost' = << >>
    BY <1>3 DEF HostRestart
  <2>2. ~In(<< >>, StartAnswers(restarts'))
    BY NothingIn
  <2> QED
    BY <2>1, <2>2 DEF Wants
<1>4. CASE HostReceive
  <2> DEFINE m == Head(toHost) t == Tail(toHost)
  <2>1. toHost # << >> /\ toHost' = t /\ restarts' = restarts
    BY <1>4, HostTaken
  <2>2. In(toHost, S) <=> m \in S \/ In(t, S)
    BY <1>1, <2>1, InTail
  <2>3. hostStarted' => hostStarted \/ m \in S
    <3>1. CASE HostResponse
      <4>1. PICK op \in Ops : /\ HostTake("rsp", op)
                              /\ IF Head(toHost).from = restarts
                                 THEN app' = "idle" /\ hostStarted' = (hostStarted \/ op = "start")
                                 ELSE UNCHANGED <<app, hostStarted>>
        BY <3>1 DEF HostResponse
      <4>2. m \in Responses \cup EventMessages
        BY <1>1, <2>1, StreamTypes, HeadMessage
      <4>3. m.kind = "rsp" /\ m.what = op
        BY <4>1 DEF HostTake
      <4>4. m \in Responses
        BY <4>2, <4>3, EventKind
      <4> HIDE DEF m
      <4>5. hostStarted' => hostStarted \/ (op = "start" /\ m.from = restarts)
        BY <4>1 DEF m
      <4> QED
        BY <4>3, <4>4, <4>5 DEF StartAnswers
    <3>2. CASE OnStart \/ OnStop \/ OnConnected \/ OnDisconnected
      BY <3>2 DEF OnStart, OnStop, OnConnected, OnDisconnected
    <3> QED
      BY <1>4, <3>1, <3>2 DEF HostReceive
  <2> HIDE DEF m, t
  <2>4. In(t, S) => In(toHost, S)
    BY <2>2
  <2> QED
    BY <2>1, <2>2, <2>3 DEF Wants
<1>5. CASE Answering /\ Pserial
  <2> DEFINE m == Response(rpc)
  <2>1. toHost' = Append(toHost, m) /\ rpcPc # "idle"
    BY <1>5 DEF Answering
  <2>2. rpc \in Requests /\ rpc.what \in Ops /\ rpcPc \in Statements[rpc.what]
    BY <2>1 DEF Typed, RpcOK, Requests
  <2>3. m \in Messages /\ m.what = rpc.what /\ m.from = rpc.from
    BY <2>2, ResponseMessage DEF Responses
  <2> HIDE DEF m
  <2>4. In(toHost', S) <=> In(toHost, S) \/ m \in S
    BY <1>1, <2>1, <2>3, InAppend
  <2>5. restarts' = restarts /\ hostStarted' = hostStarted
    BY <1>5, PserialFrame
  <2>6. m \in S => StartEvent /\ Serving(restarts)
    <3> SUFFICES ASSUME m \in S PROVE StartEvent /\ Serving(restarts)
      OBVIOUS
    <3>1. rpc.what = "start" /\ rpc.from = restarts
      BY <2>3 DEF StartAnswers
    <3>2. rpcPc \in {"start", "startEvent"}
      BY <2>2, <3>1 DEF Statements
    <3>3. StartEvent
      <4>1. rpcPc' = "idle"
        BY <1>5 DEF Answering
      <4>2. ~StartLib
        BY <4>1 DEF StartLib, Continue
      <4>3. CASE PserialEvent \/ PserialRequest
        BY <2>1, <4>3 DEF PserialEvent, PserialRequest
      <4>4. CASE \/ StopLib \/ DisconnectLib \/ ConnectCheck \/ ConnectLib
                \/ ConnectAck \/ ConfigCheck \/ ConfigProvision \/ ConfigFlag
                \/ ConfigCopy \/ ConfigSame
        BY <3>2, <4>4 DEF StopLib, DisconnectLib, ConnectCheck, ConnectLib, ConnectAck,
                          ConfigCheck, ConfigProvision, ConfigFlag, ConfigCopy, ConfigSame
      <4> QED
        BY <1>5, <4>2, <4>3, <4>4 DEF Pserial
    <3> QED
      BY <2>1, <3>1, <3>3 DEF Serving
  <2> QED
    BY <2>4, <2>5, <2>6 DEF Wants
<1>6. CASE PserialEvent
  <2> DEFINE m == Head(reqQ)
  <2>1. /\ reqQ # << >> /\ toHost' = Append(toHost, m) /\ m.kind = "evt"
        /\ restarts' = restarts /\ hostStarted' = hostStarted
    BY <1>6, PserialFrame DEF PserialEvent, Pserial
  <2>2. m \in Messages
    BY <2>1, StreamTypes, TailElements
  <2>3. m \notin S
    BY <2>1 DEF StartAnswers, Responses
  <2> HIDE DEF m
  <2>4. In(toHost', S) <=> In(toHost, S)
    BY <1>1, <2>1, <2>2, <2>3, InAppend
  <2> QED
    BY <2>1, <2>4 DEF Wants
<1>7. CASE RecvRequest \/ LinkUp \/ LinkDown \/ EventTask \/ UNCHANGED vars
  <2>1. UNCHANGED <<toHost, restarts, hostStarted>>
    BY <1>7, RecvFrame, LinkFrame, EventFrame, StutterFrame
  <2> QED
    BY <2>1 DEF Wants
<1>8. CASE Pserial /\ (PserialRequest \/ Continuing)
  <2>1. toHost' = toHost
    BY <1>8 DEF PserialRequest, Continuing
  <2>2. restarts' = restarts /\ hostStarted' = hostStarted
    BY <1>8, PserialFrame
  <2> QED
    BY <2>1, <2>2 DEF Wants
<1> QED
  BY <1>2, <1>3, <1>4, <1>5, <1>6, <1>7, <1>8, NextParts, PserialCases, PuttingPserial DEF HostSide

\* The library starts or goes on, and the co-processor takes its events.
LEMMA WillStartKept ==
  ASSUME Typed, Starts, WillStart, lib # "stopped", [Next]_vars, ~HostSide
  PROVE  WillStart'
<1> DEFINE q == evQ
<1>1. q \in Seq(Events)
  BY TypedParts DEF Typed, StationTyped
<1>2. netifStarted' = netifStarted
  BY NextParts, RecvFrame, LinkFrame, PserialFrame, EventFrame, StutterFrame
<1>3. CASE TakesFrom
  <2>1. q # << >> /\ evQ' = Tail(q) /\ evPc = "idle"
    BY <1>3, TakeCases
  <2>2. In(q, StartSet) <=> Head(q) \in StartSet \/ In(Tail(q), StartSet)
    BY <1>1, <2>1, InTail
  <2>3. Head(q) \in StartSet => Handling("STA_START")'
    <3> SUFFICES ASSUME Head(q) = "STA_START" PROVE evPc' # "idle" /\ ev' = "STA_START"
      BY DEF StartSet, Handling
    <3>1. Head(q) \in StartSet
      BY DEF StartSet
    <3>2. ~Preceded(q, StartSet, StopSet)
      BY <1>1, <2>1, <3>1, PrecededTail
    <3>3. ~stationConnecting
      BY <3>2 DEF Starts
    <3> QED
      BY <1>3, <3>3, TakeCases
  <2>4. CASE In(q, StartSet)
    BY <2>1, <2>2, <2>3, <2>4 DEF WillStart
  <2>5. CASE Ends("STA_STOP", "STA_START") /\ (Comes("STA_START") \/ netifStarted)
    <3>1. ~Sends("STA_STOP")
      BY <2>1 DEF Sends, SendEvent, EventStep
    <3>2. Ends("STA_STOP", "STA_START")' /\ (Comes("STA_START") => Comes("STA_START")')
      BY <2>5, <3>1, StreamKept, StartStopEvents
    <3> QED
      BY <1>2, <2>5, <3>2 DEF WillStart
  <2> QED
    BY <2>1, <2>4, <2>5 DEF WillStart, Handling
<1>4. ASSUME ~TakesFrom PROVE In(q, StartSet) => In(evQ', StartSet)
  <2>1. \A x \in Events :
          In(q, StartSet) => In(Append(q, x), StartSet) /\ Append(q, x) \in Seq(Events)
    BY <1>1, InAppend
  <2>2. LibStops => \E v \in {q, Append(q, "STA_DISCONNECTED")} : evQ' = Append(v, "STA_STOP")
    BY DEF LibStops
  <2>3. LibStops => (In(q, StartSet) => In(evQ', StartSet))
    <3> SUFFICES ASSUME LibStops, In(q, StartSet) PROVE In(evQ', StartSet)
      OBVIOUS
    <3>1. PICK v \in {q, Append(q, "STA_DISCONNECTED")} : evQ' = Append(v, "STA_STOP")
      BY <2>2
    <3>2. v \in Seq(Events) /\ In(v, StartSet)
      BY <1>1, <2>1, StartStopEvents
    <3> QED
      BY <3>1, <3>2, InAppend, StartStopEvents
  <2>4. ~LibStops => evQ' = q \/ \E x \in Events : evQ' = Append(q, x)
    <3>1. LibSame \/ LibConnects => evQ' = q
      BY DEF LibSame, LibConnects
    <3>2. LibStarts \/ LibUnlinks \/ LibLinks => \E x \in Events : evQ' = Append(q, x)
      BY StartStopEvents DEF LibStarts, LibUnlinks, LibLinks
    <3>3. StationTyped
      BY TypedParts DEF Typed
    <3> QED
      BY <1>4, <3>1, <3>2, <3>3, LibraryCases, EventLibrary DEF EventTask, TakesFrom
  <2> QED
    BY <2>1, <2>3, <2>4
<1>5. CASE ~TakesFrom /\ SendEvent
  <2>1. evPc = "send" /\ ev \in Events /\ Sends(ev)
    BY <1>5, TypedParts DEF SendEvent, EventStep, Typed, EventTyped, Sends
  <2>2. CASE ev = "STA_START"
    BY <2>1, <2>2, StreamPut, StartStopEvents DEF WillStart
  <2>3. CASE ev = "STA_STOP"
    <3>1. In(q, StartSet)
      BY <2>1, <2>3 DEF Starts, Handling
    <3> QED
      BY <1>4, <1>5, <3>1 DEF WillStart
  <2>4. CASE ev # "STA_START" /\ ev # "STA_STOP"
    <3>1. ~Handling("STA_START")
      BY <2>4 DEF Handling
    <3>2. /\ Comes("STA_START") => Comes("STA_START")'
          /\ Ends("STA_STOP", "STA_START") => Ends("STA_STOP", "STA_START")'
      BY <2>1, <2>4, StreamPut, StartStopEvents
    <3> QED
      BY <1>2, <1>4, <1>5, <3>1, <3>2 DEF WillStart
  <2> QED
    BY <2>2, <2>3, <2>4
<1>6. CASE ~TakesFrom /\ ~SendEvent
  <2>1. ~Sends("STA_STOP")
    BY <1>6 DEF Sends
  <2>2. /\ Comes("STA_START") => Comes("STA_START")'
        /\ Ends("STA_STOP", "STA_START") => Ends("STA_STOP", "STA_START")'
    BY <2>1, StreamKept, StartStopEvents
  <2>3. Handling("STA_START") => Handling("STA_START")'
    <3> SUFFICES ASSUME evPc # "idle", ev = "STA_START" PROVE evPc' # "idle" /\ ev' = "STA_START"
      BY DEF Handling
    <3>1. CASE EventTask
      <4>1. EvOK
        BY DEF Typed
      <4>2. CASE StartConnect
        BY <4>2 DEF StartConnect, Goto
      <4>3. /\ ~LostPending /\ ~ApplyPending /\ ~ClearPending
            /\ ~DropLink /\ ~CloseData /\ ~OpenData
        BY <4>1 DEF EvOK, LostPending, ApplyPending, ClearPending, DropLink, CloseData, OpenData,
                    EventStep
      <4> QED
        BY <1>6, <3>1, <4>2, <4>3 DEF EventTask, TakesFrom
    <3>2. CASE ~EventTask
      BY <3>2, NextParts, HostFrame, RecvFrame, LinkFrame, PserialFrame, StutterFrame
    <3> QED
      BY <3>1, <3>2
  <2> QED
    BY <1>2, <1>4, <1>6, <2>2, <2>3 DEF WillStart
<1> QED
  BY <1>3, <1>5, <1>6

LEMMA WantedKept ==
  ASSUME Typed, HostOK, Callers, Starts, StartRuns, Wanted, [Next]_vars
  PROVE  Wanted'
<1> SUFFICES ASSUME Wants' PROVE WillStart' /\ lib' # "stopped" /\ ~Stopping'
  BY DEF Wanted
<1>1. CASE StartEvent /\ Serving(restarts)
  <2>1. Sends("STA_START")
    BY <1>1 DEF Sends
  <2>2. Ends("STA_STOP", "STA_START")' /\ Comes("STA_START")'
    BY <2>1, StreamPut, StartStopEvents
  <2>3. lib' = lib /\ lib # "stopped"
    BY <1>1 DEF StartEvent, StartRuns, library
  <2>4. ~Stopping
    <3>1. Nobody(reqQ) /\ Nobody(toSlave)
      BY <1>1 DEF Callers
    <3>2. \A s : All(s, Requests) => All(s, Requests \cup EventMessages)
      BY DEF All
    <3>3. ~In(reqQ, Stops) /\ ~In(toSlave, Stops)
      BY <3>1, <3>2, NobodyStops, StreamTypes
    <3>4. rpcPc # "stop"
      BY <1>1 DEF StartEvent
    <3> QED
      BY <3>3, <3>4 DEF Stopping
  <2>5. ~AppCalls
    BY <1>1 DEF StartEvent, Respond, AppCalls, AppCall, pserial
  <2>6. ~Stopping'
    BY <2>4, <2>5, StoppingKept
  <2> QED
    BY <2>2, <2>3, <2>6 DEF WillStart
<1>2. CASE Wants
  <2>1. WillStart /\ lib # "stopped" /\ ~Stopping
    BY <1>2 DEF Wanted
  <2>2. CASE AppCalls
    <3>1. PICK op \in Ops, cfg \in Configs \cup {NoConfig} : AppCall(op, cfg)
      BY <2>2 DEF AppCalls
    <3>2. /\ app = "idle" /\ toHost' = toHost /\ restarts' = restarts
          /\ hostStarted' = (hostStarted /\ op # "stop") /\ netifStarted' = netifStarted
          /\ toSlave' = Append(toSlave, Message("req", op, cfg, restarts))
      BY <3>1 DEF AppCall
    <3>3. UNCHANGED <<reqQ, rpcPc, evPc, ev, lib, evQ>>
      BY <2>2, HostFrame DEF HostSide
    <3>4. ~In(toHost, StartAnswers(restarts))
      <4>1. ~Asks(toHost, restarts)
        BY <3>2 DEF Callers
      <4> QED
        BY <4>1, AnswersAsk
    <3>5. op # "stop"
      BY <3>2, <3>4 DEF Wants
    <3> DEFINE m == Message("req", op, cfg, restarts)
    <3>6. m \in Messages /\ m \notin Stops
      <4>1. restarts \in Nat /\ (op = "set_config") = (cfg # NoConfig)
        BY <3>1, CallersTypes DEF AppCall
      <4>2. m \in Requests /\ m.what = op
        BY <4>1, CallMessage
      <4> QED
        BY <3>5, <4>2 DEF Stops, Requests
    <3> HIDE DEF m
    <3>7. ~In(toSlave', Stops)
      <4>1. toSlave \in Seq(Messages) /\ ~In(toSlave, Stops) /\ toSlave' = Append(toSlave, m)
        BY <2>1, <3>2, StreamTypes DEF Stopping, m
      <4> QED
        BY <3>6, <4>1, InAppend
    <3>8. ~Stopping'
      BY <2>1, <3>3, <3>7 DEF Stopping
    <3>9. WillStart'
      BY <2>1, <3>2, <3>3 DEF WillStart, Handling, Ends, Comes
    <3> QED
      BY <2>1, <3>3, <3>8, <3>9
  <2>3. CASE HostRestart
    <3>1. hostStarted' = FALSE /\ toHost' = << >>
      BY <2>3 DEF HostRestart
    <3>2. ~In(<< >>, StartAnswers(restarts'))
      BY NothingIn
    <3> QED
      BY <3>1, <3>2 DEF Wants
  <2>4. CASE HostReceive
    <3>1. WillStart'
      BY <2>1, <2>4, WillStartTaken
    <3>2. lib' = lib
      BY <2>4, HostFrame DEF HostSide
    <3>3. ~AppCalls
      <4>1. toHost # << >> /\ toHost' = Tail(toHost) /\ toHost \in Seq(Messages)
        BY <2>4, HostTaken, StreamTypes
      <4>2. toHost' # toHost
        BY <4>1, TailElements
      <4> QED
        BY <4>2 DEF AppCalls, AppCall
    <3>4. ~Stopping'
      BY <2>1, <3>3, StoppingKept
    <3> QED
      BY <2>1, <3>1, <3>2, <3>4
  <2>5. CASE ~HostSide
    <3>1. WillStart'
      BY <2>1, <2>5, WillStartKept
    <3>2. ~Stopping'
      BY <2>1, <2>5, StoppingKept DEF HostSide
    <3>3. lib' # "stopped"
      <4>1. CASE ~Pserial
        BY <2>1, <4>1, OthersNeverStop
      <4>2. CASE Pserial
        <5>1. ~StopLib
          BY <2>1 DEF StopLib, Stopping
        <5>2. CASE PserialEvent \/ PserialRequest \/ StartEvent \/ ConnectCheck \/ ConnectAck
          BY <2>1, <5>2
          DEF PserialEvent, PserialRequest, StartEvent, ConnectCheck, ConnectAck, library
        <5>3. CASE StartLib \/ DisconnectLib \/ ConnectLib
          BY <2>1, <5>3 DEF StartLib, DisconnectLib, ConnectLib, EspStart, EspDisconnect, EspConnect
        <5>4. CASE ConfigCheck \/ ConfigProvision \/ ConfigFlag \/ ConfigCopy \/ ConfigSame
          BY <2>1, <5>4 DEF ConfigCheck, ConfigProvision, ConfigFlag, ConfigCopy, ConfigSame,
                            EspSetConfig, library
        <5> QED
          BY <4>2, <5>1, <5>2, <5>3, <5>4 DEF Pserial
      <4> QED
        BY <4>1, <4>2
    <3> QED
      BY <3>1, <3>2, <3>3
  <2> QED
    BY <2>2, <2>3, <2>4, <2>5 DEF HostSide
<1> QED
  BY <1>1, <1>2, WantsKept

-----------------------------------------------------------------------------
(* What the host is told of the link.                                       *)

\* While the co-processor has a link, the last word on its way is that it is up.
LossFollowed ==
    stationConnected \/ evPc = "open" => Ends("STA_DISCONNECTED", "STA_CONNECTED")

LEMMA LossFollowedKept ==
  ASSUME Typed, Data, LossFollowed, [Next]_vars
  PROVE  LossFollowed'
<1> SUFFICES ASSUME stationConnected' \/ evPc' = "open"
             PROVE  Ends("STA_DISCONNECTED", "STA_CONNECTED")'
  BY DEF LossFollowed
<1>1. CASE HostSide
  <2>1. stationConnected \/ evPc = "open"
    BY <1>1, HostFrame
  <2>2. Ends("STA_DISCONNECTED", "STA_CONNECTED")
    BY <2>1 DEF LossFollowed
  <2>3. CASE AppCalls
    <3>1. reqQ' = reqQ /\ toHost' = toHost
      BY <2>3 DEF AppCalls, AppCall
    <3> QED
      BY <2>2, <3>1 DEF Ends
  <2>4. CASE HostRestart
    <3>1. reqQ' = reqQ /\ toHost' = << >>
      BY <2>4 DEF HostRestart
    <3>2. Followed(<< >>, Sent("STA_DISCONNECTED"), Sent("STA_CONNECTED"))
      BY NothingIn
    <3> QED
      BY <2>2, <3>1, <3>2 DEF Ends
  <2>5. CASE HostReceive
    BY <2>2, <2>5, StreamTaken, StartStopEvents
  <2> QED
    BY <1>1, <2>3, <2>4, <2>5 DEF HostSide
<1>2. CASE SendEvent /\ evPc' = "open"
  <2>1. ev = "STA_CONNECTED"
    BY <1>2 DEF SendEvent, Goto
  <2>2. Sends("STA_CONNECTED")
    BY <1>2, <2>1 DEF Sends
  <2> QED
    BY <2>2, StreamPut, StartStopEvents
<1>3. CASE ~HostSide /\ ~(SendEvent /\ evPc' = "open")
  <2>1. stationConnected \/ evPc = "open"
    <3>1. CASE stationConnected'
      <4>1. OpenData => evPc = "open"
        BY DEF OpenData, EventStep
      <4>2. TakesFrom => stationConnected' = stationConnected \/ ~stationConnected'
        BY TakeCases
      <4> QED
        BY <3>1, <4>1, <4>2, FlagCases
    <3>2. CASE evPc' = "open"
      <4>1. CASE EventTask
        <5>1. ~TakesFrom
          BY <3>2, TakeCases
        <5>2. /\ ~LostPending /\ ~StartConnect /\ ~ApplyPending /\ ~ClearPending
              /\ ~DropLink /\ ~CloseData /\ ~OpenData
          BY <3>2 DEF LostPending, StartConnect, ApplyPending, ClearPending, DropLink, CloseData,
                      OpenData, Goto, AfterPending
        <5> QED
          BY <1>3, <3>2, <4>1, <5>1, <5>2 DEF EventTask, TakesFrom
      <4>2. CASE ~EventTask
        BY <3>2, <4>2, NextParts, HostFrame, RecvFrame, LinkFrame, PserialFrame, StutterFrame
      <4> QED
        BY <4>1, <4>2
    <3> QED
      BY <3>1, <3>2
  <2>2. Ends("STA_DISCONNECTED", "STA_CONNECTED")
    BY <2>1 DEF LossFollowed
  <2>3. ~Sends("STA_DISCONNECTED")
    <3>1. SendEvent => evPc = "send"
      BY DEF SendEvent, EventStep
    <3>2. evPc = "send" /\ ev = "STA_DISCONNECTED" => ~stationConnected
      BY DEF Data, Handling
    <3> QED
      BY <2>1, <3>1, <3>2 DEF Sends
  <2> QED
    BY <1>3, <2>2, <2>3, StreamKept, StartStopEvents
<1> QED
  BY <1>1, <1>2, <1>3

Connects == {m \in Requests : m.what = "connect"}
Asking == In(reqQ, Connects) \/ rpcPc \in {"connect", "connectAck"}

\* A connect is not lost on its way to its handler.
LEMMA AskingKept ==
  ASSUME Typed, [Next]_vars, ~ConnectCheck, ~ConnectAck
  PROVE  /\ Asking => Asking'
         /\ In(toSlave, Connects) =>
              In(toSlave', Connects) \/ (RecvRequest /\ In(reqQ', Connects))
<1>1. /\ reqQ \in Seq(Messages) /\ toHost \in Seq(Messages) /\ toSlave \in Seq(Messages)
      /\ All(toSlave, Requests) /\ All(reqQ, Requests \cup EventMessages)
  BY StreamTypes
<1>2. CASE HostSide
  <2>1. reqQ' = reqQ /\ rpcPc' = rpcPc
    BY <1>2, HostFrame
  <2>2. In(toSlave, Connects) => In(toSlave', Connects)
    <3>1. CASE toSlave' = toSlave
      BY <3>1
    <3>2. CASE \E m \in Messages : toSlave' = Append(toSlave, m)
      BY <1>1, <3>2, InAppend
    <3>3. toSlave' = toSlave \/ \E m \in Messages : toSlave' = Append(toSlave, m)
      <4>1. CASE AppCalls
        <5>1. PICK op \in Ops, cfg \in Configs \cup {NoConfig} : AppCall(op, cfg)
          BY <4>1 DEF AppCalls
        <5>2. Message("req", op, cfg, restarts) \in Messages
          BY <5>1, CallersTypes, CallMessage DEF AppCall, Requests
        <5> QED
          BY <5>1, <5>2 DEF AppCall
      <4>2. CASE HostRestart
        BY <4>2 DEF HostRestart
      <4>3. CASE HostReceive
        <5>1. ConnectRequest(NoCaller) \in Messages
          BY ConnectMessage DEF Requests
        <5> QED
          BY <4>3, <5>1, HostTaken
      <4> QED
        BY <1>2, <4>1, <4>2, <4>3 DEF HostSide
    <3> QED
      BY <3>1, <3>2, <3>3
  <2> QED
    BY <2>1, <2>2 DEF Asking
<1>3. CASE RecvRequest
  <2> DEFINE m == Head(toSlave) t == Tail(toSlave)
  <2>1. toSlave # << >> /\ toSlave' = t /\ reqQ' = Append(reqQ, m) /\ rpcPc' = rpcPc
    BY <1>3, RecvFrame DEF RecvRequest
  <2>2. m \in Messages
    BY <1>1, <2>1, TailElements
  <2>3. In(toSlave, Connects) <=> m \in Connects \/ In(t, Connects)
    BY <1>1, <2>1, InTail
  <2> HIDE DEF m, t
  <2>4. In(reqQ', Connects) <=> In(reqQ, Connects) \/ m \in Connects
    BY <1>1, <2>1, <2>2, InAppend
  <2> QED
    BY <1>3, <2>1, <2>3, <2>4 DEF Asking
<1>4. CASE PserialEvent \/ PserialRequest
  <2> DEFINE m == Head(reqQ) t == Tail(reqQ)
  <2>1. reqQ # << >> /\ reqQ' = t /\ rpcPc = "idle" /\ toSlave' = toSlave
    BY <1>4 DEF PserialEvent, PserialRequest
  <2>2. In(reqQ, Connects) <=> m \in Connects \/ In(t, Connects)
    BY <1>1, <2>1, InTail
  <2>3. m \in Connects => rpcPc' = "connect"
    <3>1. PserialEvent => m \notin Connects
      BY DEF PserialEvent, Connects, Requests
    <3>2. PserialRequest => rpcPc' = m.what
      BY DEF PserialRequest
    <3> QED
      BY <1>4, <3>1, <3>2 DEF Connects
  <2> HIDE DEF m, t
  <2> QED
    BY <2>1, <2>2, <2>3 DEF Asking
<1>5. ASSUME reqQ' = reqQ \/ \E e \in Events : reqQ' = Append(reqQ, Event(e))
      PROVE  In(reqQ, Connects) => In(reqQ', Connects)
  <2>1. CASE reqQ' = reqQ
    BY <2>1
  <2>2. CASE \E e \in Events : reqQ' = Append(reqQ, Event(e))
    BY <1>1, <2>2, EventMessage, InAppend
  <2> QED
    BY <1>5, <2>1, <2>2
<1>6. CASE Pserial /\ ~PserialEvent /\ ~PserialRequest
  <2>1. toSlave' = toSlave
    BY <1>6, PserialFrame
  <2>2. rpcPc \notin {"connect", "connectAck"}
    BY <1>6 DEF Pserial, StartLib, StartEvent, StopLib, DisconnectLib, ConnectLib, ConfigCheck,
                ConfigProvision, ConfigFlag, ConfigCopy, ConfigSame
  <2>3. reqQ' = reqQ \/ \E e \in Events : reqQ' = Append(reqQ, Event(e))
    BY <1>6, PserialCases, PuttingPserial, StartStopEvents DEF Putting
  <2> QED
    BY <1>5, <2>1, <2>2, <2>3 DEF Asking
<1>7. CASE EventTask
  <2>1. toSlave' = toSlave /\ rpcPc' = rpcPc
    BY <1>7, EventFrame
  <2>2. ev \in Events
    BY TypedParts DEF Typed, EventTyped
  <2>3. reqQ' = reqQ \/ \E e \in Events : reqQ' = Append(reqQ, Event(e))
    BY <1>7, <2>2, EventQueue DEF Putting
  <2> QED
    BY <1>5, <2>1, <2>3 DEF Asking
<1>8. CASE LinkUp \/ LinkDown \/ UNCHANGED vars
  <2>1. UNCHANGED <<toSlave, reqQ, rpcPc>>
    BY <1>8, LinkFrame, StutterFrame
  <2> QED
    BY <2>1 DEF Asking
<1> QED
  BY <1>2, <1>3, <1>4, <1>6, <1>7, <1>8, NextParts

\* A host whose netif is started knows of the link, or it is told, or it asks.
Told ==
    netifStarted /\ (evPc = "open" \/ (stationConnected /\ ~withheld)) =>
        \/ view = "connected" \/ Comes("STA_CONNECTED")
        \/ In(toSlave, Connects) \/ (evPc # "open" /\ Asking)

LEMMA ToldHost ==
  ASSUME Typed, HostOK, LossFollowed, Told, HostSide
  PROVE  Told'
<1>1. UNCHANGED <<reqQ, rpcPc, evPc, stationConnected, withheld>>
  BY HostFrame
<1>2. ~ConnectCheck /\ ~ConnectAck
  BY <1>1 DEF ConnectCheck, ConnectAck, Respond, Continue
<1>3. In(toSlave, Connects) => In(toSlave', Connects)
  <2>1. [Next]_vars
    BY DEF Next, HostSide
  <2>2. reqQ' # Append(reqQ, Head(toSlave))
    <3>1. Len(Append(reqQ, Head(toSlave))) = Len(reqQ) + 1 /\ Len(reqQ) \in Nat
      BY StreamTypes
    <3> QED
      BY <1>1, <3>1
  <2>3. ~RecvRequest
    BY <2>2 DEF RecvRequest
  <2> QED
    BY <1>2, <2>1, <2>3, AskingKept
<1>4. Asking' <=> Asking
  BY <1>1 DEF Asking
<1>5. CASE AppCalls
  <2>1. view' = view /\ netifStarted' = netifStarted /\ toHost' = toHost
    BY <1>5 DEF AppCalls, AppCall
  <2> QED
    BY <1>1, <1>3, <1>4, <2>1 DEF Told, Comes
<1>6. CASE HostRestart
  BY <1>6 DEF HostRestart, Told
<1>7. CASE OnStop
  BY <1>7 DEF OnStop, Told
<1>8. CASE HostResponse \/ OnStart \/ OnDisconnected
  <2>1. HostReceive
    BY <1>8 DEF HostReceive
  <2>2. Head(toHost).what # "STA_CONNECTED"
    BY <1>8 DEF HostResponse, OnStart, OnDisconnected, HostTake, Ops
  <2>3. Comes("STA_CONNECTED") => Comes("STA_CONNECTED")'
    <3>1. Head(toHost) # Event("STA_CONNECTED")
      BY <2>2, EventMessage, StartStopEvents
    <3> QED
      BY <2>1, <3>1, StreamTaken, StartStopEvents
  <2>4. CASE HostResponse
    <3>1. view' = view /\ netifStarted' = netifStarted
      BY <2>4 DEF HostResponse
    <3> QED
      BY <1>1, <1>3, <1>4, <2>3, <3>1 DEF Told
  <2>5. CASE OnStart
    <3>1. CASE ~netifStarted /\ view # "connected"
      <4>1. toSlave' = Append(toSlave, ConnectRequest(NoCaller))
        BY <2>5, <3>1 DEF OnStart
      <4> DEFINE c == ConnectRequest(NoCaller)
      <4>2. c \in Connects /\ c \in Messages
        BY ConnectMessage DEF Connects, Requests
      <4>3. toSlave \in Seq(Messages) /\ toSlave' = Append(toSlave, c)
        BY <4>1, StreamTypes
      <4> HIDE DEF c
      <4>4. In(toSlave', Connects)
        BY <4>2, <4>3, InAppend
      <4> QED
        BY <4>4 DEF Told
    <3>2. CASE ~(~netifStarted /\ view # "connected")
      <4>1. view' = view /\ netifStarted' = netifStarted
        BY <2>5, <3>2 DEF OnStart
      <4> QED
        BY <1>1, <1>3, <1>4, <2>3, <4>1 DEF Told
    <3> QED
      BY <3>1, <3>2
  <2>6. CASE OnDisconnected
    <3>1. evPc = "open" \/ stationConnected => Comes("STA_CONNECTED")'
      <4>1. Head(toHost).kind = "evt" /\ Head(toHost).what = "STA_DISCONNECTED" /\ toHost # << >>
        BY <2>6 DEF OnDisconnected, HostTake
      <4>2. Head(toHost) \in Responses \cup EventMessages
        BY <4>1, StreamTypes, HeadMessage
      <4>3. Head(toHost) = Event("STA_DISCONNECTED")
        BY <4>1, <4>2, EventKind DEF Responses
      <4>4. Ends("STA_DISCONNECTED", "STA_CONNECTED") => Comes("STA_CONNECTED")'
        BY <2>1, <4>3, StreamTaken, StartStopEvents
      <4> QED
        BY <4>4 DEF LossFollowed
    <3> QED
      BY <1>1, <3>1 DEF Told
  <2> QED
    BY <1>8, <2>4, <2>5, <2>6
<1>9. CASE OnConnected
  <2>1. netifStarted' = netifStarted
    BY <1>9 DEF OnConnected
  <2>2. netifStarted => view' = "connected"
    <3>1. CASE ~netifConnected /\ netifStarted
      BY <1>9, <3>1 DEF OnConnected
    <3>2. CASE netifConnected
      BY <1>9, <3>2 DEF OnConnected, HostOK
    <3> QED
      BY <3>1, <3>2
  <2> QED
    BY <2>1, <2>2 DEF Told
<1> QED
  BY <1>5, <1>6, <1>7, <1>8, <1>9 DEF HostSide, HostReceive

LEMMA ToldCheck ==
  ASSUME Typed, Told, ConnectCheck
  PROVE  Told'
<1>1. /\ UNCHANGED <<netifStarted, view, toSlave, evPc, stationConnected, reqQ, newConfigRecvd>>
      /\ withheld' = (stationConnected /\ (newConfigRecvd \/ libCfg = NoConfig))
  BY DEF ConnectCheck, hostVars, eventTask, pending
<1>2. Comes("STA_CONNECTED") => Comes("STA_CONNECTED")'
  <2>1. ~Sends("STA_DISCONNECTED") /\ ~HostSide
    <3>1. rpcPc' # rpcPc
      BY DEF ConnectCheck, Respond, Continue
    <3>2. ~SendEvent /\ ~HostSide
      BY <3>1, EventFrame, HostFrame DEF EventTask
    <3> QED
      BY <3>2 DEF Sends
  <2>2. [Next]_vars
    BY DEF Next, Pserial
  <2> QED
    BY <2>1, <2>2, StreamKept, StartStopEvents
<1>3. CASE evPc = "open"
  BY <1>1, <1>2, <1>3 DEF Told
<1>4. CASE evPc # "open" /\ stationConnected /\ ~newConfigRecvd /\ libCfg # NoConfig
  <2>1. rpcPc' = "connectAck"
    BY <1>4 DEF ConnectCheck, Continue
  <2> QED
    BY <1>1, <1>4, <2>1 DEF Told, Asking
<1>5. CASE evPc # "open" /\ ~(stationConnected /\ ~newConfigRecvd /\ libCfg # NoConfig)
  <2>1. stationConnected \in BOOLEAN /\ newConfigRecvd \in BOOLEAN
    BY TypedParts DEF Typed, StationTyped
  <2>2. ~(stationConnected' /\ ~withheld')
    BY <1>1, <1>5, <2>1
  <2> QED
    BY <1>1, <1>5, <2>2 DEF Told
<1> QED
  BY <1>3, <1>4, <1>5

LEMMA ToldKept ==
  ASSUME Typed, HostOK, LossFollowed, Told, [Next]_vars
  PROVE  Told'
<1>1. CASE HostSide
  BY <1>1, ToldHost
<1>2. CASE ConnectCheck
  BY <1>2, ToldCheck
<1>3. CASE ConnectAck \/ (SendEvent /\ evPc' = "open")
  <2>1. SendEvent /\ evPc' = "open" => ev = "STA_CONNECTED"
    BY DEF SendEvent, Goto
  <2>2. Sends("STA_CONNECTED")
    BY <1>3, <2>1 DEF Sends
  <2>3. Comes("STA_CONNECTED")'
    BY <2>2, StreamPut, StartStopEvents
  <2> QED
    BY <2>3 DEF Told
<1>4. CASE ~HostSide /\ ~ConnectCheck /\ ~ConnectAck /\ ~(SendEvent /\ evPc' = "open")
  <2>1. UNCHANGED <<netifStarted, view>>
    BY <1>4, NextParts, RecvFrame, LinkFrame, PserialFrame, EventFrame, StutterFrame
  <2>2. Comes("STA_CONNECTED") => Comes("STA_CONNECTED")'
    <3>1. CASE Sends("STA_DISCONNECTED")
      BY <3>1, StreamPut, StartStopEvents
    <3>2. CASE ~Sends("STA_DISCONNECTED")
      BY <1>4, <3>2, StreamKept, StartStopEvents
    <3> QED
      BY <3>1, <3>2
  <2>3. /\ Asking => Asking'
        /\ In(toSlave, Connects) => In(toSlave', Connects) \/ (RecvRequest /\ In(reqQ', Connects))
    BY <1>4, AskingKept
  <2>4. In(toSlave, Connects) => In(toSlave', Connects) \/ (evPc' # "open" /\ Asking')
    <3>1. RecvRequest => evPc' # "open"
      BY RecvFrame DEF RecvRequest
    <3> QED
      BY <2>3, <3>1 DEF Asking
  <2>5. evPc' = "open" => evPc = "open"
    <3>1. CASE EventTask
      <4>1. evPc' = "open" => ~TakesFrom
        BY TakeCases
      <4>2. LostPending \/ StartConnect \/ DropLink \/ CloseData \/ OpenData => evPc' # "open"
        BY DEF LostPending, StartConnect, DropLink, CloseData, OpenData, Goto
      <4>3. ApplyPending \/ ClearPending => evPc' # "open"
        BY DEF ApplyPending, ClearPending, Goto, AfterPending
      <4> QED
        BY <1>4, <3>1, <4>1, <4>2, <4>3 DEF EventTask, TakesFrom
    <3>2. CASE ~EventTask
      BY <3>2, NextParts, HostFrame, RecvFrame, LinkFrame, PserialFrame, StutterFrame
    <3> QED
      BY <3>1, <3>2
  <2>6. stationConnected' /\ ~withheld' => evPc = "open" \/ (stationConnected /\ ~withheld)
    <3>1. OpenData => evPc = "open"
      BY DEF OpenData, EventStep
    <3>2. CASE TakesFrom
      <4>1. CASE TakeDisconnected
        BY <4>1 DEF TakeDisconnected
      <4>2. CASE TakeConnected \/ TakeStart \/ TakeStop
        BY <4>2 DEF TakeConnected, TakeStart, TakeStop, link
      <4> QED
        BY <3>2, <4>1, <4>2 DEF TakesFrom
    <3>3. CASE ~TakesFrom /\ ~OpenData
      <4>1. stationConnected' = stationConnected
        BY <3>3, FlagCases
      <4>2. withheld' = withheld
        <5>1. CASE ~Pserial /\ ~EventTask
          BY <5>1, NextParts, HostFrame, RecvFrame, LinkFrame, StutterFrame
        <5>2. CASE Pserial
          BY <1>4, <5>2 DEF Pserial, PserialEvent, PserialRequest, StartLib, StartEvent, StopLib,
                            DisconnectLib, ConnectLib, ConfigCheck, ConfigProvision, ConfigFlag,
                            ConfigCopy, ConfigSame, station, link
        <5>3. CASE EventTask
          BY <3>3, <5>3 DEF EventTask, TakesFrom, LostPending, StartConnect, ApplyPending,
                            ClearPending, DropLink, CloseData, SendEvent, station, link
        <5> QED
          BY <5>1, <5>2, <5>3
      <4> QED
        BY <4>1, <4>2
    <3> QED
      BY <3>1, <3>2, <3>3
  <2> QED
    BY <2>1, <2>2, <2>3, <2>4, <2>5, <2>6 DEF Told
<1> QED
  BY <1>1, <1>2, <1>3, <1>4

-----------------------------------------------------------------------------
(* When all that was sent is handled.                                       *)

Agreement ==
    /\ Typed /\ HostOK /\ Callers /\ Starts /\ StartRuns /\ Links /\ Data
    /\ Wanted /\ LossFollowed /\ Told

LEMMA AgreementInit == Init => Agreement
<1> SUFFICES ASSUME Init PROVE Agreement
  OBVIOUS
<1>1. Typed
  BY TypedInit
<1>2. toSlave = << >> /\ toHost = << >> /\ reqQ = << >> /\ evQ = << >>
  BY DEF Init
<1>3. /\ app = "idle" /\ rpcPc = "idle" /\ evPc = "idle" /\ view = "stopped" /\ lib = "stopped"
      /\ ~hostStarted /\ ~netifConnected /\ ~stationConnected /\ ~stationConnecting /\ ~rxcb
      /\ ~newConfigRecvd
  BY DEF Init
<1>4. HostOK /\ StartRuns /\ Data /\ LossFollowed /\ Told
  BY <1>3 DEF HostOK, StartRuns, Data, LossFollowed, Told, Handling
<1>5. Callers
  <2>1. restarts \in Nat
    BY <1>1, CallersTypes
  <2>2. Carries(<< >>, restarts) /\ Nobody(<< >>) /\ ~Asks(<< >>, restarts)
    BY <2>1, CarriesNothing
  <2> QED
    BY <1>2, <1>3, <2>2 DEF Callers, Serving
<1>6. ~LinkSeen /\ ~Linking /\ ~Handling("STA_STOP")
  BY <1>3 DEF LinkSeen, Linking, Handling
<1>7. Starts /\ Links
  BY <1>2, <1>3, <1>6, NothingIn DEF Starts, Links
<1>8. Wanted
  <2>1. ~In(toHost, StartAnswers(restarts))
    BY <1>2, NothingIn
  <2> QED
    BY <1>3, <2>1 DEF Wanted, Wants
<1> QED
  BY <1>1, <1>4, <1>5, <1>7, <1>8 DEF Agreement

LEMMA AgreementStep == Agreement /\ [Next]_vars => Agreement'
<1> SUFFICES ASSUME Agreement, [Next]_vars PROVE Agreement'
  OBVIOUS
<1>1. /\ Typed /\ HostOK /\ Callers /\ Starts /\ StartRuns /\ Links /\ Data
      /\ Wanted /\ LossFollowed /\ Told
  BY DEF Agreement
<1>2. HostTyped /\ StationTyped /\ EventOK
  BY <1>1, TypedParts DEF Typed, EventOK
<1>3. Typed' /\ HostOK' /\ Callers'
  BY <1>1, <1>2, TypedStep, HostKept, CallersKept
<1>4. Starts' /\ StartRuns' /\ Links'
  BY <1>1, <1>2, StartsKept, StartRunsKept, LinksKept
<1>5. Data'
  BY <1>1, <1>2, DataKept
<1>6. Wanted' /\ LossFollowed' /\ Told'
  BY <1>1, WantedKept, LossFollowedKept, ToldKept
<1> QED
  BY <1>3, <1>4, <1>5, <1>6 DEF Agreement

LEMMA AlwaysAgreement == Spec => []Agreement
  BY AgreementInit, AgreementStep, PTL DEF Spec

\* Once every queue is empty and both tasks of the co-processor are idle, no call
\* of the host is still open, station_connected says what the library does, the
\* data path is open exactly then, and a host that has started the station takes
\* the link for up unless its connected event was withheld, however often either
\* side restarted, stopped or reconnected:
\* event_handler_wifi's flags, the events it sends and the connected event with
\* which req_wifi_connect answers a host that has forgotten the link suffice.
THEOREM SettledAgreeHolds == Spec => []SettledAgree
<1>1. Agreement => SettledAgree
  <2> SUFFICES ASSUME Agreement, Quiet
               PROVE  /\ app = "idle"
                      /\ (lib = "connected") = stationConnected
                      /\ rxcb = stationConnected
                      /\ hostStarted /\ stationConnected /\ ~withheld => view = "connected"
    BY DEF SettledAgree
  <2>1. /\ toSlave = << >> /\ toHost = << >> /\ reqQ = << >> /\ evQ = << >>
        /\ rpcPc = "idle" /\ evPc = "idle"
    BY DEF Quiet
  <2>2. Typed /\ Callers /\ Links /\ Data /\ Wanted /\ Told
    BY DEF Agreement
  <2>3. \A S : ~In(<< >>, S)
    BY NothingIn
  <2>4. \A e : ~Handling(e)
    BY <2>1 DEF Handling
  <2>5. app = "idle"
    <3>1. app \in {"idle", "wait"}
      BY <2>2, TypedParts DEF Typed, HostTyped
    <3>2. ~Asks(<< >>, restarts) /\ ~Serving(restarts)
      BY <2>1, <2>3 DEF Asks, Serving
    <3> QED
      BY <2>1, <2>2, <3>1, <3>2 DEF Callers
  <2>6. stationConnected \in BOOLEAN /\ rxcb \in BOOLEAN
    BY <2>2, TypedParts DEF Typed, StationTyped
  <2>7. (lib = "connected") = stationConnected
    <3>1. ~In(evQ, UpSet) /\ ~In(evQ, DownSet)
      BY <2>1, <2>3
    <3>2. LinkSeen <=> stationConnected
      BY <2>4 DEF LinkSeen
    <3>3. lib = "connected" <=> stationConnected
      BY <2>2, <3>1, <3>2 DEF Links
    <3> QED
      BY <2>6, <3>3
  <2>8. rxcb = stationConnected
    <3>1. rxcb <=> stationConnected
      BY <2>1, <2>2 DEF Data
    <3> QED
      BY <2>6, <3>1
  <2>9. ASSUME hostStarted, stationConnected, ~withheld PROVE view = "connected"
    <3>1. \A e : ~Comes(e)
      BY <2>1, <2>3 DEF Comes
    <3>2. WillStart
      BY <2>2, <2>9 DEF Wanted, Wants
    <3>3. netifStarted
      BY <2>1, <2>3, <2>4, <3>1, <3>2 DEF WillStart
    <3>4. ~In(toSlave, Connects) /\ ~Asking
      BY <2>1, <2>3 DEF Asking
    <3> QED
      BY <2>2, <2>9, <3>1, <3>3, <3>4 DEF Told
  <2> QED
    BY <2>5, <2>7, <2>8, <2>9
<1> QED
  BY <1>1, AlwaysAgreement, PTL

-----------------------------------------------------------------------------
(* The end of a link.                                                       *)

LossHandled == evPc \in {"lost", "apply", "clear", "close", "send"} /\ ev = "STA_DISCONNECTED"

\* While the co-processor has no link, the last word on its way is that it is down,
\* but for a connect that answers too late.
LossTold ==
    ~stationConnected /\ ~overtaken /\ ~LossHandled /\ evPc # "open" =>
        /\ Ends("STA_CONNECTED", "STA_DISCONNECTED")
        /\ Comes("STA_DISCONNECTED") \/ view # "connected"

\* The handler of a loss leaves its statements only by sending the event.
LEMMA LossHandledKept ==
  ASSUME [Next]_vars, LossHandled, ~SendEvent
  PROVE  LossHandled'
<1>1. evPc \in {"lost", "apply", "clear", "close", "send"} /\ ev = "STA_DISCONNECTED"
  BY DEF LossHandled
<1>2. CASE EventTask
  <2>1. CASE LostPending \/ ApplyPending \/ ClearPending \/ CloseData
    <3>1. evPc' \in {"apply", "clear", "close", "send"} /\ ev' = ev
      BY <1>1, <2>1 DEF LostPending, ApplyPending, ClearPending, CloseData, EventStep, Goto,
         AfterPending
    <3> QED
      BY <1>1, <3>1 DEF LossHandled
  <2>2. ~TakesFrom /\ ~StartConnect /\ ~DropLink /\ ~OpenData
    BY <1>1, TakeCases DEF StartConnect, DropLink, OpenData, EventStep
  <2> QED
    BY <1>2, <2>1, <2>2 DEF EventTask, TakesFrom
<1>3. CASE ~EventTask
  <2>1. evPc' = evPc /\ ev' = ev
    BY <1>3, NextParts, HostFrame, RecvFrame, LinkFrame, PserialFrame, StutterFrame
  <2> QED
    BY <1>1, <2>1 DEF LossHandled
<1> QED
  BY <1>2, <1>3

\* Nothing but the next event of the link ends what a late answer has done.
LEMMA OvertakenKept ==
  ASSUME [Next]_vars, overtaken, ~stationConnected
  PROVE  \/ overtaken'
         \/ SendEvent /\ ev \in {"STA_CONNECTED", "STA_DISCONNECTED"}
<1>1. CASE HostSide \/ RecvRequest \/ LinkUp \/ LinkDown \/ UNCHANGED vars
  BY <1>1, HostFrame, RecvFrame, LinkFrame, StutterFrame
<1>2. CASE PserialEvent \/ PserialRequest \/ StartLib \/ StartEvent \/ StopLib \/ DisconnectLib
  BY <1>2 DEF PserialEvent, PserialRequest, StartLib, StartEvent, StopLib, DisconnectLib,
              history
<1>3. CASE ConnectCheck \/ ConnectLib \/ ConnectAck
  BY <1>3 DEF ConnectCheck, ConnectLib, ConnectAck, history
<1>4. CASE ConfigCheck \/ ConfigProvision \/ ConfigFlag \/ ConfigCopy \/ ConfigSame
  BY <1>4 DEF ConfigCheck, ConfigProvision, ConfigFlag, ConfigCopy, ConfigSame, history
<1>5. CASE TakesFrom
  BY <1>5 DEF TakesFrom, TakeConnected, TakeDisconnected, TakeStart, TakeStop, EventTake, EventStep
<1>6. CASE LostPending \/ StartConnect \/ ApplyPending \/ ClearPending \/ DropLink
  BY <1>6 DEF LostPending, StartConnect, ApplyPending, ClearPending, DropLink, EventStep
<1>7. CASE CloseData \/ SendEvent \/ OpenData
  BY <1>7 DEF CloseData, SendEvent, OpenData, EventStep
<1> QED
  BY <1>1, <1>2, <1>3, <1>4, <1>5, <1>6, <1>7, NextParts DEF Pserial, EventTask, TakesFrom

LEMMA LossToldHost ==
  ASSUME Typed, LossTold, HostSide
  PROVE  LossTold'
<1>1. UNCHANGED <<reqQ, evPc, ev, stationConnected, overtaken>>
  BY HostFrame
<1> DEFINE X == Ends("STA_CONNECTED", "STA_DISCONNECTED") C == Comes("STA_DISCONNECTED")
<1> SUFFICES ASSUME X, C \/ view # "connected" PROVE X' /\ (C' \/ view' # "connected")
  BY <1>1 DEF LossTold, LossHandled
<1>2. CASE AppCalls
  <2>1. toHost' = toHost /\ view' = view
    BY <1>2 DEF AppCalls, AppCall
  <2> QED
    BY <1>1, <2>1 DEF Ends, Comes
<1>3. CASE HostRestart
  <2>1. toHost' = << >> /\ view' = "stopped"
    BY <1>3 DEF HostRestart
  <2>2. Followed(<< >>, Sent("STA_CONNECTED"), Sent("STA_DISCONNECTED"))
    BY NothingIn
  <2> QED
    BY <1>1, <2>1, <2>2 DEF Ends
<1>4. CASE HostReceive
  <2>1. X'
    BY <1>4, StreamTaken, StartStopEvents
  <2>2. CASE OnDisconnected
    <3>1. view' # "connected"
      BY <2>2 DEF OnDisconnected
    <3> QED
      BY <2>1, <3>1
  <2>3. CASE OnConnected
    <3>1. toHost # << >> /\ Head(toHost).kind = "evt" /\ Head(toHost).what = "STA_CONNECTED"
      BY <2>3 DEF OnConnected, HostTake
    <3>2. Head(toHost) \in Responses \cup EventMessages
      BY <3>1, StreamTypes, HeadMessage
    <3>3. Head(toHost) = Event("STA_CONNECTED")
      BY <3>1, <3>2, EventKind DEF Responses
    <3>4. C'
      BY <1>4, <3>3, StreamTaken, StartStopEvents
    <3> QED
      BY <2>1, <3>4
  <2>4. CASE HostResponse \/ OnStart \/ OnStop
    <3>1. Head(toHost).what # "STA_DISCONNECTED"
      BY <2>4 DEF HostResponse, OnStart, OnStop, HostTake, Ops
    <3>2. Head(toHost) # Event("STA_DISCONNECTED")
      BY <3>1, EventMessage, StartStopEvents
    <3>3. C => C'
      BY <1>4, <3>2, StreamTaken, StartStopEvents
    <3>4. view' = view \/ view' \in {"started", "stopped"}
      BY <2>4 DEF HostResponse, OnStart, OnStop
    <3> QED
      BY <2>1, <3>3, <3>4
  <2> QED
    BY <1>4, <2>2, <2>3, <2>4 DEF HostReceive
<1> QED
  BY <1>2, <1>3, <1>4 DEF HostSide

LEMMA LossToldKept ==
  ASSUME Typed, LossTold, [Next]_vars
  PROVE  LossTold'
<1> DEFINE X == Ends("STA_CONNECTED", "STA_DISCONNECTED") C == Comes("STA_DISCONNECTED")
<1>1. CASE HostSide
  BY <1>1, LossToldHost
<1>2. CASE ~HostSide
  <2> SUFFICES ASSUME ~stationConnected', ~overtaken', ~LossHandled', evPc' # "open"
               PROVE  X' /\ (C' \/ view' # "connected")
    BY DEF LossTold
  <2>1. view' = view
    BY <1>2, NextParts, RecvFrame, LinkFrame, PserialFrame, EventFrame, StutterFrame
  <2>2. CASE SendEvent /\ ev = "STA_DISCONNECTED"
    <3>1. Sends("STA_DISCONNECTED")
      BY <2>2 DEF Sends
    <3>2. X' /\ C'
      BY <3>1, StreamPut, StartStopEvents
    <3> QED
      BY <3>2
  <2>3. CASE ~(SendEvent /\ ev = "STA_DISCONNECTED")
    <3>1. ~stationConnected
      <4>1. ~TakeDisconnected
        <5>1. TakeDisconnected => LossHandled'
          <6>1. TakeDisconnected => EventTake("STA_DISCONNECTED", "lost")
            BY DEF TakeDisconnected
          <6>2. TakeDisconnected => evPc' = "lost" /\ ev' = "STA_DISCONNECTED"
            BY <6>1, TakesEvent
          <6> QED
            BY <6>2 DEF LossHandled
        <5> QED
          BY <5>1
      <4>2. CASE TakesFrom
        BY <4>1, <4>2 DEF TakesFrom, TakeConnected, TakeStart, TakeStop, link
      <4>3. CASE ~TakesFrom
        BY <4>3, FlagCases DEF OpenData
      <4> QED
        BY <4>2, <4>3
    <3>2. ~LossHandled
      <4>1. LossHandled /\ SendEvent => FALSE
        BY <2>3 DEF LossHandled
      <4> QED
        BY <4>1, LossHandledKept
    <3>3. evPc # "open"
      <4>1. CASE EventTask
        <5>1. OpenData => stationConnected'
          BY DEF OpenData
        <5>2. TakesFrom => evPc = "idle"
          BY TakeCases
        <5>3. ~OpenData /\ ~TakesFrom => evPc # "open"
          BY <4>1 DEF EventTask, TakesFrom, LostPending, StartConnect, ApplyPending, ClearPending,
                      DropLink, CloseData, SendEvent, EventStep
        <5> QED
          BY <5>1, <5>2, <5>3
      <4>2. CASE ~EventTask
        BY <4>2, NextParts, HostFrame, RecvFrame, LinkFrame, PserialFrame, StutterFrame
      <4> QED
        BY <4>1, <4>2
    <3>4. SendEvent => ev # "STA_CONNECTED"
      BY DEF SendEvent, Goto
    <3>5. ~Sends("STA_CONNECTED")
      <4>1. ~ConnectAck
        BY <3>1 DEF ConnectAck
      <4> QED
        BY <3>4, <4>1 DEF Sends
    <3>6. X /\ (C \/ view # "connected")
      <4>1. ~overtaken
        BY <2>3, <3>1, <3>4, OvertakenKept
      <4> QED
        BY <3>1, <3>2, <3>3, <4>1 DEF LossTold
    <3>7. X' /\ (C => C')
      BY <1>2, <3>5, <3>6, StreamKept, StartStopEvents
    <3> QED
      BY <2>1, <3>6, <3>7
  <2> QED
    BY <2>2, <2>3
<1> QED
  BY <1>1, <1>2

\* The host never takes a link for up whose end event_handler_wifi has seen, unless
\* an event of the link is on its way, on one core or two; a connected event that
\* req_wifi_connect sends when that end has been seen since its test is the one
\* exception, and the next event of the link ends it.
THEOREM HostToldOfLossHolds == Spec => []HostToldOfLoss
<1> DEFINE L == Typed /\ LossTold
<1>1. Init => L
  <2> SUFFICES ASSUME Init PROVE L
    OBVIOUS
  <2>1. view = "stopped" /\ reqQ = << >> /\ toHost = << >>
    BY DEF Init
  <2>2. Ends("STA_CONNECTED", "STA_DISCONNECTED")
    BY <2>1, NothingIn DEF Ends
  <2> QED
    BY <2>1, <2>2, TypedInit DEF LossTold
<1>2. L /\ [Next]_vars => L'
  BY TypedStep, LossToldKept
<1>3. L => HostToldOfLoss
  <2> SUFFICES ASSUME Typed, LossTold, view = "connected", ~stationConnected, ~overtaken
               PROVE  OnItsWay("STA_CONNECTED") \/ OnItsWay("STA_DISCONNECTED")
    BY DEF HostToldOfLoss
  <2>1. CASE LossHandled
    BY <2>1 DEF LossHandled, OnItsWay
  <2>2. CASE evPc = "open"
    <3>1. ev = "STA_CONNECTED"
      BY <2>2 DEF Typed, EvOK
    <3> QED
      BY <2>2, <3>1 DEF OnItsWay
  <2>3. CASE ~LossHandled /\ evPc # "open"
    <3>1. Comes("STA_DISCONNECTED")
      BY <2>3 DEF LossTold
    <3>2. DOMAIN reqQ = 1..Len(reqQ) /\ DOMAIN toHost = 1..Len(toHost)
      BY StreamTypes
    <3> QED
      BY <3>1, <3>2 DEF Comes, In, Sent, OnItsWay
  <2> QED
    BY <2>1, <2>2, <2>3
<1>4. Spec => []L
  <2> HIDE DEF L
  <2> QED
    BY <1>1, <1>2, PTL DEF Spec
<1> QED
  BY <1>3, <1>4, PTL

-----------------------------------------------------------------------------
(* HostPowerSave.                                                           *)

PowerMessages == {"init", "packet"}
InitIn(s) == \E i \in 1..Len(s) : s[i] = "init"
OneInit(s) == \A i, j \in 1..Len(s) : s[i] = "init" /\ s[j] = "init" => i = j
HasInit == InitIn(busToHost)
NobodyLoops == \A t \in Tasks : pc[t] \notin Looping
\* The host slept, and has not told the co-processor yet that it is back.
Unannounced ==
    /\ bootReason = "deepsleep"
    /\ host = "boot" \/ (host = "connecting" /\ Finished(off) /\ ~resetSem /\ ~HasInit)

\* What the host knows, it knows since its boot.
HostStates ==
    /\ drvInit <=> host \in {"up", "notified", "deaf"}
    /\ isr => host \in {"up", "notified"}
    /\ notice => drvInit

\* A host that boots is answered once.
OneAnswer ==
    /\ off["start"] + off["give"] + off["sleep"] <= 1
    /\ OneInit(busToHost)
    /\ ~Finished(off) => ~resetSem /\ ~HasInit
    /\ resetSem => ~HasInit

\* While an answer is under way the host waits for it, and the co-processor has
\* taken note of the wake-up by the time it answers.
AnswerExpected ==
    /\ ~Finished(off) => host = "connecting" /\ bootReason = "deepsleep" /\ Finished(on)
    /\ resetSem \/ HasInit =>
         /\ host = "connecting" \/ (host = "boot" /\ bootReason # "deepsleep")
         /\ Finished(on) /\ ~saving /\ NobodyLoops
    /\ off["start"] > 0 => saving
    /\ off["give"] > 0 \/ off["sleep"] > 0 => ~saving

\* A co-processor that has been reset knows nothing and has nothing under way.
FreshSlave ==
    slave = "boot" =>
         /\ Finished(off) /\ ~resetSem /\ ~HasInit /\ Finished(on)
         /\ ~saving /\ sem = NoSem /\ \A t \in Tasks : pc[t] = "idle"
         /\ host \in {"boot", "connecting"} /\ bootReason # "deepsleep"

\* A listening host has told nobody that it sleeps.
Listening ==
    host = "up" /\ isr => ~saving /\ ~notice /\ Finished(on) /\ NobodyLoops

\* A task loops because the host sleeps or has just come back, and takes the
\* semaphore only when the alert of the wake-up has given it.
LoopsForAReason ==
    /\ slave = "run" => sem # NoSem
    /\ ~NobodyLoops => saving \/ off["give"] > 0 \/ off["sleep"] > 0
    /\ \A t \in Tasks : pc[t] = "give" => off["sleep"] > 0 /\ sem = 0
    /\ pin => \E t \in Tasks : pc[t] = "lower"
    /\ off["give"] > 0 => sem = 0
    /\ on["set"] > 0 => sem = 0

\* Only the pin ends the sleep, so the co-processor believes in it until it is told.
SleepBelieved == Unannounced => saving \/ ~Finished(on)

PowerInv ==
    /\ PowerTypeOK /\ HostStates /\ OneAnswer /\ AnswerExpected /\ FreshSlave
    /\ Listening /\ LoopsForAReason /\ SleepBelieved /\ TokenTellsAwake

-----------------------------------------------------------------------------
(* The queue of the bus, the alerts.                                        *)

LEMMA InitQueued ==
  ASSUME NEW s \in Seq(PowerMessages), ~InitIn(s)
  PROVE  /\ Append(s, "init") \in Seq(PowerMessages)
         /\ InitIn(Append(s, "init")) /\ OneInit(Append(s, "init"))
<1>1. Append(s, "init") \in Seq(PowerMessages) /\ Len(Append(s, "init")) = Len(s) + 1
  BY DEF PowerMessages
<1>2. \A i \in 1..(Len(s) + 1) : Append(s, "init")[i] = IF i = Len(s) + 1 THEN "init" ELSE s[i]
  OBVIOUS
<1>3. InitIn(Append(s, "init"))
  BY <1>1, <1>2 DEF InitIn
<1>4. OneInit(Append(s, "init"))
  BY <1>1, <1>2 DEF InitIn, OneInit
<1> QED
  BY <1>1, <1>3, <1>4

LEMMA PacketQueued ==
  ASSUME NEW s \in Seq(PowerMessages)
  PROVE  /\ Append(s, "packet") \in Seq(PowerMessages)
         /\ InitIn(Append(s, "packet")) <=> InitIn(s)
         /\ OneInit(s) => OneInit(Append(s, "packet"))
<1>1. Append(s, "packet") \in Seq(PowerMessages) /\ Len(Append(s, "packet")) = Len(s) + 1
  BY DEF PowerMessages
<1>2. \A i \in 1..(Len(s) + 1) :
         Append(s, "packet")[i] = IF i = Len(s) + 1 THEN "packet" ELSE s[i]
  OBVIOUS
<1>3. InitIn(Append(s, "packet")) <=> InitIn(s)
  BY <1>1, <1>2 DEF InitIn
<1>4. OneInit(s) => OneInit(Append(s, "packet"))
  BY <1>1, <1>2 DEF OneInit
<1> QED
  BY <1>1, <1>3, <1>4

LEMMA FirstDelivered ==
  ASSUME NEW s \in Seq(PowerMessages), s # << >>, OneInit(s)
  PROVE  /\ Tail(s) \in Seq(PowerMessages) /\ OneInit(Tail(s))
         /\ Head(s) = "init" => InitIn(s) /\ ~InitIn(Tail(s))
         /\ Head(s) # "init" => (InitIn(Tail(s)) <=> InitIn(s))
<1>1. /\ Tail(s) \in Seq(PowerMessages) /\ Len(Tail(s)) = Len(s) - 1
      /\ \A i \in 1..Len(Tail(s)) : Tail(s)[i] = s[i + 1]
  OBVIOUS
<1>2. Head(s) = s[1] /\ Len(s) \in Nat \ {0}
  OBVIOUS
<1>3. OneInit(Tail(s))
  BY <1>1, <1>2 DEF OneInit
<1>4. Head(s) = "init" => InitIn(s) /\ ~InitIn(Tail(s))
  BY <1>1, <1>2 DEF OneInit, InitIn
<1>5. InitIn(Tail(s)) => InitIn(s)
  BY <1>1, <1>2 DEF InitIn
<1>6. Head(s) # "init" /\ InitIn(s) => InitIn(Tail(s))
  <2> SUFFICES ASSUME Head(s) # "init", InitIn(s) PROVE InitIn(Tail(s))
    OBVIOUS
  <2>1. PICK i \in 1..Len(s) : s[i] = "init"
    BY DEF InitIn
  <2>2. i # 1 /\ i - 1 \in 1..Len(Tail(s)) /\ (i - 1) + 1 = i
    BY <1>1, <1>2, <2>1
  <2>3. Tail(s)[i - 1] = "init"
    BY <1>1, <2>1, <2>2
  <2> QED
    BY <2>2, <2>3 DEF InitIn
<1> QED
  BY <1>1, <1>3, <1>4, <1>5, <1>6

LEMMA EmptyQueue == << >> \in Seq(PowerMessages) /\ ~InitIn(<< >>) /\ OneInit(<< >>)
  BY DEF InitIn, OneInit

LEMMA QuietMeans ==
  ASSUME PowerTypeOK, NoAnswerDue
  PROVE  Finished(off) /\ ~resetSem /\ ~HasInit
<1>1. busToHost \in Seq(PowerMessages)
  BY DEF PowerTypeOK, PowerMessages
<1>2. DOMAIN busToHost = 1..Len(busToHost)
  BY <1>1
<1> QED
  BY <1>2 DEF NoAnswerDue, HasInit, InitIn

LEMMA AlertsMove ==
  ASSUME NEW S, NEW f \in [S -> Nat], NEW a \in S, NEW b \in S, f[a] > 0
  PROVE  /\ Move(f, a, b) \in [S -> Nat] /\ End(f, a) \in [S -> Nat]
         /\ [f EXCEPT ![a] = @ + 1] \in [S -> Nat]
  BY DEF Move, End

-----------------------------------------------------------------------------

LEMMA PowerSaveStartKeeps ==
  ASSUME PowerInv, PowerSaveStart
  PROVE  PowerInv'
<1>1. PowerTypeOK'
  BY PowerBoundsAssumption DEF PowerInv, PowerTypeOK, PowerSaveStart, slaveVars
<1>2. HostStates'
  BY DEF PowerInv, HostStates, PowerSaveStart, slaveVars
<1>3. OneAnswer'
  BY DEF PowerInv, OneAnswer, PowerSaveStart, Finished, HasInit, slaveVars
<1>4. AnswerExpected'
  BY DEF PowerInv, AnswerExpected, PowerSaveStart, Finished, HasInit, NobodyLoops,
       slaveVars, Looping
<1>5. FreshSlave'
  BY DEF PowerInv, FreshSlave, PowerSaveStart, Finished, HasInit, NoSem, slaveVars
<1>6. Listening'
  BY DEF PowerInv, Listening, PowerSaveStart, Finished, NobodyLoops, slaveVars, Looping
<1>7. LoopsForAReason'
  BY DEF PowerInv, LoopsForAReason, PowerSaveStart, NoSem, NobodyLoops, slaveVars, Looping
<1>8. SleepBelieved'
  BY DEF PowerInv, SleepBelieved, PowerSaveStart, Unannounced, Finished, slaveVars,
       HasInit
<1>9. TokenTellsAwake'
  BY DEF PowerInv, TokenTellsAwake, PowerSaveStart, Finished, slaveVars
<1> QED
  BY <1>1, <1>2, <1>3, <1>4, <1>5, <1>6, <1>7, <1>8, <1>9 DEF PowerInv

LEMMA PowerSaveTeardownKeeps ==
  ASSUME PowerInv, PowerSaveTeardown
  PROVE  PowerInv'
<1>1. PowerTypeOK'
  BY DEF PowerInv, PowerTypeOK, PowerSaveTeardown, NoSem, OnPhases, OffPhases, Looping,
       slaveVars
<1>2. HostStates'
  BY DEF PowerInv, HostStates, PowerSaveTeardown, slaveVars
<1>3. OneAnswer'
  BY DEF PowerInv, OneAnswer, PowerSaveTeardown, Finished, HasInit, slaveVars
<1>4. AnswerExpected'
  BY DEF PowerInv, AnswerExpected, PowerSaveTeardown, Finished, HasInit, NobodyLoops,
       slaveVars, Looping
<1>5. FreshSlave'
  BY DEF PowerInv, FreshSlave, PowerSaveTeardown, Finished, HasInit, NoSem, slaveVars
<1>6. Listening'
  BY DEF PowerInv, Listening, PowerSaveTeardown, Finished, NobodyLoops, slaveVars, Looping
<1>7. LoopsForAReason'
  BY DEF PowerInv, LoopsForAReason, PowerSaveTeardown, NoSem, NobodyLoops, slaveVars,
       Looping
<1>8. SleepBelieved'
  BY DEF PowerInv, SleepBelieved, PowerSaveTeardown, Unannounced, Finished, slaveVars,
       HasInit
<1>9. TokenTellsAwake'
  BY DEF PowerInv, TokenTellsAwake, PowerSaveTeardown, Finished, slaveVars
<1> QED
  BY <1>1, <1>2, <1>3, <1>4, <1>5, <1>6, <1>7, <1>8, <1>9 DEF PowerInv

LEMMA PowerSaveFailKeeps ==
  ASSUME PowerInv, PowerSaveFail
  PROVE  PowerInv'
<1>1. PowerTypeOK'
  BY DEF PowerInv, PowerTypeOK, PowerSaveFail, NoSem, OnPhases, OffPhases, Looping,
       slaveVars
<1>2. HostStates'
  BY DEF PowerInv, HostStates, PowerSaveFail, slaveVars
<1>3. OneAnswer'
  BY DEF PowerInv, OneAnswer, PowerSaveFail, Finished, HasInit, slaveVars
<1>4. AnswerExpected'
  BY DEF PowerInv, AnswerExpected, PowerSaveFail, Finished, HasInit, NobodyLoops,
       slaveVars, Looping
<1>5. FreshSlave'
  BY DEF PowerInv, FreshSlave, PowerSaveFail, Finished, HasInit, NoSem, slaveVars
<1>6. Listening'
  BY DEF PowerInv, Listening, PowerTypeOK, HostStates, PowerSaveFail, Finished,
       NobodyLoops, NoSem, OnPhases, OffPhases, Looping, slaveVars
<1>7. LoopsForAReason'
  BY DEF PowerInv, LoopsForAReason, PowerSaveFail, NoSem, NobodyLoops, slaveVars, Looping
<1>8. SleepBelieved'
  BY DEF PowerInv, SleepBelieved, PowerSaveFail, Unannounced, Finished, slaveVars, HasInit
<1>9. TokenTellsAwake'
  BY DEF PowerInv, TokenTellsAwake, PowerSaveFail, Finished, slaveVars
<1> QED
  BY <1>1, <1>2, <1>3, <1>4, <1>5, <1>6, <1>7, <1>8, <1>9 DEF PowerInv

LEMMA DeepSleepKeeps ==
  ASSUME PowerInv, DeepSleep
  PROVE  PowerInv'
<1>1. PowerTypeOK'
  BY DEF PowerInv, PowerTypeOK, DeepSleep, NoSem, OnPhases, OffPhases, Looping, slaveVars
<1>2. HostStates'
  BY DEF PowerInv, HostStates, DeepSleep, slaveVars
<1>3. OneAnswer'
  BY DEF PowerInv, OneAnswer, DeepSleep, Finished, HasInit, slaveVars
<1>4. AnswerExpected'
  BY DEF PowerInv, AnswerExpected, DeepSleep, Finished, HasInit, NobodyLoops, slaveVars,
       Looping
<1>5. FreshSlave'
  BY DEF PowerInv, FreshSlave, DeepSleep, Finished, HasInit, NoSem, slaveVars
<1>6. Listening'
  BY DEF PowerInv, Listening, DeepSleep, Finished, NobodyLoops, slaveVars, Looping
<1>7. LoopsForAReason'
  BY DEF PowerInv, LoopsForAReason, DeepSleep, NoSem, NobodyLoops, slaveVars, Looping
<1>8. SleepBelieved'
  <2>1. pin => ~NobodyLoops
    BY DEF PowerInv, LoopsForAReason, NobodyLoops, Looping
  <2>2. Finished(off)
    BY DEF PowerInv, AnswerExpected, DeepSleep
  <2>3. off["give"] = 0 /\ off["sleep"] = 0
    BY <2>2 DEF PowerInv, PowerTypeOK, Finished, OffPhases
  <2>4. pin => saving
    BY <2>1, <2>3 DEF PowerInv, LoopsForAReason
  <2> QED
    BY <2>4 DEF SleepBelieved, Unannounced, DeepSleep, slaveVars
<1>9. TokenTellsAwake'
  BY DEF PowerInv, TokenTellsAwake, DeepSleep, Finished, slaveVars
<1> QED
  BY <1>1, <1>2, <1>3, <1>4, <1>5, <1>6, <1>7, <1>8, <1>9 DEF PowerInv

LEMMA ReceiveNoticeKeeps ==
  ASSUME PowerInv, ReceiveNotice
  PROVE  PowerInv'
<1>0. on' \in [OnPhases -> Nat]
  BY AlertsMove DEF PowerInv, PowerTypeOK, ReceiveNotice, OnPhases
<1>1. PowerTypeOK'
  BY <1>0 DEF PowerInv, PowerTypeOK, ReceiveNotice, NoSem, OnPhases, OffPhases, Looping
<1>2. HostStates'
  BY <1>0 DEF PowerInv, HostStates, ReceiveNotice
<1>3. OneAnswer'
  BY <1>0 DEF PowerInv, OneAnswer, ReceiveNotice, Finished, HasInit
<1>4. AnswerExpected'
  BY <1>0 DEF PowerInv, AnswerExpected, PowerTypeOK, HostStates, ReceiveNotice, Finished,
       HasInit, NobodyLoops, NoSem, OnPhases, OffPhases, Looping
<1>5. FreshSlave'
  BY <1>0 DEF PowerInv, FreshSlave, PowerTypeOK, HostStates, ReceiveNotice, Finished,
       HasInit, NoSem, OnPhases, OffPhases, Looping
<1>6. Listening'
  BY <1>0 DEF PowerInv, Listening, ReceiveNotice, Finished, NobodyLoops, Looping
<1>7. LoopsForAReason'
  BY <1>0 DEF PowerInv, LoopsForAReason, ReceiveNotice, NoSem, NobodyLoops, Looping
<1>8. SleepBelieved'
  BY <1>0 DEF PowerInv, SleepBelieved, PowerTypeOK, ReceiveNotice, Unannounced, Finished,
       NoSem, OnPhases, OffPhases, Looping, HasInit
<1>9. TokenTellsAwake'
  BY <1>0 DEF PowerInv, TokenTellsAwake, PowerTypeOK, ReceiveNotice, Finished, NoSem,
       OnPhases, OffPhases, Looping
<1> QED
  BY <1>1, <1>2, <1>3, <1>4, <1>5, <1>6, <1>7, <1>8, <1>9 DEF PowerInv

LEMMA AlertOnTakeKeeps ==
  ASSUME PowerInv, AlertOnTake
  PROVE  PowerInv'
<1>0. on' \in [OnPhases -> Nat]
  BY AlertsMove DEF PowerInv, PowerTypeOK, AlertOnTake, OnPhases
<1>1. PowerTypeOK'
  BY <1>0 DEF PowerInv, PowerTypeOK, AlertOnTake, NoSem, OnPhases, OffPhases, Looping,
       Move, hostPowerVars
<1>2. HostStates'
  BY <1>0 DEF PowerInv, HostStates, AlertOnTake, Move, NoSem, hostPowerVars
<1>3. OneAnswer'
  BY <1>0 DEF PowerInv, OneAnswer, AlertOnTake, Finished, HasInit, Move, NoSem,
       hostPowerVars
<1>4. AnswerExpected'
  BY <1>0 DEF PowerInv, AnswerExpected, PowerTypeOK, AlertOnTake, Finished, HasInit,
       NobodyLoops, NoSem, OnPhases, OffPhases, Looping, Move, hostPowerVars
<1>5. FreshSlave'
  BY <1>0 DEF PowerInv, FreshSlave, PowerTypeOK, AlertOnTake, Finished, HasInit, NoSem,
       OnPhases, OffPhases, Looping, Move, hostPowerVars
<1>6. Listening'
  BY <1>0 DEF PowerInv, Listening, PowerTypeOK, AlertOnTake, Finished, NobodyLoops, NoSem,
       OnPhases, OffPhases, Looping, Move, hostPowerVars
<1>7. LoopsForAReason'
  <2>1. ~Finished(on)
    BY DEF PowerInv, PowerTypeOK, AlertOnTake, Finished, OnPhases
  <2>2. slave = "run"
    BY <2>1 DEF PowerInv, FreshSlave, PowerTypeOK
  <2>3. sem' = 0
    BY <2>2 DEF PowerInv, LoopsForAReason, AlertOnTake
  <2> QED
    BY <2>3 DEF PowerInv, LoopsForAReason, NobodyLoops, AlertOnTake, NoSem
<1>8. SleepBelieved'
  BY <1>0 DEF PowerInv, SleepBelieved, PowerTypeOK, AlertOnTake, Unannounced, Finished,
       NoSem, OnPhases, OffPhases, Looping, Move, hostPowerVars, HasInit
<1>9. TokenTellsAwake'
  BY <1>0 DEF PowerInv, TokenTellsAwake, PowerTypeOK, AlertOnTake, Finished, NoSem,
       OnPhases, OffPhases, Looping, Move, hostPowerVars
<1> QED
  BY <1>1, <1>2, <1>3, <1>4, <1>5, <1>6, <1>7, <1>8, <1>9 DEF PowerInv

LEMMA AlertOnSetKeeps ==
  ASSUME PowerInv, AlertOnSet
  PROVE  PowerInv'
<1>0. on' \in [OnPhases -> Nat]
  BY AlertsMove DEF PowerInv, PowerTypeOK, AlertOnSet, OnPhases
<1>1. PowerTypeOK'
  BY <1>0 DEF PowerInv, PowerTypeOK, AlertOnSet, NoSem, OnPhases, OffPhases, Looping, End,
       hostPowerVars
<1>2. HostStates'
  BY <1>0 DEF PowerInv, HostStates, AlertOnSet, End, hostPowerVars
<1>3. OneAnswer'
  BY <1>0 DEF PowerInv, OneAnswer, AlertOnSet, Finished, HasInit, End, hostPowerVars
<1>4. AnswerExpected'
  BY <1>0 DEF PowerInv, AnswerExpected, PowerTypeOK, AlertOnSet, Finished, HasInit,
       NobodyLoops, NoSem, OnPhases, OffPhases, Looping, End, hostPowerVars
<1>5. FreshSlave'
  BY <1>0 DEF PowerInv, FreshSlave, AlertOnSet, Finished, HasInit, NoSem, End,
       hostPowerVars
<1>6. Listening'
  BY <1>0 DEF PowerInv, Listening, AlertOnSet, Finished, NobodyLoops, End, hostPowerVars,
       Looping
<1>7. LoopsForAReason'
  BY <1>0 DEF PowerInv, LoopsForAReason, AlertOnSet, NoSem, NobodyLoops, End,
       hostPowerVars, Looping
<1>8. SleepBelieved'
  BY <1>0 DEF PowerInv, SleepBelieved, AlertOnSet, Unannounced, Finished, End,
       hostPowerVars, HasInit
<1>9. TokenTellsAwake'
  <2>1. ~Finished(on) /\ sem = 0
    BY DEF PowerInv, PowerTypeOK, LoopsForAReason, AlertOnSet, Finished, OnPhases
  <2>2. Finished(off)
    BY <2>1 DEF PowerInv, AnswerExpected
  <2>3. ~(off["sleep"] > 0)
    BY <2>2 DEF PowerInv, PowerTypeOK, Finished, OffPhases
  <2>4. \A t \in Tasks : pc[t] # "give"
    BY <2>3 DEF PowerInv, LoopsForAReason
  <2> QED
    BY <2>1, <2>4 DEF TokenTellsAwake, AlertOnSet
<1> QED
  BY <1>1, <1>2, <1>3, <1>4, <1>5, <1>6, <1>7, <1>8, <1>9 DEF PowerInv

LEMMA AlertOffClearKeeps ==
  ASSUME PowerInv, AlertOffClear
  PROVE  PowerInv'
<1>0. off' \in [OffPhases -> Nat]
  BY AlertsMove DEF PowerInv, PowerTypeOK, AlertOffClear, OffPhases
<1>1. PowerTypeOK'
  BY <1>0 DEF PowerInv, PowerTypeOK, AlertOffClear, NoSem, OnPhases, OffPhases, Looping,
       Move, hostPowerVars
<1>2. HostStates'
  BY <1>0 DEF PowerInv, HostStates, AlertOffClear, Move, hostPowerVars
<1>3. OneAnswer'
  <2>1. off \in [OffPhases -> Nat] /\ {"start", "give", "sleep"} = OffPhases
    BY DEF PowerInv, PowerTypeOK, OffPhases
  <2>2. /\ off'["start"] = off["start"] - 1 /\ off'["give"] = off["give"] + 1
        /\ off'["sleep"] = off["sleep"]
    BY <2>1 DEF AlertOffClear, Move
  <2>3. off'["start"] + off'["give"] + off'["sleep"] <= 1
    BY <2>1, <2>2 DEF PowerInv, OneAnswer
  <2>4. ~resetSem /\ ~HasInit /\ OneInit(busToHost)
    BY <2>1 DEF PowerInv, OneAnswer, AlertOffClear, Finished
  <2>5. UNCHANGED <<busToHost, resetSem>>
    BY DEF AlertOffClear
  <2> QED
    BY <2>3, <2>4, <2>5 DEF OneAnswer, HasInit
<1>4. AnswerExpected'
  BY <1>0 DEF PowerInv, AnswerExpected, PowerTypeOK, HostStates, OneAnswer, AlertOffClear,
       Finished, HasInit, NobodyLoops, NoSem, OnPhases, OffPhases, Looping, Move,
       hostPowerVars
<1>5. FreshSlave'
  BY <1>0 DEF PowerInv, FreshSlave, PowerTypeOK, AlertOffClear, Finished, HasInit, NoSem,
       OnPhases, OffPhases, Looping, Move, hostPowerVars
<1>6. Listening'
  BY <1>0 DEF PowerInv, Listening, AlertOffClear, Finished, NobodyLoops, Move,
       hostPowerVars, Looping
<1>7. LoopsForAReason'
  <2>1. ~Finished(off) /\ saving
    BY DEF PowerInv, PowerTypeOK, AnswerExpected, AlertOffClear, Finished, OffPhases
  <2>2. slave = "run"
    BY <2>1 DEF PowerInv, FreshSlave, PowerTypeOK
  <2>3. sem = 0
    BY <2>1, <2>2 DEF PowerInv, PowerTypeOK, LoopsForAReason, TokenTellsAwake
  <2>4. off'["give"] > 0 /\ off'["sleep"] = off["sleep"]
    <3>1. off \in [OffPhases -> Nat] /\ {"start", "give", "sleep"} = OffPhases
      BY DEF PowerInv, PowerTypeOK, OffPhases
    <3>2. off'["give"] = off["give"] + 1
      BY <3>1 DEF AlertOffClear, Move
    <3>3. off'["sleep"] = off["sleep"]
      BY <3>1 DEF AlertOffClear, Move
    <3> QED
      BY <3>1, <3>2, <3>3
  <2> QED
    BY <2>2, <2>3, <2>4 DEF PowerInv, LoopsForAReason, NobodyLoops, AlertOffClear, NoSem
<1>8. SleepBelieved'
  BY <1>0 DEF PowerInv, SleepBelieved, PowerTypeOK, HostStates, AnswerExpected,
       AlertOffClear, Unannounced, Finished, NoSem, OnPhases, OffPhases, Looping, HasInit,
       NobodyLoops, Move, hostPowerVars
<1>9. TokenTellsAwake'
  BY <1>0 DEF PowerInv, TokenTellsAwake, PowerTypeOK, AlertOffClear, Finished, NoSem,
       OnPhases, OffPhases, Looping, Move, hostPowerVars
<1> QED
  BY <1>1, <1>2, <1>3, <1>4, <1>5, <1>6, <1>7, <1>8, <1>9 DEF PowerInv

LEMMA AlertOffGiveKeeps ==
  ASSUME PowerInv, AlertOffGive
  PROVE  PowerInv'
<1>0. off' \in [OffPhases -> Nat]
  BY AlertsMove DEF PowerInv, PowerTypeOK, AlertOffGive, OffPhases
<1>1. PowerTypeOK'
  BY <1>0 DEF PowerInv, PowerTypeOK, AlertOffGive, NoSem, OnPhases, OffPhases, Looping,
       Move, hostPowerVars
<1>2. HostStates'
  BY <1>0 DEF PowerInv, HostStates, AlertOffGive, Move, NoSem, hostPowerVars
<1>3. OneAnswer'
  <2>1. off \in [OffPhases -> Nat] /\ {"start", "give", "sleep"} = OffPhases
    BY DEF PowerInv, PowerTypeOK, OffPhases
  <2>2. /\ off'["give"] = off["give"] - 1 /\ off'["sleep"] = off["sleep"] + 1
        /\ off'["start"] = off["start"]
    BY <2>1 DEF AlertOffGive, Move
  <2>3. off'["start"] + off'["give"] + off'["sleep"] <= 1
    BY <2>1, <2>2 DEF PowerInv, OneAnswer
  <2>4. ~resetSem /\ ~HasInit /\ OneInit(busToHost)
    BY <2>1 DEF PowerInv, OneAnswer, AlertOffGive, Finished
  <2>5. UNCHANGED <<busToHost, resetSem>>
    BY DEF AlertOffGive
  <2> QED
    BY <2>3, <2>4, <2>5 DEF OneAnswer, HasInit
<1>4. AnswerExpected'
  BY <1>0 DEF PowerInv, AnswerExpected, PowerTypeOK, AlertOffGive, Finished, HasInit,
       NobodyLoops, NoSem, OnPhases, OffPhases, Looping, Move, hostPowerVars
<1>5. FreshSlave'
  BY <1>0 DEF PowerInv, FreshSlave, PowerTypeOK, AlertOffGive, Finished, HasInit, NoSem,
       OnPhases, OffPhases, Looping, Move, hostPowerVars
<1>6. Listening'
  BY <1>0 DEF PowerInv, Listening, AlertOffGive, Finished, NobodyLoops, Move, NoSem,
       hostPowerVars, Looping
<1>7. LoopsForAReason'
  BY <1>0 DEF PowerInv, LoopsForAReason, PowerTypeOK, HostStates, OneAnswer,
       AnswerExpected, AlertOffGive, NoSem, NobodyLoops, OnPhases, OffPhases, Looping,
       Finished, HasInit, Move, hostPowerVars
<1>8. SleepBelieved'
  BY <1>0 DEF PowerInv, SleepBelieved, PowerTypeOK, AlertOffGive, Unannounced, Finished,
       NoSem, OnPhases, OffPhases, Looping, Move, hostPowerVars, HasInit
<1>9. TokenTellsAwake'
  <2>1. ~Finished(off) /\ ~saving
    BY DEF PowerInv, PowerTypeOK, AnswerExpected, AlertOffGive, Finished, OffPhases
  <2>2. slave = "run"
    BY <2>1 DEF PowerInv, FreshSlave, PowerTypeOK
  <2>3. sem' = 1
    BY <2>2 DEF PowerInv, LoopsForAReason, AlertOffGive
  <2> QED
    BY <2>1, <2>3 DEF PowerInv, TokenTellsAwake, AlertOffGive
<1> QED
  BY <1>1, <1>2, <1>3, <1>4, <1>5, <1>6, <1>7, <1>8, <1>9 DEF PowerInv

LEMMA AlertOffResetKeeps ==
  ASSUME PowerInv, AlertOffReset
  PROVE  PowerInv'
<1>0. off' \in [OffPhases -> Nat]
  BY AlertsMove DEF PowerInv, PowerTypeOK, AlertOffReset, OffPhases
<1>1. PowerTypeOK'
  BY <1>0 DEF PowerInv, PowerTypeOK, AlertOffReset, NoSem, OnPhases, OffPhases, Looping,
       End, hostPowerVars
<1>2. HostStates'
  BY <1>0 DEF PowerInv, HostStates, AlertOffReset, Looping, End, hostPowerVars
<1>3. OneAnswer'
  BY <1>0 DEF PowerInv, OneAnswer, PowerTypeOK, AlertOffReset, Finished, HasInit, NoSem,
       OnPhases, OffPhases, Looping, End, hostPowerVars
<1>4. AnswerExpected'
  BY <1>0 DEF PowerInv, AnswerExpected, AlertOffReset, Finished, HasInit, NobodyLoops,
       Looping, End, hostPowerVars
<1>5. FreshSlave'
  BY <1>0 DEF PowerInv, FreshSlave, AlertOffReset, Finished, HasInit, NoSem, Looping, End,
       hostPowerVars
<1>6. Listening'
  BY <1>0 DEF PowerInv, Listening, AlertOffReset, Finished, NobodyLoops, Looping, End,
       hostPowerVars
<1>7. LoopsForAReason'
  BY <1>0 DEF PowerInv, LoopsForAReason, AlertOffReset, NoSem, NobodyLoops, Looping, End,
       hostPowerVars
<1>8. SleepBelieved'
  BY <1>0 DEF PowerInv, SleepBelieved, AlertOffReset, Unannounced, Finished, Looping, End,
       hostPowerVars, HasInit
<1>9. TokenTellsAwake'
  BY <1>0 DEF PowerInv, TokenTellsAwake, AlertOffReset, Finished, Looping, End,
       hostPowerVars
<1> QED
  BY <1>1, <1>2, <1>3, <1>4, <1>5, <1>6, <1>7, <1>8, <1>9 DEF PowerInv

LEMMA HostResetKeeps ==
  ASSUME PowerInv, HostReset
  PROVE  PowerInv'
<1>0. busToHost' \in Seq(PowerMessages) /\ InitIn(busToHost') /\ OneInit(busToHost')
  BY InitQueued DEF PowerInv, PowerTypeOK, OneAnswer, HasInit, PowerMessages, HostReset
<1>1. PowerTypeOK'
  BY <1>0 DEF PowerInv, PowerTypeOK, PowerMessages, HostReset, hostPowerVars
<1>2. HostStates'
  BY <1>0 DEF PowerInv, HostStates, HostReset, hostPowerVars
<1>3. OneAnswer'
  BY <1>0 DEF PowerInv, OneAnswer, HostReset, Finished, HasInit, hostPowerVars
<1>4. AnswerExpected'
  BY <1>0 DEF PowerInv, AnswerExpected, HostReset, Finished, HasInit, NobodyLoops,
       hostPowerVars, Looping
<1>5. FreshSlave'
  BY <1>0 DEF PowerInv, FreshSlave, HostReset, Finished, HasInit, NoSem, hostPowerVars
<1>6. Listening'
  BY <1>0 DEF PowerInv, Listening, HostReset, Finished, NobodyLoops, hostPowerVars,
       Looping
<1>7. LoopsForAReason'
  BY <1>0 DEF PowerInv, LoopsForAReason, HostReset, NoSem, NobodyLoops, hostPowerVars,
       Looping
<1>8. SleepBelieved'
  BY <1>0 DEF PowerInv, SleepBelieved, HostReset, Unannounced, Finished, hostPowerVars,
       HasInit
<1>9. TokenTellsAwake'
  BY <1>0 DEF PowerInv, TokenTellsAwake, HostReset, Finished, hostPowerVars
<1> QED
  BY <1>1, <1>2, <1>3, <1>4, <1>5, <1>6, <1>7, <1>8, <1>9 DEF PowerInv

LEMMA TaskSendKeeps ==
  ASSUME PowerInv, NEW t \in Tasks, TaskSend(t)
  PROVE  PowerInv'
<1>1. PowerTypeOK'
  BY PowerBoundsAssumption DEF PowerInv, PowerTypeOK, TaskSend, TaskGoes, hostPowerVars
<1>2. HostStates'
  BY DEF PowerInv, HostStates, TaskSend, TaskGoes, hostPowerVars
<1>3. OneAnswer'
  BY DEF PowerInv, OneAnswer, TaskSend, Finished, HasInit, TaskGoes, hostPowerVars
<1>4. AnswerExpected'
  BY DEF PowerInv, AnswerExpected, TaskSend, Finished, HasInit, NobodyLoops, TaskGoes,
       hostPowerVars, Looping
<1>5. FreshSlave'
  BY DEF PowerInv, FreshSlave, TaskSend, Finished, HasInit, NoSem, TaskGoes, hostPowerVars
<1>6. Listening'
  BY DEF PowerInv, Listening, TaskSend, Finished, NobodyLoops, TaskGoes, hostPowerVars,
       Looping
<1>7. LoopsForAReason'
  BY DEF PowerInv, LoopsForAReason, TaskSend, NoSem, NobodyLoops, TaskGoes, hostPowerVars,
       Looping
<1>8. SleepBelieved'
  BY DEF PowerInv, SleepBelieved, TaskSend, Unannounced, Finished, TaskGoes,
       hostPowerVars, HasInit
<1>9. TokenTellsAwake'
  BY DEF PowerInv, TokenTellsAwake, TaskSend, Finished, TaskGoes, hostPowerVars
<1> QED
  BY <1>1, <1>2, <1>3, <1>4, <1>5, <1>6, <1>7, <1>8, <1>9 DEF PowerInv

LEMMA TaskCheckKeeps ==
  ASSUME PowerInv, NEW t \in Tasks, TaskCheck(t)
  PROVE  PowerInv'
<1>1. PowerTypeOK'
  BY DEF PowerInv, PowerTypeOK, TaskCheck, NoSem, OnPhases, OffPhases, Looping, TaskGoes,
       hostPowerVars
<1>2. HostStates'
  BY DEF PowerInv, HostStates, TaskCheck, TaskGoes, hostPowerVars
<1>3. OneAnswer'
  BY DEF PowerInv, OneAnswer, TaskCheck, Finished, HasInit, TaskGoes, hostPowerVars
<1>4. AnswerExpected'
  BY DEF PowerInv, AnswerExpected, TaskCheck, Finished, HasInit, NobodyLoops, TaskGoes,
       hostPowerVars, Looping
<1>5. FreshSlave'
  BY DEF PowerInv, FreshSlave, TaskCheck, Finished, HasInit, NoSem, TaskGoes,
       hostPowerVars
<1>6. Listening'
  BY DEF PowerInv, Listening, TaskCheck, Finished, NobodyLoops, TaskGoes, hostPowerVars,
       Looping
<1>7. LoopsForAReason'
  BY DEF PowerInv, LoopsForAReason, TaskCheck, NoSem, NobodyLoops, TaskGoes,
       hostPowerVars, Looping
<1>8. SleepBelieved'
  BY DEF PowerInv, SleepBelieved, TaskCheck, Unannounced, Finished, TaskGoes,
       hostPowerVars, HasInit
<1>9. TokenTellsAwake'
  BY DEF PowerInv, TokenTellsAwake, TaskCheck, Finished, TaskGoes, hostPowerVars
<1> QED
  BY <1>1, <1>2, <1>3, <1>4, <1>5, <1>6, <1>7, <1>8, <1>9 DEF PowerInv

LEMMA TaskRecheckKeeps ==
  ASSUME PowerInv, NEW t \in Tasks, TaskRecheck(t)
  PROVE  PowerInv'
<1>1. PowerTypeOK'
  BY DEF PowerInv, PowerTypeOK, TaskRecheck, NoSem, OnPhases, OffPhases, Looping,
       TaskGoes, hostPowerVars
<1>2. HostStates'
  BY DEF PowerInv, HostStates, TaskRecheck, TaskGoes, hostPowerVars
<1>3. OneAnswer'
  BY DEF PowerInv, OneAnswer, TaskRecheck, Finished, HasInit, TaskGoes, hostPowerVars
<1>4. AnswerExpected'
  BY DEF PowerInv, AnswerExpected, TaskRecheck, Finished, HasInit, NobodyLoops, TaskGoes,
       hostPowerVars, Looping
<1>5. FreshSlave'
  BY DEF PowerInv, FreshSlave, TaskRecheck, Finished, HasInit, NoSem, TaskGoes,
       hostPowerVars
<1>6. Listening'
  BY DEF PowerInv, Listening, TaskRecheck, Finished, NobodyLoops, TaskGoes, hostPowerVars,
       Looping
<1>7. LoopsForAReason'
  BY DEF PowerInv, LoopsForAReason, TaskRecheck, NoSem, NobodyLoops, TaskGoes,
       hostPowerVars, Looping
<1>8. SleepBelieved'
  BY DEF PowerInv, SleepBelieved, TaskRecheck, Unannounced, Finished, TaskGoes,
       hostPowerVars, HasInit
<1>9. TokenTellsAwake'
  BY DEF PowerInv, TokenTellsAwake, TaskRecheck, Finished, TaskGoes, hostPowerVars
<1> QED
  BY <1>1, <1>2, <1>3, <1>4, <1>5, <1>6, <1>7, <1>8, <1>9 DEF PowerInv

LEMMA TaskDropKeeps ==
  ASSUME PowerInv, NEW t \in Tasks, TaskDrop(t)
  PROVE  PowerInv'
<1>1. PowerTypeOK'
  BY DEF PowerInv, PowerTypeOK, TaskDrop, NoSem, OnPhases, OffPhases, Looping, TaskGoes,
       hostPowerVars
<1>2. HostStates'
  BY DEF PowerInv, HostStates, TaskDrop, TaskGoes, hostPowerVars
<1>3. OneAnswer'
  BY DEF PowerInv, OneAnswer, TaskDrop, Finished, HasInit, TaskGoes, hostPowerVars
<1>4. AnswerExpected'
  BY DEF PowerInv, AnswerExpected, TaskDrop, Finished, HasInit, NobodyLoops, TaskGoes,
       hostPowerVars, Looping
<1>5. FreshSlave'
  BY DEF PowerInv, FreshSlave, TaskDrop, Finished, HasInit, NoSem, TaskGoes, hostPowerVars
<1>6. Listening'
  BY DEF PowerInv, Listening, TaskDrop, Finished, NobodyLoops, TaskGoes, hostPowerVars,
       Looping
<1>7. LoopsForAReason'
  BY DEF PowerInv, LoopsForAReason, TaskDrop, NoSem, NobodyLoops, TaskGoes, hostPowerVars,
       Looping
<1>8. SleepBelieved'
  BY DEF PowerInv, SleepBelieved, TaskDrop, Unannounced, Finished, TaskGoes,
       hostPowerVars, HasInit
<1>9. TokenTellsAwake'
  BY DEF PowerInv, TokenTellsAwake, TaskDrop, Finished, TaskGoes, hostPowerVars
<1> QED
  BY <1>1, <1>2, <1>3, <1>4, <1>5, <1>6, <1>7, <1>8, <1>9 DEF PowerInv

LEMMA TaskRaiseKeeps ==
  ASSUME PowerInv, NEW t \in Tasks, TaskRaise(t)
  PROVE  PowerInv'
<1>1. PowerTypeOK'
  BY DEF PowerInv, PowerTypeOK, TaskRaise, NoSem, OnPhases, OffPhases, Looping, TaskGoes,
       LoseHostRam, hostPowerVars
<1>2. HostStates'
  BY DEF PowerInv, HostStates, TaskRaise, TaskGoes, LoseHostRam, hostPowerVars
<1>3. OneAnswer'
  BY DEF PowerInv, OneAnswer, TaskRaise, Finished, HasInit, TaskGoes, LoseHostRam,
       hostPowerVars
<1>4. AnswerExpected'
  BY DEF PowerInv, AnswerExpected, PowerTypeOK, HostStates, TaskRaise, Finished, HasInit,
       NobodyLoops, NoSem, OnPhases, OffPhases, Looping, TaskGoes, LoseHostRam,
       hostPowerVars
<1>5. FreshSlave'
  BY DEF PowerInv, FreshSlave, TaskRaise, Finished, HasInit, NoSem, TaskGoes, LoseHostRam,
       hostPowerVars
<1>6. Listening'
  BY DEF PowerInv, Listening, TaskRaise, Finished, NobodyLoops, TaskGoes, LoseHostRam,
       hostPowerVars, Looping
<1>7. LoopsForAReason'
  BY DEF PowerInv, LoopsForAReason, PowerTypeOK, TaskRaise, NoSem, NobodyLoops, OnPhases,
       OffPhases, Looping, TaskGoes, LoseHostRam, hostPowerVars
<1>8. SleepBelieved'
  <2>1. ~NobodyLoops
    BY DEF NobodyLoops, Looping, TaskRaise, TaskGoes
  <2>2. host = "asleep" => Finished(off)
    BY DEF PowerInv, AnswerExpected
  <2>3. host = "asleep" => off["give"] = 0 /\ off["sleep"] = 0
    BY <2>2 DEF PowerInv, PowerTypeOK, Finished, OffPhases
  <2>4. host = "asleep" => saving
    BY <2>1, <2>3 DEF PowerInv, LoopsForAReason
  <2> QED
    BY <2>4 DEF PowerInv, SleepBelieved, Unannounced, HasInit, TaskRaise, LoseHostRam,
         hostPowerVars, Finished
<1>9. TokenTellsAwake'
  BY DEF PowerInv, TokenTellsAwake, TaskRaise, Finished, TaskGoes, LoseHostRam,
       hostPowerVars
<1> QED
  BY <1>1, <1>2, <1>3, <1>4, <1>5, <1>6, <1>7, <1>8, <1>9 DEF PowerInv

LEMMA TaskLowerKeeps ==
  ASSUME PowerInv, NEW t \in Tasks, TaskLower(t)
  PROVE  PowerInv'
<1>1. PowerTypeOK'
  BY DEF PowerInv, PowerTypeOK, TaskLower, NoSem, OnPhases, OffPhases, Looping, TaskGoes,
       hostPowerVars
<1>2. HostStates'
  BY DEF PowerInv, HostStates, TaskLower, TaskGoes, hostPowerVars
<1>3. OneAnswer'
  BY DEF PowerInv, OneAnswer, TaskLower, Finished, HasInit, TaskGoes, hostPowerVars
<1>4. AnswerExpected'
  BY DEF PowerInv, AnswerExpected, TaskLower, Finished, HasInit, NobodyLoops, TaskGoes,
       hostPowerVars, Looping
<1>5. FreshSlave'
  BY DEF PowerInv, FreshSlave, TaskLower, Finished, HasInit, NoSem, TaskGoes,
       hostPowerVars
<1>6. Listening'
  BY DEF PowerInv, Listening, TaskLower, Finished, NobodyLoops, TaskGoes, hostPowerVars,
       Looping
<1>7. LoopsForAReason'
  BY DEF PowerInv, LoopsForAReason, TaskLower, NoSem, NobodyLoops, TaskGoes,
       hostPowerVars, Looping
<1>8. SleepBelieved'
  BY DEF PowerInv, SleepBelieved, TaskLower, Unannounced, Finished, TaskGoes,
       hostPowerVars, HasInit
<1>9. TokenTellsAwake'
  BY DEF PowerInv, TokenTellsAwake, TaskLower, Finished, TaskGoes, hostPowerVars
<1> QED
  BY <1>1, <1>2, <1>3, <1>4, <1>5, <1>6, <1>7, <1>8, <1>9 DEF PowerInv

LEMMA TaskTakeKeeps ==
  ASSUME PowerInv, NEW t \in Tasks, TaskTake(t)
  PROVE  PowerInv'
<1>1. PowerTypeOK'
  BY DEF PowerInv, PowerTypeOK, TaskTake, NoSem, OnPhases, OffPhases, Looping, TaskGoes,
       hostPowerVars
<1>2. HostStates'
  BY DEF PowerInv, HostStates, TaskTake, TaskGoes, hostPowerVars
<1>3. OneAnswer'
  BY DEF PowerInv, OneAnswer, TaskTake, Finished, HasInit, TaskGoes, hostPowerVars
<1>4. AnswerExpected'
  BY DEF PowerInv, AnswerExpected, TaskTake, Finished, HasInit, NobodyLoops, TaskGoes,
       hostPowerVars, Looping
<1>5. FreshSlave'
  BY DEF PowerInv, FreshSlave, TaskTake, Finished, HasInit, NoSem, TaskGoes, hostPowerVars
<1>6. Listening'
  BY DEF PowerInv, Listening, TaskTake, Finished, NobodyLoops, TaskGoes, hostPowerVars,
       Looping
<1>7. LoopsForAReason'
  <2>1. ~NobodyLoops /\ ~saving /\ ~(off["give"] > 0)
    BY DEF PowerInv, LoopsForAReason, TokenTellsAwake, NobodyLoops, Looping, TaskTake,
         TaskGoes
  <2>2. off["sleep"] > 0
    BY <2>1 DEF PowerInv, LoopsForAReason
  <2>3. /\ pc' = [pc EXCEPT ![t] = "give"] /\ pc[t] = "take"
        /\ pc \in [Tasks -> {"idle", "wakeup", "recheck", "drop", "write"} \cup Looping]
    BY DEF PowerInv, PowerTypeOK, TaskTake, TaskGoes
  <2>4. pin => \E u \in Tasks : pc'[u] = "lower"
    BY <2>3 DEF PowerInv, LoopsForAReason
  <2> QED
    BY <2>2, <2>4 DEF LoopsForAReason, TaskTake, NoSem
<1>8. SleepBelieved'
  BY DEF PowerInv, SleepBelieved, TaskTake, Unannounced, Finished, TaskGoes,
       hostPowerVars, HasInit
<1>9. TokenTellsAwake'
  <2>1. ~saving /\ \A u \in Tasks : pc[u] # "give"
    BY DEF PowerInv, LoopsForAReason, TokenTellsAwake, TaskTake
  <2>2. /\ pc' = [pc EXCEPT ![t] = "give"]
        /\ pc \in [Tasks -> {"idle", "wakeup", "recheck", "drop", "write"} \cup Looping]
    BY DEF PowerInv, PowerTypeOK, TaskTake, TaskGoes
  <2>3. pc'[t] = "give" /\ \A u \in Tasks : pc'[u] = "give" => u = t
    BY <2>1, <2>2
  <2> QED
    BY <2>1, <2>3 DEF TokenTellsAwake, TaskTake
<1> QED
  BY <1>1, <1>2, <1>3, <1>4, <1>5, <1>6, <1>7, <1>8, <1>9 DEF PowerInv

LEMMA TaskRetryKeeps ==
  ASSUME PowerInv, NEW t \in Tasks, TaskRetry(t)
  PROVE  PowerInv'
<1>1. PowerTypeOK'
  BY DEF PowerInv, PowerTypeOK, TaskRetry, NoSem, OnPhases, OffPhases, Looping, TaskGoes,
       hostPowerVars
<1>2. HostStates'
  BY DEF PowerInv, HostStates, TaskRetry, TaskGoes, hostPowerVars
<1>3. OneAnswer'
  BY DEF PowerInv, OneAnswer, TaskRetry, Finished, HasInit, TaskGoes, hostPowerVars
<1>4. AnswerExpected'
  BY DEF PowerInv, AnswerExpected, TaskRetry, Finished, HasInit, NobodyLoops, TaskGoes,
       hostPowerVars, Looping
<1>5. FreshSlave'
  BY DEF PowerInv, FreshSlave, TaskRetry, Finished, HasInit, NoSem, TaskGoes,
       hostPowerVars
<1>6. Listening'
  BY DEF PowerInv, Listening, TaskRetry, Finished, NobodyLoops, TaskGoes, hostPowerVars,
       Looping
<1>7. LoopsForAReason'
  BY DEF PowerInv, LoopsForAReason, TaskRetry, NoSem, NobodyLoops, TaskGoes,
       hostPowerVars, Looping
<1>8. SleepBelieved'
  BY DEF PowerInv, SleepBelieved, TaskRetry, Unannounced, Finished, TaskGoes,
       hostPowerVars, HasInit
<1>9. TokenTellsAwake'
  BY DEF PowerInv, TokenTellsAwake, TaskRetry, Finished, TaskGoes, hostPowerVars
<1> QED
  BY <1>1, <1>2, <1>3, <1>4, <1>5, <1>6, <1>7, <1>8, <1>9 DEF PowerInv

LEMMA TaskGiveKeeps ==
  ASSUME PowerInv, NEW t \in Tasks, TaskGive(t)
  PROVE  PowerInv'
<1>1. PowerTypeOK'
  BY DEF PowerInv, PowerTypeOK, TaskGive, NoSem, OnPhases, OffPhases, Looping, TaskGoes,
       hostPowerVars
<1>2. HostStates'
  BY DEF PowerInv, HostStates, TaskGive, TaskGoes, hostPowerVars
<1>3. OneAnswer'
  BY DEF PowerInv, OneAnswer, TaskGive, Finished, HasInit, TaskGoes, hostPowerVars
<1>4. AnswerExpected'
  BY DEF PowerInv, AnswerExpected, TaskGive, Finished, HasInit, NobodyLoops, TaskGoes,
       hostPowerVars, Looping
<1>5. FreshSlave'
  BY DEF PowerInv, FreshSlave, TaskGive, Finished, HasInit, NoSem, TaskGoes, hostPowerVars
<1>6. Listening'
  BY DEF PowerInv, Listening, TaskGive, Finished, NobodyLoops, TaskGoes, hostPowerVars,
       Looping
<1>7. LoopsForAReason'
  <2>1. off["sleep"] > 0
    BY DEF PowerInv, LoopsForAReason, TaskGive, TaskGoes
  <2>2. off["give"] = 0 /\ ~Finished(off)
    BY <2>1 DEF PowerInv, PowerTypeOK, OneAnswer, Finished, OffPhases
  <2>3. on["set"] = 0
    BY <2>2 DEF PowerInv, PowerTypeOK, AnswerExpected, Finished, OnPhases
  <2>4. /\ pc' = [pc EXCEPT ![t] = "write"] /\ pc[t] = "give"
        /\ pc \in [Tasks -> {"idle", "wakeup", "recheck", "drop", "write"} \cup Looping]
    BY DEF PowerInv, PowerTypeOK, TaskGive, TaskGoes
  <2>5. \A u \in Tasks : pc'[u] # "give"
    BY <2>4 DEF PowerInv, TokenTellsAwake
  <2>6. pin => \E u \in Tasks : pc'[u] = "lower"
    BY <2>4 DEF PowerInv, LoopsForAReason
  <2> QED
    BY <2>1, <2>2, <2>3, <2>5, <2>6 DEF LoopsForAReason, TaskGive, NoSem
<1>8. SleepBelieved'
  BY DEF PowerInv, SleepBelieved, TaskGive, Unannounced, Finished, TaskGoes,
       hostPowerVars, HasInit
<1>9. TokenTellsAwake'
  BY DEF PowerInv, TokenTellsAwake, TaskGive, Finished, TaskGoes, hostPowerVars
<1> QED
  BY <1>1, <1>2, <1>3, <1>4, <1>5, <1>6, <1>7, <1>8, <1>9 DEF PowerInv

LEMMA TaskWriteKeeps ==
  ASSUME PowerInv, NEW t \in Tasks, TaskWrite(t)
  PROVE  PowerInv'
<1>0. /\ busToHost' \in Seq(PowerMessages) /\ (InitIn(busToHost') <=> InitIn(busToHost))
    /\ (OneInit(busToHost) => OneInit(busToHost'))
  BY PacketQueued DEF PowerInv, PowerTypeOK, PowerMessages, TaskWrite
<1>1. PowerTypeOK'
  BY <1>0 DEF PowerInv, PowerTypeOK, TaskWrite, NoSem, OnPhases, OffPhases, Looping,
       TaskGoes, hostPowerVars
<1>2. HostStates'
  BY <1>0 DEF PowerInv, HostStates, TaskWrite, TaskGoes, hostPowerVars
<1>3. OneAnswer'
  BY <1>0 DEF PowerInv, OneAnswer, TaskWrite, Finished, HasInit, TaskGoes, hostPowerVars
<1>4. AnswerExpected'
  BY <1>0 DEF PowerInv, AnswerExpected, TaskWrite, Finished, HasInit, NobodyLoops,
       TaskGoes, hostPowerVars, Looping
<1>5. FreshSlave'
  BY <1>0 DEF PowerInv, FreshSlave, TaskWrite, Finished, HasInit, NoSem, TaskGoes,
       hostPowerVars
<1>6. Listening'
  BY <1>0 DEF PowerInv, Listening, TaskWrite, Finished, NobodyLoops, TaskGoes,
       hostPowerVars, Looping
<1>7. LoopsForAReason'
  BY <1>0 DEF PowerInv, LoopsForAReason, TaskWrite, NoSem, NobodyLoops, TaskGoes,
       hostPowerVars, Looping
<1>8. SleepBelieved'
  BY <1>0 DEF PowerInv, SleepBelieved, TaskWrite, Unannounced, Finished, TaskGoes,
       hostPowerVars, HasInit
<1>9. TokenTellsAwake'
  BY <1>0 DEF PowerInv, TokenTellsAwake, TaskWrite, Finished, TaskGoes, hostPowerVars
<1> QED
  BY <1>1, <1>2, <1>3, <1>4, <1>5, <1>6, <1>7, <1>8, <1>9 DEF PowerInv

LEMMA ResetSlaveKeeps ==
  ASSUME PowerInv, ResetSlave
  PROVE  PowerInv'
<1>0. busToHost' \in Seq(PowerMessages) /\ ~InitIn(busToHost') /\ OneInit(busToHost')
  BY EmptyQueue DEF PowerInv, PowerTypeOK, ResetSlave
<1>1. PowerTypeOK'
  BY <1>0 DEF PowerInv, PowerTypeOK, PowerMessages, ResetSlave, NoAlerts
<1>2. HostStates'
  BY <1>0 DEF PowerInv, HostStates, ResetSlave, NoSem, NoAlerts, OnPhases, OffPhases
<1>3. OneAnswer'
  BY <1>0 DEF PowerInv, OneAnswer, ResetSlave, Finished, HasInit, NoSem, NoAlerts,
       OnPhases, OffPhases
<1>4. AnswerExpected'
  BY <1>0 DEF PowerInv, AnswerExpected, ResetSlave, Finished, HasInit, NobodyLoops, NoSem,
       NoAlerts, OnPhases, OffPhases, Looping
<1>5. FreshSlave'
  BY <1>0 DEF PowerInv, FreshSlave, ResetSlave, Finished, HasInit, NoSem, NoAlerts,
       OnPhases, OffPhases
<1>6. Listening'
  BY <1>0 DEF PowerInv, Listening, ResetSlave, Finished, NobodyLoops, NoSem, NoAlerts,
       OnPhases, OffPhases, Looping
<1>7. LoopsForAReason'
  BY <1>0 DEF PowerInv, LoopsForAReason, ResetSlave, NoSem, NobodyLoops, NoAlerts,
       OnPhases, OffPhases, Looping
<1>8. SleepBelieved'
  BY <1>0 DEF PowerInv, SleepBelieved, ResetSlave, Unannounced, Finished, NoSem, NoAlerts,
       OnPhases, OffPhases, HasInit
<1>9. TokenTellsAwake'
  BY <1>0 DEF PowerInv, TokenTellsAwake, ResetSlave, Finished, NoSem, NoAlerts, OnPhases,
       OffPhases
<1> QED
  BY <1>1, <1>2, <1>3, <1>4, <1>5, <1>6, <1>7, <1>8, <1>9 DEF PowerInv

LEMMA StopPowerSaveKeeps ==
  ASSUME PowerInv, StopPowerSave
  PROVE  PowerInv'
<1>0. /\ off' \in [OffPhases -> Nat]
      /\ host # "boot" => Finished(off) /\ ~resetSem /\ ~HasInit
  BY AlertsMove, QuietMeans DEF PowerInv, PowerTypeOK, OffPhases, StopPowerSave
<1>1. PowerTypeOK'
  BY <1>0, PowerBoundsAssumption DEF PowerInv, PowerTypeOK, StopPowerSave
<1>2. HostStates'
  BY <1>0 DEF PowerInv, HostStates, StopPowerSave, NoAnswerDue, Finished
<1>3. OneAnswer'
  <2>1. Finished(off) /\ ~resetSem /\ ~HasInit
    BY <1>0 DEF PowerInv, AnswerExpected, StopPowerSave
  <2>2. off["start"] = 0 /\ off["give"] = 0 /\ off["sleep"] = 0
    BY <2>1 DEF PowerInv, PowerTypeOK, Finished, OffPhases
  <2>3. off'["start"] \in {0, 1} /\ off'["give"] = 0 /\ off'["sleep"] = 0
    BY <2>2 DEF PowerInv, PowerTypeOK, StopPowerSave, OffPhases
  <2> QED
    BY <2>1, <2>3 DEF PowerInv, OneAnswer, HasInit, StopPowerSave
<1>4. AnswerExpected'
  <2>1. Finished(off) /\ ~resetSem /\ ~HasInit
    BY <1>0 DEF PowerInv, AnswerExpected, StopPowerSave
  <2>2. off["start"] = 0 /\ off["give"] = 0 /\ off["sleep"] = 0
    BY <2>1 DEF PowerInv, PowerTypeOK, Finished, OffPhases
  <2>3. off'["give"] = 0 /\ off'["sleep"] = 0
    BY <2>2 DEF PowerInv, PowerTypeOK, StopPowerSave, OffPhases
  <2>4. Finished(on) => saving
    BY <2>1 DEF PowerInv, SleepBelieved, Unannounced, StopPowerSave
  <2>5. CASE UNCHANGED off
    BY <2>1, <2>2, <2>5 DEF AnswerExpected, HasInit, Finished, StopPowerSave
  <2>6. CASE Finished(on)
    BY <2>1, <2>3, <2>4, <2>6 DEF AnswerExpected, HasInit, Finished, StopPowerSave
  <2> QED
    BY <2>5, <2>6 DEF StopPowerSave
<1>5. FreshSlave'
  BY <1>0 DEF PowerInv, FreshSlave, StopPowerSave, Finished, HasInit, NoSem, NoAnswerDue
<1>6. Listening'
  BY <1>0 DEF PowerInv, Listening, StopPowerSave, Finished, NobodyLoops, NoAnswerDue,
       Looping
<1>7. LoopsForAReason'
  BY <1>0 DEF PowerInv, LoopsForAReason, PowerTypeOK, StopPowerSave, NoSem, NobodyLoops,
       OnPhases, OffPhases, Looping, NoAnswerDue, Finished
<1>8. SleepBelieved'
  BY <1>0 DEF PowerInv, SleepBelieved, StopPowerSave, Unannounced, Finished, NoAnswerDue,
       HasInit
<1>9. TokenTellsAwake'
  BY <1>0 DEF PowerInv, TokenTellsAwake, PowerTypeOK, StopPowerSave, Finished, NoSem,
       OnPhases, OffPhases, Looping, NoAnswerDue
<1> QED
  BY <1>1, <1>2, <1>3, <1>4, <1>5, <1>6, <1>7, <1>8, <1>9 DEF PowerInv

LEMMA ReceiveKeeps ==
  ASSUME PowerInv, Receive
  PROVE  PowerInv'
<1>0. /\ busToHost' \in Seq(PowerMessages) /\ OneInit(busToHost')
    /\ (Head(busToHost) = "init" => InitIn(busToHost) /\ ~InitIn(busToHost'))
    /\ (Head(busToHost) # "init" => (InitIn(busToHost') <=> InitIn(busToHost)))
  BY FirstDelivered DEF PowerInv, PowerTypeOK, OneAnswer, PowerMessages, Receive
<1>1. PowerTypeOK'
  BY <1>0 DEF PowerInv, PowerTypeOK, PowerMessages, Receive, slaveVars
<1>2. HostStates'
  BY <1>0 DEF PowerInv, HostStates, Receive, slaveVars
<1>3. OneAnswer'
  BY <1>0 DEF PowerInv, OneAnswer, Receive, Finished, HasInit, slaveVars
<1>4. AnswerExpected'
  BY <1>0 DEF PowerInv, AnswerExpected, PowerTypeOK, HostStates, OneAnswer, Receive,
       Finished, HasInit, NobodyLoops, NoSem, OnPhases, OffPhases, Looping, slaveVars
<1>5. FreshSlave'
  BY <1>0 DEF PowerInv, FreshSlave, Receive, Finished, HasInit, NoSem, slaveVars
<1>6. Listening'
  BY <1>0 DEF PowerInv, Listening, PowerTypeOK, HostStates, AnswerExpected, Receive,
       Finished, NobodyLoops, NoSem, OnPhases, OffPhases, Looping, HasInit, slaveVars
<1>7. LoopsForAReason'
  BY <1>0 DEF PowerInv, LoopsForAReason, Receive, NoSem, NobodyLoops, slaveVars, Looping
<1>8. SleepBelieved'
  BY <1>0 DEF PowerInv, SleepBelieved, PowerTypeOK, HostStates, Receive, Unannounced,
       Finished, NoSem, OnPhases, OffPhases, Looping, slaveVars, HasInit
<1>9. TokenTellsAwake'
  BY <1>0 DEF PowerInv, TokenTellsAwake, Receive, Finished, slaveVars
<1> QED
  BY <1>1, <1>2, <1>3, <1>4, <1>5, <1>6, <1>7, <1>8, <1>9 DEF PowerInv

LEMMA SlaveInitKeeps ==
  ASSUME PowerInv, SlaveInit
  PROVE  PowerInv'
<1>1. PowerTypeOK'
  BY DEF PowerInv, PowerTypeOK, SlaveInit, NoSem, OnPhases, OffPhases, Looping,
       hostPowerVars
<1>2. HostStates'
  BY DEF PowerInv, HostStates, SlaveInit, hostPowerVars
<1>3. OneAnswer'
  <2>1. /\ Finished(off) /\ ~resetSem /\ ~HasInit /\ Finished(on)
        /\ ~saving /\ \A t \in Tasks : pc[t] = "idle"
        /\ host \in {"boot", "connecting"} /\ bootReason # "deepsleep"
    BY DEF PowerInv, FreshSlave, SlaveInit
  <2>2. off["start"] = 0 /\ off["give"] = 0 /\ off["sleep"] = 0 /\ on["set"] = 0
    BY <2>1 DEF PowerInv, PowerTypeOK, Finished, OffPhases, OnPhases
  <2> QED
    BY <2>1, <2>2 DEF PowerInv, OneAnswer, HasInit, Finished, SlaveInit
<1>4. AnswerExpected'
  <2>1. /\ Finished(off) /\ ~resetSem /\ ~HasInit /\ Finished(on)
        /\ ~saving /\ \A t \in Tasks : pc[t] = "idle"
        /\ host \in {"boot", "connecting"} /\ bootReason # "deepsleep"
    BY DEF PowerInv, FreshSlave, SlaveInit
  <2>2. off["start"] = 0 /\ off["give"] = 0 /\ off["sleep"] = 0 /\ on["set"] = 0
    BY <2>1 DEF PowerInv, PowerTypeOK, Finished, OffPhases, OnPhases
  <2> QED
    BY <2>1, <2>2 DEF AnswerExpected, HasInit, NobodyLoops, Looping, Finished, SlaveInit,
         hostPowerVars
<1>5. FreshSlave'
  BY DEF PowerInv, FreshSlave, SlaveInit, Finished, HasInit, NoSem, hostPowerVars
<1>6. Listening'
  BY DEF PowerInv, Listening, SlaveInit, Finished, NobodyLoops, hostPowerVars, Looping
<1>7. LoopsForAReason'
  <2>1. /\ Finished(off) /\ ~resetSem /\ ~HasInit /\ Finished(on)
        /\ ~saving /\ \A t \in Tasks : pc[t] = "idle"
        /\ host \in {"boot", "connecting"} /\ bootReason # "deepsleep"
    BY DEF PowerInv, FreshSlave, SlaveInit
  <2>2. off["start"] = 0 /\ off["give"] = 0 /\ off["sleep"] = 0 /\ on["set"] = 0
    BY <2>1 DEF PowerInv, PowerTypeOK, Finished, OffPhases, OnPhases
  <2>3. ~pin
    BY <2>1 DEF PowerInv, LoopsForAReason
  <2> QED
    BY <2>1, <2>2, <2>3 DEF LoopsForAReason, NobodyLoops, Looping, SlaveInit, NoSem
<1>8. SleepBelieved'
  BY DEF PowerInv, SleepBelieved, SlaveInit, Unannounced, Finished, hostPowerVars, HasInit
<1>9. TokenTellsAwake'
  <2>1. /\ Finished(off) /\ ~resetSem /\ ~HasInit /\ Finished(on)
        /\ ~saving /\ \A t \in Tasks : pc[t] = "idle"
        /\ host \in {"boot", "connecting"} /\ bootReason # "deepsleep"
    BY DEF PowerInv, FreshSlave, SlaveInit
  <2>2. off["start"] = 0 /\ off["give"] = 0 /\ off["sleep"] = 0 /\ on["set"] = 0
    BY <2>1 DEF PowerInv, PowerTypeOK, Finished, OffPhases, OnPhases
  <2> QED
    BY <2>1 DEF TokenTellsAwake, SlaveInit
<1> QED
  BY <1>1, <1>2, <1>3, <1>4, <1>5, <1>6, <1>7, <1>8, <1>9 DEF PowerInv

-----------------------------------------------------------------------------
(* Every step, every state.                                                 *)

LEMMA PowerInitially ==
  ASSUME PowerInit
  PROVE  PowerInv
<1>1. PowerTypeOK
  <2>1. on \in [OnPhases -> Nat] /\ off \in [OffPhases -> Nat]
    BY DEF PowerInit, NoAlerts
  <2>2. busToHost \in Seq({"init", "packet"})
    BY EmptyQueue DEF PowerInit, PowerMessages
  <2>3. sleeps \in 0..MaxSleeps /\ lost \in 0..MaxLost /\ sent \in [Tasks -> 0..MaxPackets]
    BY PowerBoundsAssumption DEF PowerInit
  <2>4. pc \in [Tasks -> {"idle", "wakeup", "recheck", "drop", "write"} \cup Looping]
    BY DEF PowerInit
  <2> QED
    BY <2>1, <2>2, <2>3, <2>4 DEF PowerInit, PowerTypeOK, NoSem
<1>2. Finished(off) /\ ~resetSem /\ ~HasInit /\ Finished(on) /\ NobodyLoops
  BY EmptyQueue DEF PowerInit, Finished, NoAlerts, HasInit, NobodyLoops, Looping
<1>3. off["start"] = 0 /\ off["give"] = 0 /\ off["sleep"] = 0 /\ on["set"] = 0
  BY DEF PowerInit, NoAlerts, OnPhases, OffPhases
<1>4. HostStates /\ OneAnswer /\ AnswerExpected
  BY <1>2, <1>3, EmptyQueue DEF PowerInit, HostStates, OneAnswer, AnswerExpected
<1>5. FreshSlave /\ Listening /\ SleepBelieved
  BY <1>2 DEF PowerInit, FreshSlave, Listening, SleepBelieved, Unannounced
<1>6. LoopsForAReason /\ TokenTellsAwake
  BY <1>2, <1>3 DEF PowerInit, LoopsForAReason, TokenTellsAwake, NoSem
<1> QED
  BY <1>1, <1>4, <1>5, <1>6 DEF PowerInv

LEMMA PowerStutterKeeps ==
  ASSUME PowerInv, UNCHANGED powerVars
  PROVE  PowerInv'
<1>1. UNCHANGED <<host, bootReason, isr, drvInit, notice, sleeps, lost, pin, busToHost>>
  BY DEF powerVars, hostPowerVars
<1>2. UNCHANGED <<slave, saving, sem, resetSem, on, off, pc, sent>>
  BY DEF powerVars, slaveVars
<1>3. PowerTypeOK'
  BY <1>1, <1>2 DEF PowerInv, PowerTypeOK
<1>4. (HostStates /\ OneAnswer /\ AnswerExpected)'
  BY <1>1, <1>2 DEF PowerInv, HostStates, OneAnswer, AnswerExpected, HasInit, NobodyLoops,
       Finished
<1>5. (FreshSlave /\ Listening /\ SleepBelieved)'
  BY <1>1, <1>2 DEF PowerInv, FreshSlave, Listening, SleepBelieved, Unannounced, HasInit,
       NobodyLoops, Finished
<1>6. (LoopsForAReason /\ TokenTellsAwake)'
  BY <1>1, <1>2 DEF PowerInv, LoopsForAReason, TokenTellsAwake, NobodyLoops, Finished
<1> QED
  BY <1>3, <1>4, <1>5, <1>6 DEF PowerInv

LEMMA PowerStepKeeps ==
  ASSUME PowerInv, [PowerNext]_powerVars
  PROVE  PowerInv'
<1>1. CASE PowerSaveStart
  BY <1>1, PowerSaveStartKeeps
<1>2. CASE PowerSaveTeardown
  BY <1>2, PowerSaveTeardownKeeps
<1>3. CASE PowerSaveFail
  BY <1>3, PowerSaveFailKeeps
<1>4. CASE DeepSleep
  BY <1>4, DeepSleepKeeps
<1>5. CASE ReceiveNotice
  BY <1>5, ReceiveNoticeKeeps
<1>6. CASE AlertOnTake
  BY <1>6, AlertOnTakeKeeps
<1>7. CASE AlertOnSet
  BY <1>7, AlertOnSetKeeps
<1>8. CASE AlertOffClear
  BY <1>8, AlertOffClearKeeps
<1>9. CASE AlertOffGive
  BY <1>9, AlertOffGiveKeeps
<1>10. CASE AlertOffReset
  BY <1>10, AlertOffResetKeeps
<1>11. CASE HostReset
  BY <1>11, HostResetKeeps
<1>12. CASE ResetSlave
  BY <1>12, ResetSlaveKeeps
<1>13. CASE StopPowerSave
  BY <1>13, StopPowerSaveKeeps
<1>14. CASE Receive
  BY <1>14, ReceiveKeeps
<1>15. CASE SlaveInit
  BY <1>15, SlaveInitKeeps
<1>16. ASSUME NEW t \in Tasks, TaskSend(t) PROVE PowerInv'
  BY <1>16, TaskSendKeeps
<1>17. ASSUME NEW t \in Tasks, TaskCheck(t) PROVE PowerInv'
  BY <1>17, TaskCheckKeeps
<1>18. ASSUME NEW t \in Tasks, TaskRecheck(t) PROVE PowerInv'
  BY <1>18, TaskRecheckKeeps
<1>19. ASSUME NEW t \in Tasks, TaskDrop(t) PROVE PowerInv'
  BY <1>19, TaskDropKeeps
<1>20. ASSUME NEW t \in Tasks, TaskRaise(t) PROVE PowerInv'
  BY <1>20, TaskRaiseKeeps
<1>21. ASSUME NEW t \in Tasks, TaskLower(t) PROVE PowerInv'
  BY <1>21, TaskLowerKeeps
<1>22. ASSUME NEW t \in Tasks, TaskTake(t) PROVE PowerInv'
  BY <1>22, TaskTakeKeeps
<1>23. ASSUME NEW t \in Tasks, TaskRetry(t) PROVE PowerInv'
  BY <1>23, TaskRetryKeeps
<1>24. ASSUME NEW t \in Tasks, TaskGive(t) PROVE PowerInv'
  BY <1>24, TaskGiveKeeps
<1>25. ASSUME NEW t \in Tasks, TaskWrite(t) PROVE PowerInv'
  BY <1>25, TaskWriteKeeps
<1>26. CASE UNCHANGED powerVars
  BY <1>26, PowerStutterKeeps
<1> QED
  BY <1>1, <1>2, <1>3, <1>4, <1>5, <1>6, <1>7, <1>8, <1>9, <1>10, <1>11, <1>12, <1>13,
       <1>14, <1>15, <1>16, <1>17, <1>18, <1>19, <1>20, <1>21, <1>22, <1>23, <1>24, <1>25,
       <1>26 DEF PowerNext

\* PowerInv holds in every reachable state of every instance.
THEOREM PowerInductive == PowerSpec => []PowerInv
<1> QED
  BY PowerInitially, PowerStepKeeps, PTL DEF PowerSpec

\* Every variable keeps its type, whatever the tasks, sleeps and losses.
THEOREM PowerTypeCorrect == PowerSpec => []PowerTypeOK
<1>1. PowerInv => PowerTypeOK
  BY DEF PowerInv
<1> QED
  BY <1>1, PowerInductive, PTL

\* wakeup_sem is one token that tells whether the host is awake
\* (wakeup_host_mandate, host_power_save_alert).
THEOREM TokenTellsAwakeHolds == PowerSpec => []TokenTellsAwake
<1>1. PowerInv => TokenTellsAwake
  BY DEF PowerInv
<1> QED
  BY <1>1, PowerInductive, PTL

\* Of the steps only a pulse and the deep sleep itself end in a boot.
LEMMA PulseNeedsNotice ==
  ASSUME PowerInv, NEW t \in Tasks, TaskRaise(t), host \in {"connecting", "up"}
  PROVE  host' # "boot"
<1>1. ~NobodyLoops
  BY DEF NobodyLoops, Looping, TaskRaise, TaskGoes
<1>2. ~isr
  BY <1>1 DEF PowerInv, HostStates, Listening
<1> QED
  BY <1>2 DEF TaskRaise, hostPowerVars

\* A host that connects or is up is not restarted by the wake-up pin
\* (wakeup_gpio_isr_handler), whatever is late or lost; one that has announced its
\* sleep and still listens may be.
THEOREM RunningHostStaysHolds == PowerSpec => RunningHostStays
<1>1. PowerInv /\ [PowerNext]_powerVars
        => [(host \in {"connecting", "up"} => host' # "boot")]_powerVars
  <2> SUFFICES ASSUME PowerInv, PowerNext, host \in {"connecting", "up"} PROVE host' # "boot"
    OBVIOUS
  <2>1. CASE PowerSaveStart \/ PowerSaveTeardown \/ PowerSaveFail \/ DeepSleep \/ ReceiveNotice
    BY <2>1 DEF PowerSaveStart, PowerSaveTeardown, PowerSaveFail, DeepSleep, ReceiveNotice
  <2>2. CASE \/ AlertOnTake \/ AlertOnSet \/ AlertOffClear \/ AlertOffGive
             \/ AlertOffReset \/ HostReset
    BY <2>2 DEF AlertOnTake, AlertOnSet, AlertOffClear, AlertOffGive, AlertOffReset,
         HostReset, hostPowerVars
  <2>3. ASSUME NEW t \in Tasks, TaskRaise(t) PROVE host' # "boot"
    BY <2>3, PulseNeedsNotice
  <2>4. ASSUME NEW t \in Tasks,
               \/ TaskSend(t) \/ TaskCheck(t) \/ TaskRecheck(t) \/ TaskDrop(t)
               \/ TaskLower(t) \/ TaskTake(t) \/ TaskRetry(t) \/ TaskGive(t) \/ TaskWrite(t)
        PROVE  host' # "boot"
    BY <2>4 DEF TaskSend, TaskCheck, TaskRecheck, TaskDrop, TaskLower, TaskTake, TaskRetry,
         TaskGive, TaskWrite, hostPowerVars
  <2>5. CASE ResetSlave \/ StopPowerSave \/ Receive \/ SlaveInit
    BY <2>5 DEF ResetSlave, StopPowerSave, Receive, SlaveInit, hostPowerVars
  <2> QED
    BY <2>1, <2>2, <2>3, <2>4, <2>5 DEF PowerNext
<1> QED
  BY <1>1, PowerInductive, PTL DEF PowerSpec, RunningHostStays

=============================================================================
