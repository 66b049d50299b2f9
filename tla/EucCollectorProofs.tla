-------------------------- MODULE EucCollectorProofs --------------------------
(***************************************************************************)
(* Proofs about EucCollector, for any platform, connection table, names,   *)
(* lists and windows.                                                      *)
(***************************************************************************)
EXTENDS EucCollector, SequenceTheorems, TLAPS

(* A host as a sequence of characters.  (That the dot is one of them is    *)
(* said because no prover knows it.)                                       *)
Chars == STRING \cup {"."}
Texts == Seq(Chars)

LEMMA StringsAreTexts == Seq(STRING) \subseteq Texts
<1>1. \A s \in Seq(STRING) : s \in Seq(Chars)
      BY DEF Chars
<1> QED BY <1>1 DEF Texts

-----------------------------------------------------------------------------
(* normalizeHost.  Folding the case and stripping the dot commute, because *)
(* no other character has the dot as its lower case.                       *)
LEMMA LowerCaseText ==
  ASSUME NEW h \in Texts
  PROVE  /\ LowerCase(h) \in Texts /\ Len(LowerCase(h)) = Len(h)
         /\ \A i \in 1 .. Len(h) :
              /\ LowerCase(h)[i] = IF h[i] \in DOMAIN Lower THEN Lower[h[i]] ELSE h[i]
              /\ LowerCase(h)[i] = "." <=> h[i] = "."
<1> DEFINE n == Len(h)
           low == [i \in 1 .. n |-> IF h[i] \in DOMAIN Lower THEN Lower[h[i]] ELSE h[i]]
<1>1. n \in Nat /\ DOMAIN h = 1 .. n /\ \A i \in 1 .. n : h[i] \in Chars
      BY DEF Texts
<1>2. \A x \in DOMAIN Lower : Lower[x] \in Chars /\ x # "." /\ Lower[x] # "."
      BY EucAssumption DEF Chars
<1>3. \A i \in 1 .. n : low[i] \in Chars /\ (low[i] = "." <=> h[i] = ".")
      BY <1>1, <1>2
<1>4. LowerCase(h) = low
      BY <1>1 DEF LowerCase
<1>5. low \in Seq(Chars) /\ Len(low) = n
      BY <1>1, <1>3, IsASeq
<1> QED BY <1>3, <1>4, <1>5 DEF Texts

LEMMA TrimDotText ==
  ASSUME NEW h \in Texts
  PROVE  /\ TrimDot(h) \in Texts
         /\ Len(TrimDot(h)) = IF Len(h) > 0 /\ h[Len(h)] = "." THEN Len(h) - 1 ELSE Len(h)
         /\ \A i \in 1 .. Len(TrimDot(h)) : TrimDot(h)[i] = h[i]
<1>1. h \in Seq(Chars) /\ Len(h) \in Nat /\ (h # <<>> <=> Len(h) > 0)
      BY DEF Texts
<1>2. CASE Len(h) > 0 /\ h[Len(h)] = "."
  <2>1. TrimDot(h) = SubSeq(h, 1, Len(h) - 1)
        BY <1>1, <1>2 DEF TrimDot, Front, Last
  <2>2. \A i \in 1 .. Len(h) - 1 : h[i] \in Chars
        BY <1>1
  <2>3. /\ SubSeq(h, 1, Len(h) - 1) \in Seq(Chars)
        /\ Len(SubSeq(h, 1, Len(h) - 1)) = Len(h) - 1
        /\ \A i \in 1 .. Len(h) - 1 : SubSeq(h, 1, Len(h) - 1)[i] = h[i]
    <3> DEFINE k == Len(h) - 1
    <3>1. k \in Nat /\ \A i \in 1 .. k : h[i] \in Chars
          BY <1>1, <1>2, <2>2
    <3> HIDE DEF k
    <3>2. /\ SubSeq(h, 1, k) \in Seq(Chars)
          /\ Len(SubSeq(h, 1, k)) = IF 1 <= k THEN k - 1 + 1 ELSE 0
          /\ \A i \in 1 .. k - 1 + 1 : SubSeq(h, 1, k)[i] = h[1 + i - 1]
          BY <3>1, SubSeqProperties
    <3>3. Len(SubSeq(h, 1, k)) = k /\ \A i \in 1 .. k : SubSeq(h, 1, k)[i] = h[i]
          BY <3>1, <3>2
    <3> QED BY <3>2, <3>3 DEF k
  <2> QED BY <1>2, <2>1, <2>3 DEF Texts
<1>3. CASE ~(Len(h) > 0 /\ h[Len(h)] = ".")
      BY <1>1, <1>3 DEF TrimDot, Last, Texts
<1> QED BY <1>2, <1>3

LEMMA LowerTrim == ASSUME NEW h \in Texts PROVE LowerCase(TrimDot(h)) = TrimDot(LowerCase(h))
<1> DEFINE t == TrimDot(h)
           low == LowerCase(h)
<1>1. /\ t \in Texts /\ Len(t) = IF Len(h) > 0 /\ h[Len(h)] = "." THEN Len(h) - 1 ELSE Len(h)
      /\ \A i \in 1 .. Len(t) : t[i] = h[i]
      BY TrimDotText
<1>2. /\ low \in Texts /\ Len(low) = Len(h)
      /\ \A i \in 1 .. Len(h) :
           /\ low[i] = IF h[i] \in DOMAIN Lower THEN Lower[h[i]] ELSE h[i]
           /\ low[i] = "." <=> h[i] = "."
      BY LowerCaseText
<1>3. Len(h) \in Nat /\ Len(t) \in Nat /\ Len(t) <= Len(h)
      BY <1>1 DEF Texts
<1> HIDE DEF t, low
<1>4. /\ LowerCase(t) \in Texts /\ Len(LowerCase(t)) = Len(t)
      /\ \A i \in 1 .. Len(t) : LowerCase(t)[i] = IF t[i] \in DOMAIN Lower THEN Lower[t[i]] ELSE t[i]
      BY <1>1, LowerCaseText
<1>5. /\ TrimDot(low) \in Texts
      /\ Len(TrimDot(low)) = IF Len(low) > 0 /\ low[Len(low)] = "." THEN Len(low) - 1 ELSE Len(low)
      /\ \A i \in 1 .. Len(TrimDot(low)) : TrimDot(low)[i] = low[i]
      BY <1>2, TrimDotText
<1>6. Len(TrimDot(low)) = Len(t)
  <2>1. Len(h) > 0 => (low[Len(h)] = "." <=> h[Len(h)] = ".")
        BY <1>2, <1>3
  <2> QED BY <1>1, <1>2, <1>5, <2>1
<1>7. \A i \in 1 .. Len(t) : LowerCase(t)[i] = TrimDot(low)[i]
  <2> TAKE i \in 1 .. Len(t)
  <2>1. i \in 1 .. Len(h) /\ t[i] = h[i] /\ TrimDot(low)[i] = low[i]
        BY <1>1, <1>3, <1>5, <1>6
  <2> QED BY <1>2, <1>4, <2>1
<1>8. LowerCase(t) = TrimDot(low)
      BY <1>4, <1>5, <1>6, <1>7, SeqEqual DEF Texts
<1> QED BY <1>8 DEF t, low

LEMMA NormalText == ASSUME NEW h \in Texts PROVE Normalize(h) \in Texts
BY LowerCaseText, TrimDotText DEF Normalize

(* The name a DNS event is marked under is its name, however spelled.      *)
LEMMA DnsKeyIsName == ASSUME NEW n \in Names PROVE DnsKey(n) = HostKey(Normalize(n))
<1>1. n \in Texts
      BY EucAssumption, StringsAreTexts
<1> QED BY <1>1, LowerTrim DEF DnsKey, Normalize

-----------------------------------------------------------------------------
(* matchHost accepts only what lies at or below an endpoint.               *)
LEMMA SuffixIsTail ==
  ASSUME NEW e \in Texts, NEW h \in Texts, IsSuffix(e, h)
  PROVE  /\ Len(e) <= Len(h)
         /\ \A i \in 1 .. Len(e) : h[Len(h) - Len(e) + i] = e[i]
<1> DEFINE m == Len(e)
           n == Len(h)
<1>1. e \in Seq(Chars) /\ h \in Seq(Chars) /\ m \in Nat /\ n \in Nat
      BY DEF Texts
<1>2. /\ Reverse(e) = [i \in 1 .. m |-> e[(m - i) + 1]]
      /\ Reverse(h) = [i \in 1 .. n |-> h[(n - i) + 1]]
      BY DEF Reverse
<1>3. /\ Reverse(e) \in Seq(Chars) /\ Len(Reverse(e)) = m
      /\ Reverse(h) \in Seq(Chars) /\ Len(Reverse(h)) = n
  <2>1. \A i \in 1 .. m : e[(m - i) + 1] \in Chars
        BY <1>1
  <2>2. \A i \in 1 .. n : h[(n - i) + 1] \in Chars
        BY <1>1
  <2> QED BY <1>1, <1>2, <2>1, <2>2, IsASeq
<1>4. /\ m <= n /\ SubSeq(Reverse(e), 1, m) = SubSeq(Reverse(h), 1, m)
      BY <1>3 DEF IsSuffix, IsPrefix
<1>5. \A k \in 1 .. m : Reverse(e)[k] = Reverse(h)[k]
  <2> TAKE k \in 1 .. m
  <2>1. /\ SubSeq(Reverse(e), 1, m)[k] = Reverse(e)[k]
        /\ SubSeq(Reverse(h), 1, m)[k] = Reverse(h)[k]
        BY <1>1, <1>3, <1>4
  <2> QED BY <1>4, <2>1
<1>6. ASSUME NEW i \in 1 .. m PROVE h[n - m + i] = e[i]
  <2> DEFINE k == m - i + 1
  <2>1. k \in 1 .. m /\ k \in 1 .. n /\ (m - k) + 1 = i /\ (n - k) + 1 = n - m + i
        BY <1>1, <1>4
  <2>2. Reverse(e)[k] = e[(m - k) + 1] /\ Reverse(h)[k] = h[(n - k) + 1]
        BY <1>2, <2>1
  <2> HIDE DEF k
  <2> QED BY <1>5, <2>1, <2>2
<1> QED BY <1>4, <1>6

LEMMA MatchIsBelow ==
  ASSUME NEW h \in Texts, NEW e \in Texts, Matches(h, e)
  PROVE  Below(h, e)
<1>1. h \in Seq(Chars) /\ e \in Seq(Chars) /\ Len(h) \in Nat /\ Len(e) \in Nat
      BY DEF Texts
<1>2. CASE h = e
  <2>1. SubSeq(h, 1, Len(h)) = h
        BY <1>1, SubSeqFull
  <2>2. 0 \in 0 .. Len(h) /\ 0 + 1 = 1
        BY <1>1
  <2>3. SubSeq(h, 0 + 1, Len(h)) = e
        BY <1>2, <2>1, <2>2
  <2> SUFFICES \E i \in 0 .. Len(h) : SubSeq(h, i + 1, Len(h)) = e /\ (i = 0 \/ h[i] = ".")
      BY DEF Below
  <2> WITNESS 0 \in 0 .. Len(h)
  <2> QED BY <2>3
<1>3. CASE IsSuffix(<<".">> \o e, h)
  <2> DEFINE d == <<".">> \o e
             i == Len(h) - Len(e)
  <2>1. /\ d \in Seq(Chars) /\ Len(d) = Len(e) + 1 /\ d[1] = "."
        /\ \A k \in 1 .. Len(e) : d[k + 1] = e[k]
    <3> DEFINE dot == <<".">>
    <3>1. dot \in Seq(Chars) /\ Len(dot) = 1 /\ dot[1] = "."
      <4>1. "." \in Chars
            BY DEF Chars
      <4>2. dot \in Seq(Chars)
            BY <4>1
      <4>3. Len(dot) = 1 /\ dot[1] = "."
            OBVIOUS
      <4> QED BY <4>2, <4>3
    <3>2. d = dot \o e
          OBVIOUS
    <3> HIDE DEF dot, d
    <3>3. /\ d \in Seq(Chars) /\ Len(d) = 1 + Len(e)
          /\ \A k \in 1 .. 1 + Len(e) : d[k] = IF k <= 1 THEN dot[k] ELSE e[k - 1]
      <4>1. /\ dot \o e \in Seq(Chars) /\ Len(dot \o e) = Len(dot) + Len(e)
            /\ \A k \in 1 .. Len(dot) + Len(e) :
                 (dot \o e)[k] = IF k <= Len(dot) THEN dot[k] ELSE e[k - Len(dot)]
            BY <1>1, <3>1, ConcatProperties
      <4> QED BY <3>1, <3>2, <4>1
    <3>4. \A k \in 1 .. Len(e) : k + 1 \in 1 .. 1 + Len(e) /\ ~(k + 1 <= 1) /\ (k + 1) - 1 = k
          BY <1>1
    <3> QED BY <1>1, <3>1, <3>3, <3>4
  <2> HIDE DEF d
  <2>2. /\ Len(d) <= Len(h)
        /\ \A k \in 1 .. Len(d) : h[Len(h) - Len(d) + k] = d[k]
    <3>1. d \in Texts /\ IsSuffix(d, h)
          BY <1>3, <2>1 DEF Texts, d
    <3> QED BY <3>1, SuffixIsTail
  <2>3. i \in 1 .. Len(h) /\ i \in 0 .. Len(h)
        BY <1>1, <2>1, <2>2
  <2>4. h[i] = "."
    <3>1. 1 \in 1 .. Len(d) /\ Len(h) - Len(d) + 1 = i
          BY <1>1, <2>1
    <3> QED BY <2>1, <2>2, <3>1
  <2>5. SubSeq(h, i + 1, Len(h)) = e
    <3>1. \A k \in 1 .. Len(e) : h[i + k] = e[k]
      <4> TAKE k \in 1 .. Len(e)
      <4>1. k + 1 \in 1 .. Len(d) /\ Len(h) - Len(d) + (k + 1) = i + k
            BY <1>1, <2>1
      <4> QED BY <2>1, <2>2, <4>1
    <3> DEFINE t == SubSeq(h, i + 1, Len(h))
    <3>2. /\ t \in Seq(Chars) /\ Len(t) = Len(e)
          /\ \A k \in 1 .. Len(e) : t[k] = h[i + k]
          BY <1>1, <2>3
    <3> HIDE DEF t
    <3>3. t = e
          BY <1>1, <3>1, <3>2, SeqEqual
    <3> QED BY <3>3 DEF t
  <2> QED BY <2>3, <2>4, <2>5 DEF Below
<1> QED BY <1>2, <1>3 DEF Matches

LEMMA ListedTexts == TypeOK => cfg.endpoints \subseteq Texts
<1> SUFFICES ASSUME TypeOK PROVE cfg.endpoints \subseteq Texts
    OBVIOUS
<1>1. PICK c \in Configs : cfg = Effective(c)
      BY DEF TypeOK
<1>2. Catalog \cup c.endpoints \subseteq Texts
      BY EucAssumption, StringsAreTexts
<1> QED BY <1>1, <1>2, LowerCaseText DEF Effective, MergeAIEndpoints

LEMMA HostWatched ==
  ASSUME TypeOK, NEW h \in Texts, MatchHost(h, cfg.endpoints), NEW p
  PROVE  OfWatched(Remote(h, p))
<1>1. PICK e \in cfg.endpoints : Normalize(e) # <<>> /\ Matches(Normalize(h), Normalize(e))
      BY DEF MatchHost
<1>2. e \in Texts
      BY ListedTexts
<1>3. Below(Normalize(h), Normalize(e))
      BY <1>1, <1>2, NormalText, MatchIsBelow
<1> QED BY <1>1, <1>3 DEF OfWatched, Remote

LEMMA PortWatched == ASSUME NEW p, Watched(p) PROVE OfWatched(Local(p))
BY DEF OfWatched, Local, Watched

-----------------------------------------------------------------------------
(* A queue as a sequence.                                                  *)
LEMMA AppendRange ==
  ASSUME NEW S, NEW q \in Seq(S), NEW x \in S
  PROVE  /\ Append(q, x) \in Seq(S) /\ Len(Append(q, x)) = Len(q) + 1
         /\ Range(Append(q, x)) \subseteq Range(q) \cup {x}
<1>1. /\ Append(q, x) \in Seq(S) /\ Len(Append(q, x)) = Len(q) + 1 /\ Len(q) \in Nat
      /\ \A i \in 1 .. Len(q) : Append(q, x)[i] = q[i]
      /\ Append(q, x)[Len(q) + 1] = x
      /\ DOMAIN q = 1 .. Len(q) /\ DOMAIN Append(q, x) = 1 .. Len(q) + 1
      OBVIOUS
<1> QED BY <1>1 DEF Range

LEMMA TailRange ==
  ASSUME NEW S, NEW q \in Seq(S), q # <<>>
  PROVE  /\ Tail(q) \in Seq(S) /\ Len(Tail(q)) = Len(q) - 1
         /\ Head(q) \in S /\ Head(q) \in Range(q) /\ Range(Tail(q)) \subseteq Range(q)
<1>1. /\ Tail(q) \in Seq(S) /\ Len(Tail(q)) = Len(q) - 1 /\ Len(q) \in Nat /\ Len(q) > 0
      /\ \A i \in 1 .. Len(q) - 1 : Tail(q)[i] = q[i + 1]
      /\ Head(q) = q[1] /\ q[1] \in S /\ DOMAIN q = 1 .. Len(q) /\ DOMAIN Tail(q) = 1 .. Len(q) - 1
      OBVIOUS
<1> QED BY <1>1 DEF Range

LEMMA NothingIn == Range(<<>>) = {}
BY DEF Range

LEMMA AtMostOne ==
  ASSUME NEW S, NEW x \in S, NEW a, a = <<>> \/ a = <<x>>
  PROVE  /\ a \in Seq(S) /\ Len(a) \in {0, 1}
         /\ Len(a) = 0 <=> a = <<>>
         /\ Len(a) = 1 => a[1] = x
<1>1. CASE a = <<>>
  <2>1. a \in Seq(S) /\ Len(a) = 0
        BY <1>1
  <2> QED BY <1>1, <2>1
<1>2. CASE a = <<x>>
  <2>1. a \in Seq(S) /\ Len(a) = 1 /\ a[1] = x
        BY <1>2
  <2>2. a # <<>>
        BY <2>1
  <2> QED BY <2>1, <2>2
<1> QED BY <1>1, <1>2

LEMMA OneOrTwo ==
  ASSUME NEW S, NEW x \in S, NEW y \in S, NEW a, NEW b, a = <<>> \/ a = <<x>>, b = <<>> \/ b = <<y>>
  PROVE  /\ a \o b \in Seq(S)
         /\ \A o \in Range(a \o b) : (o = x /\ a # <<>>) \/ (o = y /\ b # <<>>)
<1>1. /\ a \in Seq(S) /\ Len(a) \in {0, 1} /\ (Len(a) = 0 <=> a = <<>>) /\ (Len(a) = 1 => a[1] = x)
      /\ b \in Seq(S) /\ Len(b) \in {0, 1} /\ (Len(b) = 0 <=> b = <<>>) /\ (Len(b) = 1 => b[1] = y)
      BY AtMostOne
<1> DEFINE s == a \o b
<1>2. /\ s \in Seq(S) /\ Len(s) = Len(a) + Len(b)
      /\ \A i \in 1 .. Len(a) + Len(b) : s[i] = IF i <= Len(a) THEN a[i] ELSE b[i - Len(a)]
      BY <1>1, ConcatProperties
<1> HIDE DEF s
<1>3. ASSUME NEW i \in DOMAIN s PROVE (s[i] = x /\ a # <<>>) \/ (s[i] = y /\ b # <<>>)
      BY <1>1, <1>2
<1> QED BY <1>2, <1>3 DEF Range, s

-----------------------------------------------------------------------------
(* What the parts of the invariant depend on.                              *)
LEMMA FlightKept ==
  ASSUME OnlyWatched, cfg' = cfg, \A o \in InFlight' : o \in InFlight \/ OfWatched(o)
  PROVE  OnlyWatched'
BY DEF OnlyWatched, OfWatched

LEMMA MarksKept ==
  ASSUME MarkInv, NoEarlyRepeat, UNCHANGED <<seen, last, early, stall>>
  PROVE  MarkInv' /\ NoEarlyRepeat'
BY DEF MarkInv, MarkOK, NoEarlyRepeat

LEMMA HandlesKept ==
  ASSUME HandleInv, UNCHANGED <<platform, handles, ctx, closed>>,
         sampler' = "off" => sampler = "off" /\ reader' = reader,
         sampler = "off" => sampler' = "off" \/ ctx = "live"
  PROVE  HandleInv'
BY DEF HandleInv

LEMMA Bounds ==
  /\ TTL \in Nat \ {0} /\ MaxStall \in Nat /\ MaxAge = TTL + MaxStall + 1 /\ Never = -1
  /\ Capacity \in Nat \ {0}
BY EucAssumption DEF MaxAge, Never

LEMMA SeenObservations ==
  /\ \A c \in Conns : /\ Local(c.lport) \in Observations /\ Local(c.rport) \in Observations
                      /\ Remote(c.remote, c.lport) \in Observations
                      /\ Remote(c.remote, c.rport) \in Observations
                      /\ Remote(c.remote, 0) \in Observations
                      /\ c.remote \in Texts
  /\ \A n \in Names : Remote(TrimDot(n), 0) \in Observations /\ TrimDot(n) \in Texts
  /\ Nothing \in Observations
<1>1. /\ \A c \in Conns : c.lport \in Ports /\ c.rport \in Ports /\ c.remote \in Hosts
      /\ 0 \in Ports /\ <<>> \in Hosts
      /\ \A n \in Names : TrimDot(n) \in Hosts
      BY DEF Ports, Hosts
<1>2. \A h \in Hosts, p \in Ports : Local(p) \in Observations /\ Remote(h, p) \in Observations
      BY <1>1 DEF Observations, Local, Remote
<1>3. /\ \A c \in Conns : c.remote \in Texts
      /\ \A n \in Names : n \in Texts
      BY EucAssumption, StringsAreTexts
<1> QED BY <1>1, <1>2, <1>3, TrimDotText DEF Nothing

-----------------------------------------------------------------------------
LEMMA InitEuc == Init => EucInv
<1> SUFFICES ASSUME Init PROVE EucInv
    OBVIOUS
<1>1. TypeOK
  <2>1. seen \in [Keys -> -1 .. MaxAge] /\ last \in [Keys -> -1 .. MaxAge] /\ stall \in 0 .. MaxStall
        BY Bounds DEF Init
  <2>2. /\ obs \in Seq(Observations) /\ Len(obs) <= Capacity /\ hold \in Seq(Observations)
        /\ event \in Observations
        BY SeenObservations, Bounds DEF Init
  <2> QED BY <2>1, <2>2 DEF Init, TypeOK
<1>2. OnlyWatched
      BY NothingIn DEF Init, OnlyWatched, InFlight
<1>3. NoEarlyRepeat /\ MarkInv
      BY DEF Init, NoEarlyRepeat, MarkInv, MarkOK
<1>4. HandleInv
      BY DEF Init, HandleInv
<1> QED BY <1>1, <1>2, <1>3, <1>4 DEF EucInv

(* Start.                                                                  *)
LEMMA StartEuc == ASSUME EucInv, Start PROVE EucInv'
<1>1. /\ TypeOK /\ OnlyWatched /\ NoEarlyRepeat /\ MarkInv /\ HandleInv
      BY DEF EucInv
<1>2. /\ sampler' = "waiting" /\ ctx = "live"
      /\ UNCHANGED <<platform, cfg, watch, event, scan, burst, hold, stall, due, seen, last, early,
                     obs, ctx, closed>>
      BY DEF Start, StartLinux, StartWindows, StartDarwin, Started, lists, marks
<1>3. reader' \in {reader, "reading"}
      BY DEF Start, StartLinux, StartWindows, StartDarwin
<1>4. handles' \subseteq (CASE platform = "linux" -> KernelHandles
                            [] platform = "windows" -> {"session", "consumer", "dns"}
                            [] platform = "darwin" -> {})
  <2>1. CASE StartLinux
        BY <2>1 DEF StartLinux, Degraded, KernelHandles
  <2>2. CASE StartWindows
        BY <2>2 DEF StartWindows
  <2>3. CASE StartDarwin
    <3>1. handles = {}
          BY <1>1, <2>3 DEF StartDarwin, Started, HandleInv
    <3> QED BY <2>3, <3>1 DEF StartDarwin
  <2> QED BY <2>1, <2>2, <2>3 DEF Start
<1>5. TypeOK'
  <2>1. handles' \subseteq {"objs", "ring", "kp4", "kp6", "session", "consumer", "dns"}
    <3>1. platform \in {"linux", "windows", "darwin"}
          BY <1>1, EucAssumption DEF TypeOK
    <3> QED BY <1>4, <3>1 DEF KernelHandles
  <2> QED BY <1>1, <1>2, <1>3, <2>1 DEF TypeOK
<1>6. OnlyWatched'
  <2>1. \A o \in InFlight' : o \in InFlight
        BY <1>2, <1>3 DEF InFlight
  <2> QED BY <1>1, <1>2, <2>1, FlightKept
<1>7. HandleInv'
  <2>1. ~closed
        BY <1>1, <1>2 DEF HandleInv
  <2> QED BY <1>2, <1>4, <2>1 DEF HandleInv
<1>8. MarkInv' /\ NoEarlyRepeat'
      BY <1>1, <1>2, MarksKept
<1> QED BY <1>5, <1>6, <1>7, <1>8 DEF EucInv

-----------------------------------------------------------------------------
(* The marks.                                                              *)
MarksType ==
  seen \in [Keys -> -1 .. MaxAge] /\ last \in [Keys -> -1 .. MaxAge] /\ early \in BOOLEAN

LEMMA MarkEuc ==
  ASSUME TypeOK, MarkInv, NoEarlyRepeat, NEW fresh \in SUBSET Keys, NEW age \in 0 .. stall,
         \A k \in fresh : NotSeen(k, age), Mark(fresh, fresh, age), stall' = stall
  PROVE  MarksType' /\ MarkInv' /\ NoEarlyRepeat'
<1>1. /\ seen \in [Keys -> -1 .. MaxAge] /\ last \in [Keys -> -1 .. MaxAge]
      /\ stall \in 0 .. MaxStall /\ early \in BOOLEAN
      BY DEF TypeOK
<1>2. /\ seen' = [k \in Keys |-> IF k \in fresh THEN age ELSE seen[k]]
      /\ last' = [k \in Keys |-> IF k \in fresh THEN age ELSE last[k]]
      /\ early' = (early \/ \E k \in fresh : last[k] # Never /\ last[k] - age < TTL)
      BY DEF Mark
<1>3. age \in -1 .. MaxAge
      BY <1>1, Bounds
<1>4. MarksType'
      BY <1>1, <1>2, <1>3 DEF MarksType
<1>5. ASSUME NEW k \in Keys PROVE MarkOK(k)'
  <2>1. CASE k \in fresh
        BY <1>2, <2>1 DEF MarkOK
  <2>2. CASE k \notin fresh
    <3>1. seen'[k] = seen[k] /\ last'[k] = last[k] /\ MarkOK(k)
          BY <1>2, <2>2 DEF MarkInv
    <3> QED BY <3>1 DEF MarkOK
  <2> QED BY <2>1, <2>2
<1>6. ASSUME NEW k \in fresh PROVE last[k] = Never \/ last[k] - age >= TTL
  <2>1. seen[k] \in Int /\ last[k] \in Int /\ age \in Int /\ stall \in Int /\ age <= stall /\ age >= 0
        BY <1>1, Bounds
  <2>2. seen[k] = Never \/ seen[k] - age >= TTL
        BY <1>6 DEF NotSeen
  <2>3. seen[k] = last[k] \/ (seen[k] = Never /\ last[k] - stall >= TTL)
        BY DEF MarkInv, MarkOK
  <2>4. TTL \in Nat /\ Never = -1
        BY Bounds
  <2> QED BY <2>1, <2>2, <2>3, <2>4
<1>7. ~early'
  <2>1. \A k \in fresh : ~(last[k] # Never /\ last[k] - age < TTL)
    <3> TAKE k \in fresh
    <3>1. last[k] \in Int /\ age \in Int /\ TTL \in Int
          BY <1>1, Bounds
    <3> QED BY <1>6, <3>1
  <2> QED BY <1>2, <2>1 DEF NoEarlyRepeat
<1> QED BY <1>4, <1>5, <1>7 DEF MarkInv, NoEarlyRepeat

-----------------------------------------------------------------------------
(* The source of events.                                                   *)
LEMMA EventEuc ==
  ASSUME EucInv, EventUnchanged, reader \in {"reading", "sending"},
         reader' \in {"reading", "sending", "exited"},
         NEW o \in Observations, event' = o, reader' = "sending" => OfWatched(o),
         MarksType' /\ MarkInv' /\ NoEarlyRepeat'
  PROVE  EucInv'
<1>1. /\ TypeOK /\ OnlyWatched /\ HandleInv
      BY DEF EucInv
<1>2. UNCHANGED <<platform, cfg, watch, handles, sampler, scan, burst, hold, stall, due, obs,
                  ctx, closed>>
      BY DEF EventUnchanged, lists, sampling
<1>3. TypeOK'
      BY <1>1, <1>2 DEF TypeOK, MarksType
<1>4. OnlyWatched'
  <2>1. \A x \in InFlight' : x \in InFlight \/ OfWatched(x)
        BY <1>2 DEF InFlight
  <2> QED BY <1>1, <1>2, <2>1, FlightKept
<1>5. HandleInv'
  <2>1. sampler # "off"
        BY <1>1 DEF HandleInv
  <2> QED BY <1>1, <1>2, <2>1, HandlesKept
<1> QED BY <1>3, <1>4, <1>5 DEF EucInv

LEMMA MarksSame ==
  ASSUME EucInv, UNCHANGED marks, stall' = stall
  PROVE  MarksType' /\ MarkInv' /\ NoEarlyRepeat'
<1>1. TypeOK /\ MarkInv /\ NoEarlyRepeat /\ UNCHANGED <<seen, last, early, stall>>
      BY DEF EucInv, marks
<1> QED BY <1>1, MarksKept DEF TypeOK, MarksType

LEMMA LinuxEventEuc == ASSUME EucInv, NEW c \in Conns, LinuxEvent(c) PROVE EucInv'
<1>1. TypeOK /\ reader = "reading" /\ EventUnchanged /\ event \in Observations
      BY DEF EucInv, TypeOK, LinuxEvent
<1>2. MarksType' /\ MarkInv' /\ NoEarlyRepeat'
      BY <1>1, MarksSame DEF LinuxEvent, EventUnchanged, sampling
<1>3. CASE MatchHost(c.remote, cfg.endpoints)
  <2>1. reader' = "sending" /\ event' = Remote(c.remote, c.rport)
        BY <1>3 DEF LinuxEvent, Handle
  <2>2. Remote(c.remote, c.rport) \in Observations /\ OfWatched(Remote(c.remote, c.rport))
        BY <1>1, <1>3, SeenObservations, HostWatched
  <2> QED BY <1>1, <1>2, <2>1, <2>2, EventEuc
<1>4. CASE ~MatchHost(c.remote, cfg.endpoints) /\ Watched(c.rport)
  <2>1. reader' = "sending" /\ event' = Local(c.rport)
        BY <1>4 DEF LinuxEvent, Handle
  <2>2. Local(c.rport) \in Observations /\ OfWatched(Local(c.rport))
        BY <1>4, SeenObservations, PortWatched
  <2> QED BY <1>1, <1>2, <2>1, <2>2, EventEuc
<1>5. CASE ~MatchHost(c.remote, cfg.endpoints) /\ ~Watched(c.rport)
  <2>1. reader' \in {"reading", "exited"} /\ event' = event
        BY <1>5 DEF LinuxEvent
  <2> QED BY <1>1, <1>2, <2>1, EventEuc
<1> QED BY <1>3, <1>4, <1>5

LEMMA WindowsEventEuc == ASSUME EucInv, NEW c \in Conns, WindowsEvent(c) PROVE EucInv'
<1>1. /\ TypeOK /\ reader = "reading" /\ EventUnchanged /\ reader' = "sending"
      /\ MatchHost(c.remote, cfg.endpoints) \/ Watched(c.lport)
      /\ event' = IF Watched(c.lport) THEN Local(c.lport) ELSE Remote(c.remote, c.lport)
      BY DEF EucInv, WindowsEvent, Handle
<1>2. MarksType' /\ MarkInv' /\ NoEarlyRepeat'
      BY <1>1, MarksSame DEF WindowsEvent, EventUnchanged, sampling
<1>3. CASE Watched(c.lport)
  <2>1. Local(c.lport) \in Observations /\ OfWatched(Local(c.lport))
        BY <1>3, SeenObservations, PortWatched
  <2> QED BY <1>1, <1>2, <1>3, <2>1, EventEuc
<1>4. CASE ~Watched(c.lport)
  <2>1. Remote(c.remote, c.lport) \in Observations /\ OfWatched(Remote(c.remote, c.lport))
        BY <1>1, <1>4, SeenObservations, HostWatched
  <2> QED BY <1>1, <1>2, <1>4, <2>1, EventEuc
<1> QED BY <1>3, <1>4

LEMMA DnsEventEuc == ASSUME EucInv, NEW n \in Names, DnsEvent(n) PROVE EucInv'
<1> DEFINE k == DnsKey(n)
<1>1. /\ TypeOK /\ MarkInv /\ NoEarlyRepeat /\ reader = "reading" /\ EventUnchanged
      /\ reader' = "sending" /\ event' = Remote(TrimDot(n), 0)
      /\ MatchHost(TrimDot(n), cfg.endpoints) /\ NotSeen(k, 0)
      /\ Mark({k}, {HostKey(Normalize(n))}, 0)
      BY DEF EucInv, DnsEvent, Handle
<1>2. MarksType' /\ MarkInv' /\ NoEarlyRepeat'
  <2>1. k \in Keys /\ Mark({k}, {k}, 0)
        BY <1>1, DnsKeyIsName DEF Keys
  <2>2. stall' = stall /\ 0 \in 0 .. stall
        BY <1>1, Bounds DEF EventUnchanged, sampling, TypeOK
  <2> HIDE DEF k
  <2> QED BY <1>1, <2>1, <2>2, MarkEuc
<1>3. Remote(TrimDot(n), 0) \in Observations /\ OfWatched(Remote(TrimDot(n), 0))
      BY <1>1, SeenObservations, HostWatched
<1> QED BY <1>1, <1>2, <1>3, EventEuc

LEMMA ReaderExitEuc == ASSUME EucInv, ReaderExit PROVE EucInv'
<1>1. /\ reader \in {"sending", "reading"} /\ reader' = "exited" /\ event' = Nothing
      /\ UNCHANGED marks /\ EventUnchanged
      BY DEF ReaderExit
<1>2. MarksType' /\ MarkInv' /\ NoEarlyRepeat'
      BY <1>1, MarksSame DEF EventUnchanged, sampling
<1> QED BY <1>1, <1>2, SeenObservations, EventEuc

LEMMA EventSendEuc == ASSUME EucInv, EventSend PROVE EucInv'
<1>1. /\ TypeOK /\ OnlyWatched /\ HandleInv
      /\ reader = "sending" /\ obs' = Append(obs, event) /\ event' = Nothing
      /\ reader' \in {"exited", "reading"} /\ Len(obs) < Capacity
      /\ UNCHANGED <<platform, cfg, watch, handles, sampler, scan, burst, hold, stall, due, seen,
                     last, early, ctx, closed>>
      BY DEF EucInv, EventSend, HasRoom, lists, sampling, marks
<1>2. /\ obs \in Seq(Observations) /\ event \in Observations
      BY <1>1 DEF TypeOK
<1>3. /\ obs' \in Seq(Observations) /\ Len(obs') = Len(obs) + 1
      /\ Range(obs') \subseteq Range(obs) \cup {event}
      BY <1>1, <1>2, AppendRange
<1>4. Len(obs') <= Capacity
  <2>1. Len(obs) \in Nat /\ Capacity \in Nat
        BY <1>2, Bounds
  <2> QED BY <1>1, <1>3, <2>1
<1>5. TypeOK'
      BY <1>1, <1>3, <1>4, SeenObservations DEF TypeOK
<1>6. OnlyWatched'
  <2>1. \A o \in InFlight' : o \in InFlight
        BY <1>1, <1>3 DEF InFlight
  <2> QED BY <1>1, <2>1, FlightKept
<1>7. HandleInv'
  <2>1. sampler # "off"
        BY <1>1 DEF HandleInv
  <2> QED BY <1>1, <2>1, HandlesKept
<1>8. MarkInv' /\ NoEarlyRepeat'
      BY <1>1, MarksKept DEF EucInv
<1> QED BY <1>5, <1>6, <1>7, <1>8 DEF EucInv

-----------------------------------------------------------------------------
(* The sampler.  A step of it that sends nothing.                          *)
LEMMA SamplerEuc ==
  ASSUME EucInv, SamplerUnchanged, sampler # "off",
         sampler' \in {"waiting", "sampling", "exited"}, scan' \in SUBSET Conns,
         stall' \in 0 .. MaxStall, due' \in BOOLEAN, obs' = obs,
         hold' \in Seq(Observations), \A o \in Range(hold') : o \in Range(hold) \/ OfWatched(o),
         MarksType' /\ MarkInv' /\ NoEarlyRepeat'
  PROVE  EucInv'
<1>1. /\ TypeOK /\ OnlyWatched /\ HandleInv
      /\ UNCHANGED <<platform, cfg, watch, handles, reader, event, ctx, closed>>
      BY DEF EucInv, SamplerUnchanged, lists, source
<1>2. TypeOK'
      BY <1>1 DEF TypeOK, MarksType
<1>3. OnlyWatched'
  <2>1. \A o \in InFlight' : o \in InFlight \/ OfWatched(o)
        BY <1>1 DEF InFlight
  <2> QED BY <1>1, <2>1, FlightKept
<1>4. HandleInv'
      BY <1>1, HandlesKept
<1> QED BY <1>2, <1>3, <1>4 DEF EucInv

LEMMA PollBeginEuc == ASSUME EucInv, PollBegin PROVE EucInv'
<1>1. /\ TypeOK /\ MarkInv /\ NoEarlyRepeat /\ SamplerUnchanged /\ sampler = "waiting"
      /\ due' = FALSE /\ sampler' = "sampling" /\ scan' \in SUBSET Conns /\ stall' = 0
      /\ seen' = [k \in Keys |-> IF Expired(seen[k]) THEN Never ELSE seen[k]]
      /\ UNCHANGED <<hold, last, early, obs>>
      BY DEF EucInv, PollBegin
<1>2. /\ seen \in [Keys -> -1 .. MaxAge] /\ last \in [Keys -> -1 .. MaxAge]
      /\ stall \in 0 .. MaxStall /\ hold \in Seq(Observations) /\ early \in BOOLEAN
      BY <1>1 DEF TypeOK
<1>3. \A age \in -1 .. MaxAge : Expired(age) => age >= TTL
      BY Bounds DEF Expired
<1>4. MarksType'
  <2>1. Never \in -1 .. MaxAge
        BY Bounds
  <2> QED BY <1>1, <1>2, <2>1 DEF MarksType
<1>5. ASSUME NEW k \in Keys PROVE MarkOK(k)'
  <2>1. /\ seen'[k] = IF Expired(seen[k]) THEN Never ELSE seen[k]
        /\ last'[k] = last[k] /\ seen[k] \in -1 .. MaxAge /\ last[k] \in -1 .. MaxAge
        BY <1>1, <1>2
  <2>2. seen[k] = last[k] \/ (seen[k] = Never /\ last[k] - stall >= TTL)
        BY <1>1 DEF MarkInv, MarkOK
  <2>3. seen'[k] = last'[k] \/ (seen'[k] = Never /\ last'[k] - 0 >= TTL)
    <3>1. CASE seen[k] = last[k] /\ Expired(seen[k])
      <4>1. last[k] >= TTL
            BY <1>3, <2>1, <3>1
      <4> QED BY <2>1, <3>1, <4>1, Bounds
    <3>2. CASE seen[k] = last[k] /\ ~Expired(seen[k])
          BY <2>1, <3>2
    <3>3. CASE seen[k] = Never /\ last[k] - stall >= TTL
          BY <1>2, <2>1, <3>3, Bounds
    <3> QED BY <2>2, <3>1, <3>2, <3>3
  <2> QED BY <1>1, <2>3 DEF MarkOK
<1>6. MarkInv' /\ NoEarlyRepeat'
      BY <1>1, <1>5 DEF MarkInv, NoEarlyRepeat
<1>7. 0 \in 0 .. MaxStall
      BY Bounds
<1> QED BY <1>1, <1>2, <1>4, <1>6, <1>7, SamplerEuc

LEMMA ExamineEuc == ASSUME EucInv, NEW c \in Conns, Examine(c) PROVE EucInv'
<1>1. /\ TypeOK /\ MarkInv /\ NoEarlyRepeat /\ SamplerUnchanged /\ sampler = "sampling"
      /\ scan' = scan \ {c} /\ UNCHANGED <<sampler, stall, due, obs>>
      /\ scan \subseteq Conns /\ stall \in 0 .. MaxStall /\ due \in BOOLEAN
      BY DEF EucInv, TypeOK, Examine
<1>2. /\ PortKey(c.lport) # HostKey(c.remote)
      /\ Fresh(c) \subseteq OfInterest(c) /\ Fresh(c) \subseteq Keys
      /\ PortKey(c.lport) \in Fresh(c) => Watched(c.lport)
      /\ HostKey(c.remote) \in Fresh(c) => MatchHost(c.remote, cfg.endpoints)
  <2>1. PortKey(c.lport) # HostKey(c.remote)
        BY DEF PortKey, HostKey
  <2>2. Fresh(c) \subseteq OfInterest(c)
        BY DEF Fresh
  <2>3. /\ OfInterest(c) \subseteq {PortKey(c.lport), HostKey(c.remote)}
        /\ PortKey(c.lport) \in OfInterest(c) => Watched(c.lport)
        /\ HostKey(c.remote) \in OfInterest(c) => MatchHost(c.remote, cfg.endpoints)
        BY <2>1 DEF OfInterest
  <2>4. PortKey(c.lport) \in Keys /\ HostKey(c.remote) \in Keys
        BY DEF Keys
  <2> QED BY <2>1, <2>2, <2>3, <2>4
<1>3. MarksType' /\ MarkInv' /\ NoEarlyRepeat'
  <2>1. CASE platform = "windows"
    <3>1. UNCHANGED marks
          BY <2>1 DEF Examine
    <3> QED BY <1>1, <3>1, MarksSame
  <2>2. CASE platform # "windows"
    <3>1. Mark(Fresh(c), Fresh(c), stall) /\ \A k \in Fresh(c) : NotSeen(k, stall)
          BY <2>2 DEF Examine, Marked, Fresh
    <3>2. stall \in 0 .. stall
          BY <1>1, Bounds
    <3> QED BY <1>1, <1>2, <3>1, <3>2, MarkEuc
  <2> QED BY <2>1, <2>2
<1>4. hold' \in Seq(Observations) /\ \A o \in Range(hold') : OfWatched(o)
  <2> DEFINE x == Remote(c.remote, 0)
             y == Local(c.lport)
             a == IF HostKey(c.remote) \in Fresh(c) THEN <<x>> ELSE <<>>
             b == IF PortKey(c.lport) \in Fresh(c) THEN <<y>> ELSE <<>>
  <2>1. hold' = a \o b
        BY DEF Examine
  <2>2. x \in Observations /\ y \in Observations
        BY SeenObservations
  <2>3. /\ a # <<>> => HostKey(c.remote) \in Fresh(c)
        /\ b # <<>> => PortKey(c.lport) \in Fresh(c)
        OBVIOUS
  <2> HIDE DEF x, y
  <2>7. (a = <<>> \/ a = <<x>>) /\ (b = <<>> \/ b = <<y>>)
        OBVIOUS
  <2>4. a # <<>> => OfWatched(x)
        BY <1>1, <1>2, <2>3, SeenObservations, HostWatched DEF x
  <2>5. b # <<>> => OfWatched(y)
        BY <1>2, <2>3, PortWatched DEF y
  <2> HIDE DEF a, b
  <2>6. /\ a \o b \in Seq(Observations)
        /\ \A o \in Range(a \o b) : (o = x /\ a # <<>>) \/ (o = y /\ b # <<>>)
        BY <2>2, <2>7, OneOrTwo
  <2> QED BY <2>1, <2>4, <2>5, <2>6
<1> QED BY <1>1, <1>3, <1>4, SamplerEuc

LEMMA SamplerSendEuc == ASSUME EucInv, SamplerSend PROVE EucInv'
<1>1. /\ TypeOK /\ OnlyWatched /\ HandleInv /\ hold # <<>> /\ Len(obs) < Capacity
      /\ obs' = Append(obs, Head(hold)) /\ hold' = Tail(hold)
      /\ UNCHANGED <<platform, cfg, watch, handles, reader, event, sampler, scan, burst, stall, due,
                     seen, last, early, ctx, closed>>
      BY DEF EucInv, SamplerSend, HasRoom, SamplerUnchanged, lists, source, marks
<1>2. obs \in Seq(Observations) /\ hold \in Seq(Observations)
      BY <1>1 DEF TypeOK
<1>3. /\ hold' \in Seq(Observations) /\ Head(hold) \in Observations /\ Head(hold) \in Range(hold)
      /\ Range(hold') \subseteq Range(hold)
      BY <1>1, <1>2, TailRange
<1>4. /\ obs' \in Seq(Observations) /\ Len(obs') = Len(obs) + 1
      /\ Range(obs') \subseteq Range(obs) \cup {Head(hold)}
      BY <1>1, <1>2, <1>3, AppendRange
<1>5. Len(obs') <= Capacity
  <2>1. Len(obs) \in Nat /\ Capacity \in Nat
        BY <1>2, Bounds
  <2> QED BY <1>1, <1>4, <2>1
<1>6. TypeOK'
      BY <1>1, <1>3, <1>4, <1>5 DEF TypeOK
<1>7. OnlyWatched'
  <2>1. \A o \in InFlight' : o \in InFlight
        BY <1>1, <1>3, <1>4 DEF InFlight
  <2> QED BY <1>1, <2>1, FlightKept
<1>8. HandleInv'
      BY <1>1, HandlesKept
<1>9. MarkInv' /\ NoEarlyRepeat'
      BY <1>1, MarksKept DEF EucInv
<1> QED BY <1>6, <1>7, <1>8, <1>9 DEF EucInv

LEMMA StallShorter ==
  ASSUME EucInv, UNCHANGED marks, stall' = 0
  PROVE  MarksType' /\ MarkInv' /\ NoEarlyRepeat'
<1>1. /\ TypeOK /\ MarkInv /\ NoEarlyRepeat /\ UNCHANGED <<seen, last, early>>
      BY DEF EucInv, marks
<1>2. ASSUME NEW k \in Keys PROVE MarkOK(k)'
  <2>1. seen[k] = last[k] \/ (seen[k] = Never /\ last[k] - stall >= TTL)
        BY <1>1 DEF MarkInv, MarkOK
  <2>2. last[k] - stall >= TTL => last[k] - 0 >= TTL
    <3>1. last[k] \in Int /\ stall \in Nat /\ TTL \in Int
          BY <1>1, Bounds DEF TypeOK
    <3> QED BY <3>1
  <2>3. seen'[k] = seen[k] /\ last'[k] = last[k]
        BY <1>1
  <2> QED BY <2>1, <2>2, <2>3 DEF MarkOK
<1> QED BY <1>1, <1>2 DEF MarkInv, NoEarlyRepeat, TypeOK, MarksType

LEMMA OtherPollEuc ==
  ASSUME EucInv, PollFails \/ PollEnd \/ SamplerExit
  PROVE  EucInv'
<1>1. /\ TypeOK /\ HandleInv /\ scan \subseteq Conns /\ stall \in 0 .. MaxStall /\ due \in BOOLEAN
      /\ hold \in Seq(Observations)
      /\ sampler \in {"off", "waiting", "sampling", "exited"}
      BY DEF EucInv, TypeOK
<1>2. /\ SamplerUnchanged /\ obs' = obs /\ UNCHANGED marks /\ due' \in BOOLEAN
      /\ stall' \in {stall, 0} /\ scan' \in {scan, {}} /\ hold' \in {hold, <<>>}
      /\ sampler' \in {"waiting", "exited"}
  <2>1. CASE PollFails
        BY <1>1, <2>1 DEF PollFails, sampling
  <2>2. CASE PollEnd
        BY <1>1, <2>2 DEF PollEnd
  <2>3. CASE SamplerExit
        BY <1>1, <2>3 DEF SamplerExit
  <2> QED BY <2>1, <2>2, <2>3
<1>3. sampler # "off"
      BY <1>1 DEF PollFails, PollEnd, SamplerExit, HandleInv
<1>4. MarksType' /\ MarkInv' /\ NoEarlyRepeat'
      BY <1>2, MarksSame, StallShorter
<1>5. hold' \in Seq(Observations) /\ Range(hold') \subseteq Range(hold)
  <2>1. CASE hold' = hold
        BY <1>1, <2>1
  <2>2. CASE hold' = <<>>
    <3>1. <<>> \in Seq(Observations)
          OBVIOUS
    <3> QED BY <2>2, <3>1, NothingIn
  <2> QED BY <1>2, <2>1, <2>2
<1>6. stall' \in 0 .. MaxStall
      BY <1>1, <1>2, Bounds
<1> QED BY <1>1, <1>2, <1>3, <1>4, <1>5, <1>6, SamplerEuc

-----------------------------------------------------------------------------
(* The consumer, reload, the end, and time.                                *)
LEMMA FanOutEuc == ASSUME EucInv, FanOut PROVE EucInv'
<1>1. /\ TypeOK /\ OnlyWatched /\ HandleInv /\ obs # <<>> /\ obs' = Tail(obs)
      /\ UNCHANGED <<platform, cfg, watch, handles, reader, event, sampler, scan, burst, hold, stall,
                     due, seen, last, early, ctx, closed>>
      BY DEF EucInv, FanOut, lists, source, sampling, marks
<1>2. /\ obs \in Seq(Observations) /\ Len(obs) <= Capacity
      BY <1>1 DEF TypeOK
<1>3. /\ obs' \in Seq(Observations) /\ Len(obs') = Len(obs) - 1 /\ Range(obs') \subseteq Range(obs)
      BY <1>1, <1>2, TailRange
<1>4. Len(obs') <= Capacity
  <2>1. Len(obs) \in Nat /\ Capacity \in Nat
        BY <1>2, Bounds
  <2> QED BY <1>2, <1>3, <2>1
<1>5. TypeOK'
      BY <1>1, <1>3, <1>4 DEF TypeOK
<1>6. OnlyWatched'
  <2>1. \A o \in InFlight' : o \in InFlight
        BY <1>1, <1>3 DEF InFlight
  <2> QED BY <1>1, <2>1, FlightKept
<1>7. HandleInv' /\ MarkInv' /\ NoEarlyRepeat'
      BY <1>1, HandlesKept, MarksKept DEF EucInv
<1> QED BY <1>5, <1>6, <1>7 DEF EucInv

LEMMA EndEuc ==
  ASSUME EucInv, Reload \/ Cancel \/ Close \/ StopEtw \/ UNCHANGED vars
  PROVE  EucInv'
<1>1. /\ TypeOK /\ OnlyWatched /\ HandleInv
      /\ UNCHANGED <<platform, cfg, reader, event, sampler, scan, burst, hold, stall, due,
                     seen, last, early, obs>>
      BY DEF EucInv, Reload, Cancel, Close, StopEtw, vars, lists, source, sampling, marks
<1>2. /\ watch' \in Configs \cup {Effective(c) : c \in Configs}
      /\ handles' \subseteq handles /\ ctx' \in {"live", "done"} /\ closed' \in BOOLEAN
  <2>1. /\ watch \in Configs \cup {Effective(c) : c \in Configs}
        /\ ctx \in {"live", "done"} /\ closed \in BOOLEAN
        BY <1>1 DEF TypeOK
  <2>2. CASE Reload \/ Cancel \/ UNCHANGED vars
        BY <2>1, <2>2 DEF Reload, Cancel, source, lists, vars
  <2>3. CASE Close \/ StopEtw
        BY <2>1, <2>3 DEF Close, StopEtw, AllClosed, lists
  <2> QED BY <2>2, <2>3
<1>3. TypeOK'
      BY <1>1, <1>2 DEF TypeOK
<1>4. OnlyWatched'
  <2>1. \A o \in InFlight' : o \in InFlight
        BY <1>1 DEF InFlight
  <2> QED BY <1>1, <2>1, FlightKept
<1>5. MarkInv' /\ NoEarlyRepeat'
      BY <1>1, MarksKept DEF EucInv
<1>6. /\ sampler = "off" => ctx' = ctx /\ closed' = closed
      /\ ctx = "done" => ctx' = "done"
      /\ closed' => ctx' = "done" /\ handles' \cap KernelHandles = {}
  <2>1. CASE Reload \/ UNCHANGED vars
        BY <1>1, <2>1 DEF Reload, source, vars, HandleInv
  <2>2. CASE Cancel
        BY <1>1, <2>2 DEF Cancel, source, HandleInv
  <2>3. CASE Close
        BY <1>1, <2>3 DEF Close, AllClosed, KernelHandles, HandleInv
  <2>4. CASE StopEtw
        BY <1>1, <2>4 DEF StopEtw, HandleInv
  <2> QED BY <2>1, <2>2, <2>3, <2>4
<1>7. HandleInv'
  <2>1. (handles' \subseteq (CASE platform = "linux" -> KernelHandles
                               [] platform = "windows" -> {"session", "consumer", "dns"}
                               [] platform = "darwin" -> {}))
        BY <1>1, <1>2 DEF HandleInv
  <2>2. sampler' = "off" => handles' = {} /\ reader' = "none"
        BY <1>1, <1>2 DEF HandleInv
  <2>3. ctx' = "done" => sampler' # "off"
        BY <1>1, <1>6 DEF HandleInv
  <2> QED BY <1>1, <1>6, <2>1, <2>2, <2>3 DEF HandleInv
<1> QED BY <1>3, <1>4, <1>5, <1>7 DEF EucInv

LEMMA OldestStays ==
  ASSUME NEW a \in Nat, NEW b \in Nat, NEW c \in Nat, c <= b
  PROVE  (a + b + 1) - c >= a
OBVIOUS

LEMMA TickEuc == ASSUME EucInv, Tick PROVE EucInv'
<1>1. /\ TypeOK /\ OnlyWatched /\ MarkInv /\ NoEarlyRepeat /\ HandleInv
      /\ sampler \in {"waiting", "sampling"} /\ due' = TRUE
      /\ sampler = "sampling" => stall < MaxStall
      /\ stall' = IF sampler = "sampling" THEN stall + 1 ELSE 0
      /\ seen' = [k \in Keys |-> Older(seen[k])] /\ last' = [k \in Keys |-> Older(last[k])]
      /\ UNCHANGED <<platform, cfg, watch, handles, reader, event, sampler, scan, burst, hold,
                     early, obs, ctx, closed>>
      BY DEF EucInv, Tick, lists, source
<1>2. /\ seen \in [Keys -> -1 .. MaxAge] /\ last \in [Keys -> -1 .. MaxAge]
      /\ stall \in 0 .. MaxStall
      BY <1>1 DEF TypeOK
<1>3. /\ stall' \in 0 .. MaxStall /\ stall' <= stall + 1 /\ stall' \in Nat /\ stall \in Nat
      BY <1>1, <1>2, Bounds
<1>4. \A a \in -1 .. MaxAge : /\ Older(a) \in -1 .. MaxAge
                              /\ a = Never => Older(a) = Never
                              /\ a # Never => Older(a) = a + 1 \/ Older(a) = MaxAge
      BY Bounds DEF Older
<1>5. TypeOK'
  <2>1. seen' \in [Keys -> -1 .. MaxAge] /\ last' \in [Keys -> -1 .. MaxAge]
        BY <1>1, <1>2, <1>4
  <2> QED BY <1>1, <1>3, <2>1 DEF TypeOK
<1>6. ASSUME NEW k \in Keys PROVE MarkOK(k)'
  <2>1. /\ seen'[k] = Older(seen[k]) /\ last'[k] = Older(last[k])
        /\ seen[k] \in -1 .. MaxAge /\ last[k] \in -1 .. MaxAge
        BY <1>1, <1>2
  <2>2. CASE seen[k] = last[k]
        BY <2>1, <2>2 DEF MarkOK
  <2>3. CASE seen[k] = Never /\ last[k] - stall >= TTL
    <3>1. seen'[k] = Never /\ last[k] # Never
          BY <1>3, <1>4, <2>1, <2>3, Bounds
    <3>2. last'[k] = last[k] + 1 \/ last'[k] = MaxAge
          BY <1>4, <2>1, <3>1
    <3>3. last'[k] - stall' >= TTL
      <4>1. CASE last'[k] = last[k] + 1
            BY <1>3, <2>1, <2>3, <4>1, Bounds
      <4>2. CASE last'[k] = MaxAge
        <5>1. /\ stall' \in Nat /\ stall' <= MaxStall /\ MaxStall \in Nat /\ TTL \in Nat
              BY <1>3, Bounds
        <5>2. (TTL + MaxStall + 1) - stall' >= TTL
              BY <5>1, OldestStays
        <5> QED BY <4>2, <5>2, Bounds
      <4> QED BY <3>2, <4>1, <4>2
    <3> QED BY <3>1, <3>3 DEF MarkOK
  <2> QED BY <1>1, <2>2, <2>3 DEF MarkInv, MarkOK
<1>7. MarkInv' /\ NoEarlyRepeat'
      BY <1>1, <1>6 DEF MarkInv, NoEarlyRepeat
<1>8. OnlyWatched'
  <2>1. \A o \in InFlight' : o \in InFlight
        BY <1>1 DEF InFlight
  <2> QED BY <1>1, <2>1, FlightKept
<1>9. HandleInv'
      BY <1>1, HandlesKept
<1> QED BY <1>5, <1>7, <1>8, <1>9 DEF EucInv

LEMMA StepEuc == EucInv /\ [Next]_vars => EucInv'
<1> SUFFICES ASSUME EucInv, [Next]_vars PROVE EucInv'
    OBVIOUS
<1>1. CASE Start \/ EventSend \/ ReaderExit
      BY <1>1, StartEuc, EventSendEuc, ReaderExitEuc
<1>2. CASE (\E c \in Conns : LinuxEvent(c) \/ WindowsEvent(c)) \/ \E n \in Names : DnsEvent(n)
      BY <1>2, LinuxEventEuc, WindowsEventEuc, DnsEventEuc
<1>3. CASE Poll \/ PollFails \/ SamplerExit
      BY <1>3, PollBeginEuc, ExamineEuc, SamplerSendEuc, OtherPollEuc DEF Poll
<1>4. CASE FanOut \/ Reload \/ Cancel \/ Close \/ StopEtw \/ Tick \/ UNCHANGED vars
      BY <1>4, FanOutEuc, EndEuc, TickEuc
<1> QED BY <1>1, <1>2, <1>3, <1>4 DEF Next

(* The invariant of EucCollector, for any instance.                        *)
THEOREM EucCorrect == Spec => []EucInv
<1> QED BY InitEuc, StepEuc, PTL DEF Spec

(* netcommon.go:30-35: whatever platform and path, only what lies on a     *)
(* watched port, or at or below a watched domain, is observed; no longer   *)
(* name that merely ends in the same letters.                              *)
THEOREM OnlyWatchedObserved == Spec => []OnlyWatched
<1>1. EucInv => OnlyWatched
      BY DEF EucInv
<1> QED BY <1>1, EucCorrect, PTL

(* linux.go:58-61, darwin.go:40-43, windows.go:68-70: no port, address or  *)
(* name is observed again within the window, for any window and however    *)
(* long the sampler is held up.                                            *)
THEOREM RepeatsAreSuppressed == Spec => []NoEarlyRepeat
<1>1. EucInv => NoEarlyRepeat
      BY DEF EucInv
<1> QED BY <1>1, EucCorrect, PTL

(* linux.go:351-378: once Close has been called no probe, map or ring is   *)
(* open in the kernel, and none is opened again.                           *)
THEOREM ClosedStaysClosed == Spec => [](closed => handles \cap KernelHandles = {})
<1>1. EucInv => (closed => handles \cap KernelHandles = {})
      BY DEF EucInv, HandleInv
<1> QED BY <1>1, EucCorrect, PTL
=============================================================================
