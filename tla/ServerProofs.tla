----------------------------- MODULE ServerProofs -----------------------------
(***************************************************************************)
(* Theorems about the server's parts, for all values of their constants:   *)
(* the client of the sources, the sources of an account, the database, an  *)
(* update, sessions, the row of a title, icons and the key of MangaHub;    *)
(* and that the specification of all parts keeps what each of them keeps.  *)
(***************************************************************************)
EXTENDS MCServer, AccountProofs, FunctionTheorems, SequenceTheorems

-----------------------------------------------------------------------------
(* Queues: a sequence that holds each member of a set once.  The line for  *)
(* a permit, the chain of a host and the line for the browser are such.    *)

Lined(s, S) ==
    /\ \A i \in DOMAIN s : s[i] \in S
    /\ \A x \in S : \E i \in DOMAIN s : s[i] = x
    /\ \A i, j \in DOMAIN s : s[i] = s[j] => i = j

(* Nobody waits in an empty queue.                                         *)
LEMMA LinedEmpty == ASSUME NEW T PROVE Lined(<<>>, {})
BY DEF Lined

(* The first in a queue is one of those it is for; if one is, it has one.  *)
LEMMA LinedHead ==
  ASSUME NEW T, NEW s \in Seq(T), NEW S, Lined(s, S)
  PROVE  /\ s # <<>> => Head(s) \in S
         /\ S # {} => s # <<>>
<1>1. ASSUME s # <<>> PROVE Head(s) \in S
  <2>1. 1 \in DOMAIN s /\ Head(s) = s[1]
    BY <1>1, LenProperties, EmptySeq
  <2> QED  BY <2>1 DEF Lined
<1>2. ASSUME S # {} PROVE s # <<>>
  BY <1>2 DEF Lined
<1> QED  BY <1>1, <1>2

(* Who joins at the end is in the queue once more.                         *)
LEMMA LinedAppend ==
  ASSUME NEW T, NEW s \in Seq(T), NEW S, Lined(s, S), NEW c \in T, c \notin S
  PROVE  /\ Append(s, c) \in Seq(T)
         /\ Lined(Append(s, c), S \cup {c})
         /\ s # <<>> => Head(Append(s, c)) = Head(s)
         /\ s = <<>> => Head(Append(s, c)) = c
<1> DEFINE t == Append(s, c)
<1>1. /\ t \in Seq(T) /\ Len(t) = Len(s) + 1 /\ t[Len(s) + 1] = c
      /\ \A i \in 1..Len(s) : t[i] = s[i]
  BY AppendProperties
<1>2. DOMAIN t = 1..(Len(s) + 1) /\ DOMAIN s = 1..Len(s) /\ Len(s) \in Nat
  BY <1>1, LenProperties
<1>3. \A i \in DOMAIN t : i = Len(s) + 1 \/ i \in DOMAIN s
  BY <1>2
<1>4. \A i \in DOMAIN t : t[i] \in S \cup {c}
  BY <1>1, <1>2, <1>3 DEF Lined
<1>5. ASSUME NEW x \in S \cup {c} PROVE \E i \in DOMAIN t : t[i] = x
  <2>1. CASE x = c
    BY <2>1, <1>1, <1>2
  <2>2. CASE x \in S
    <3>1. PICK i \in DOMAIN s : s[i] = x
      BY <2>2 DEF Lined
    <3> QED  BY <3>1, <1>1, <1>2
  <2> QED  BY <2>1, <2>2
<1>6. ASSUME NEW i \in DOMAIN t, NEW j \in DOMAIN t, t[i] = t[j] PROVE i = j
  BY <1>6, <1>1, <1>2, <1>3 DEF Lined
<1>7. /\ s # <<>> => Head(t) = Head(s)
      /\ s = <<>> => Head(t) = c
  BY HeadTailAppend
<1> QED  BY <1>1, <1>4, <1>5, <1>6, <1>7 DEF Lined

(* When the first leaves, the others are left.                             *)
LEMMA LinedTail ==
  ASSUME NEW T, NEW s \in Seq(T), NEW S, Lined(s, S), s # <<>>
  PROVE  /\ Tail(s) \in Seq(T)
         /\ Lined(Tail(s), S \ {Head(s)})
         /\ Head(s) \in S
<1> DEFINE t == Tail(s)
<1>1. /\ t \in Seq(T) /\ Len(t) = Len(s) - 1
      /\ \A i \in 1..Len(t) : t[i] = s[i + 1]
  BY HeadTailProperties
<1>2. DOMAIN t = 1..(Len(s) - 1) /\ DOMAIN s = 1..Len(s) /\ Len(s) \in Nat \ {0}
  BY <1>1, LenProperties, EmptySeq
<1>3. Head(s) = s[1]
  BY <1>2
<1>4. \A i \in DOMAIN t : i + 1 \in DOMAIN s /\ i + 1 # 1 /\ t[i] = s[i + 1]
  BY <1>1, <1>2
<1>5. \A i \in DOMAIN t : t[i] \in S \ {Head(s)}
  BY <1>2, <1>3, <1>4 DEF Lined
<1>6. ASSUME NEW x \in S \ {Head(s)} PROVE \E i \in DOMAIN t : t[i] = x
  <2>1. PICK k \in DOMAIN s : s[k] = x
    BY <1>6 DEF Lined
  <2>2. k # 1 /\ k - 1 \in DOMAIN t /\ t[k - 1] = s[k]
    BY <2>1, <1>1, <1>2, <1>3
  <2> QED  BY <2>1, <2>2
<1>7. ASSUME NEW i \in DOMAIN t, NEW j \in DOMAIN t, t[i] = t[j] PROVE i = j
  <2>1. i + 1 = j + 1
    BY <1>7, <1>4 DEF Lined
  <2> QED  BY <2>1, <1>2
<1>8. Head(s) \in S
  BY LinedHead
<1> QED  BY <1>1, <1>5, <1>6, <1>7, <1>8 DEF Lined

(* A queue is as long as it has members.                                   *)
LEMMA LinedLength ==
  ASSUME NEW T, NEW s \in Seq(T), NEW S, Lined(s, S)
  PROVE  IsFiniteSet(S) /\ Cardinality(S) = Len(s)
<1>1. DOMAIN s = 1..Len(s) /\ Len(s) \in Nat
  BY LenProperties
<1>2. s \in [1..Len(s) -> S]
  BY <1>1, LenProperties DEF Lined
<1>3. s \in Bijection(1..Len(s), S)
  BY <1>1, <1>2, Fun_IsBij DEF Lined
<1>4. IsFiniteSet(1..Len(s)) /\ Cardinality(1..Len(s)) = Len(s)
  BY <1>1, FS_Interval
<1> QED  BY <1>3, <1>4, FS_Bijection DEF ExistsBijection

-----------------------------------------------------------------------------
(* Types.                                                                  *)

(* A power of two is a number: it counts the subsets of a set.             *)
LEMMA PowerOfTwo == ASSUME NEW n \in Nat PROVE 2^n \in Nat
<1>1. IsFiniteSet(1..n) /\ Cardinality(1..n) = n
  BY FS_Interval
<1>2. IsFiniteSet(SUBSET (1..n)) /\ Cardinality(SUBSET (1..n)) = 2^n
  BY <1>1, FS_SUBSET
<1> QED  BY <1>2, FS_CardinalityType

LEMMA JitterTyped ==
  ASSUME NEW ms \in Nat
  PROVE  \A j \in Jittered(ms) : j \in Nat /\ j >= (ms * 7) \div 10 /\ j <= (ms * 13) \div 10
BY DEF Jittered

LEMMA BackoffTyped ==
  ASSUME NEW k \in Nat \ {0}
  PROVE  Backoff(k) \in Nat
<1>1. 2^(k - 1) \in Nat
  BY PowerOfTwo
<1>2. BackoffBase \in Nat /\ BackoffMax \in Nat
  BY SourceHttpAssumption
<1>3. BackoffBase * 2^(k - 1) \in Nat
  BY <1>1, <1>2
<1> QED  BY <1>2, <1>3 DEF Backoff, Smaller

-----------------------------------------------------------------------------
(* The inductive invariant.                                                *)

Fetching == {c \in Calls : call[c].pc = "fetching"}
InLine == {c \in Calls : call[c].pc = "permit"}
AtBrowser == {c \in Calls : call[c].pc \in {"toSolve", "solving"}}
Chained(h) == {c \in Calls : HostOf[c] = h /\ call[c].pc \in InChain}

(* The line for a permit holds those who wait for one, while none is free. *)
LineSound ==
    /\ Lined(waiting, InLine)
    /\ waiting # <<>> => permits = 0
    /\ IsFiniteSet(Fetching)
    /\ permits + Cardinality(Fetching) = MaxInFlight

(* A host's chain holds its unsettled calls; who is under way is its first.*)
ChainsSound ==
    /\ \A h \in Hosts : Lined(tails[h], Chained(h))
    /\ \A c \in Calls : call[c].pc \in Busy => Head(tails[HostOf[c]]) = c

(* The browser's queue holds the challenged, the one it serves first; none *)
(* of them joined within the cooldown of its host, and none that waits     *)
(* falls into one.                                                         *)
BrowserSound ==
    /\ Lined(solveChain, AtBrowser)
    /\ \A c \in Calls : call[c].pc = "solving" => Head(solveChain) = c
    /\ \A c \in Calls : call[c].pc = "toSolve" => sinceSolve[HostOf[c]] >= SolveCooldown

(* What a call knows of itself: its interval while it waits to begin, how  *)
(* often it has tried, and that the first try is made with its host open.  *)
CallSound(c) ==
    /\ call[c].pc \in {"queued", "spacing"} => call[c].interval \in {Calm, Slow, MinInterval[c]}
    /\ call[c].pc = "spacing" =>
            sinceStart[HostOf[c]] + call[c].timer >= (call[c].interval * 7) \div 10
    /\ call[c].pc \in {"permit", "fetching", "backoff", "toSolve", "solving"} =>
            call[c].attempt >= 1
    /\ call[c].pc = "backoff" => call[c].attempt < MaxAttempts
    /\ call[c].pc \in {"permit", "fetching"} /\ call[c].attempt = 1 =>
            cooling[HostOf[c]] = 0

HttpSound ==
    /\ HttpTypeOK
    /\ LineSound
    /\ ChainsSound
    /\ BrowserSound
    /\ \A c \in Calls : CallSound(c)

(* The steps of one call, as the others see them: they stay as they are,   *)
(* or are handed a permit they waited for.                                 *)
OthersStay(c) ==
    \A d \in Calls \ {c} :
        \/ call'[d] = call[d]
        \/ call[d].pc = "permit" /\ call'[d] = [call[d] EXCEPT !.pc = "fetching"]

(* Who waits for a permit, or has one, is under way for its host.          *)
LEMMA PcsOf ==
  /\ Busy \subseteq InChain /\ Busy \subseteq PC /\ "idle" \notin InChain
  /\ {"permit", "fetching", "toSolve", "solving"} \subseteq Busy
  /\ "queued" \in InChain /\ "queued" \notin Busy
BY DEF Busy, InChain, PC

(* The fields of a call.                                                   *)
LEMMA CallTyped ==
  ASSUME HttpTypeOK, NEW c \in Calls
  PROVE  /\ call[c] \in Call /\ call[c].pc \in PC /\ call[c].timer \in Nat
         /\ call[c].interval \in Nat /\ call[c].attempt \in 0..MaxAttempts
         /\ HostOf[c] \in Hosts /\ MaxAttempts \in Nat \ {0}
BY SourceHttpAssumption DEF HttpTypeOK, Call

LEMMA IdleTyped == Idle \in Call
BY SourceHttpAssumption DEF Idle, Call, PC

LEMMA HttpSoundInit == HttpInit => HttpSound
<1> SUFFICES ASSUME HttpInit PROVE HttpSound
  OBVIOUS
<1>1. Idle \in Call
  BY IdleTyped
<1>2. HttpTypeOK
  <2>1. failures \in [Hosts -> 0..(BreakerFailures - 1)] /\ cooling \in [Hosts -> 0..BreakerCooldown]
    BY SourceHttpAssumption DEF HttpInit
  <2>2. sinceStart \in [Hosts -> 0..LongAgo] /\ sinceSolve \in [Hosts -> 0..SolveCooldown]
    BY SourceHttpAssumption DEF HttpInit
  <2>3. tails \in [Hosts -> Seq(Calls)] /\ waiting \in Seq(Calls) /\ solveChain \in Seq(Calls)
    BY DEF HttpInit
  <2> QED  BY <1>1, <2>1, <2>2, <2>3, SourceHttpAssumption DEF HttpInit, HttpTypeOK
<1>3. \A c \in Calls : call[c].pc = "idle"
  BY DEF HttpInit, Idle
<1>4. InLine = {} /\ Fetching = {} /\ AtBrowser = {} /\ \A h \in Hosts : Chained(h) = {}
  BY <1>3 DEF InLine, Fetching, AtBrowser, Chained, InChain, Busy
<1>5. LineSound
  BY <1>4, LinedEmpty, FS_EmptySet, SourceHttpAssumption DEF HttpInit, LineSound
<1>6. ChainsSound
  BY <1>3, <1>4, LinedEmpty DEF HttpInit, ChainsSound, Busy
<1>7. BrowserSound
  BY <1>3, <1>4, LinedEmpty DEF HttpInit, BrowserSound
<1>8. \A c \in Calls : CallSound(c)
  BY <1>3 DEF CallSound
<1> QED  BY <1>2, <1>5, <1>6, <1>7, <1>8 DEF HttpSound

-----------------------------------------------------------------------------
(* The line for a permit.                                                  *)

(* A call that is neither in the line nor on the wire, before or after,    *)
(* leaves both as they are.                                                *)
LEMMA LineStays ==
  ASSUME HttpSound, NEW c \in Calls, UNCHANGED <<permits, waiting>>,
         call' \in [Calls -> Call],
         \A d \in Calls \ {c} : call'[d] = call[d],
         call[c].pc \notin {"permit", "fetching"}, call'[c].pc \notin {"permit", "fetching"}
  PROVE  LineSound'
<1>1. InLine' = InLine /\ Fetching' = Fetching
  BY DEF InLine, Fetching
<1> QED  BY <1>1 DEF HttpSound, LineSound

(* Send takes a free permit, or a place at the end of the line.            *)
LEMMA SendKeepsLine ==
  ASSUME HttpSound, NEW c \in Calls, NEW next \in Call,
         call[c].pc \notin {"permit", "fetching"}, Send(c, next)
  PROVE  /\ call' \in [Calls -> Call]
         /\ permits' \in 0..MaxInFlight /\ waiting' \in Seq(Calls)
         /\ \A d \in Calls \ {c} : call'[d] = call[d]
         /\ OthersStay(c)
         /\ call'[c].pc \in {"permit", "fetching"}
         /\ call'[c] = [next EXCEPT !.pc = call'[c].pc]
         /\ LineSound'
<1>1. /\ call \in [Calls -> Call] /\ permits \in 0..MaxInFlight /\ waiting \in Seq(Calls)
      /\ MaxInFlight \in Nat /\ LineSound
  BY SourceHttpAssumption DEF HttpSound, HttpTypeOK
<1>2. c \notin InLine /\ c \notin Fetching
  BY DEF InLine, Fetching
<1>3. CASE permits > 0
  <2>1. /\ permits' = permits - 1 /\ waiting' = waiting
        /\ call' = [call EXCEPT ![c] = [next EXCEPT !.pc = "fetching"]]
    BY <1>3 DEF Send
  <2>2. [next EXCEPT !.pc = "fetching"] \in Call
    BY DEF Call, PC
  <2>3. call' \in [Calls -> Call] /\ call'[c] = [next EXCEPT !.pc = "fetching"]
    BY <1>1, <2>1, <2>2
  <2>4. call'[c].pc = "fetching"
    BY <2>3 DEF Call
  <2>5. \A d \in Calls \ {c} : call'[d] = call[d]
    BY <1>1, <2>1
  <2>6. InLine' = InLine /\ Fetching' = Fetching \cup {c}
    BY <2>4, <2>5, <1>2 DEF InLine, Fetching
  <2>7. IsFiniteSet(Fetching') /\ Cardinality(Fetching') = Cardinality(Fetching) + 1
    BY <2>6, <1>1, <1>2, FS_AddElement DEF LineSound
  <2>8. Cardinality(Fetching) \in Nat
    BY <1>1, FS_CardinalityType DEF LineSound
  <2>9. LineSound'
    BY <1>1, <1>3, <2>1, <2>6, <2>7, <2>8 DEF LineSound
  <2> QED  BY <1>1, <1>3, <2>1, <2>3, <2>4, <2>5, <2>9 DEF OthersStay
<1>4. CASE ~(permits > 0)
  <2>1. /\ permits' = permits /\ waiting' = Append(waiting, c)
        /\ call' = [call EXCEPT ![c] = [next EXCEPT !.pc = "permit"]]
    BY <1>4 DEF Send
  <2>2. [next EXCEPT !.pc = "permit"] \in Call
    BY DEF Call, PC
  <2>3. call' \in [Calls -> Call] /\ call'[c] = [next EXCEPT !.pc = "permit"]
    BY <1>1, <2>1, <2>2
  <2>4. call'[c].pc = "permit"
    BY <2>3 DEF Call
  <2>5. \A d \in Calls \ {c} : call'[d] = call[d]
    BY <1>1, <2>1
  <2>6. InLine' = InLine \cup {c} /\ Fetching' = Fetching
    BY <2>4, <2>5, <1>2 DEF InLine, Fetching
  <2>7. waiting' \in Seq(Calls) /\ Lined(waiting', InLine')
    BY <2>1, <2>6, <1>1, <1>2, LinedAppend DEF LineSound
  <2>8. LineSound'
    BY <1>1, <1>4, <2>1, <2>6, <2>7 DEF LineSound
  <2> QED  BY <1>1, <2>1, <2>3, <2>4, <2>5, <2>7, <2>8 DEF OthersStay
<1> QED  BY <1>3, <1>4

(* Release hands the permit to the first in line, or makes it free.        *)
LEMMA ReleaseKeepsLine ==
  ASSUME HttpSound, NEW c \in Calls, NEW next \in Call,
         call[c].pc = "fetching", next.pc \notin {"permit", "fetching"}, Release(c, next)
  PROVE  /\ call' \in [Calls -> Call]
         /\ permits' \in 0..MaxInFlight /\ waiting' \in Seq(Calls)
         /\ OthersStay(c)
         /\ call'[c] = next
         /\ LineSound'
<1>1. /\ call \in [Calls -> Call] /\ permits \in 0..MaxInFlight /\ waiting \in Seq(Calls)
      /\ MaxInFlight \in Nat /\ LineSound
  BY SourceHttpAssumption DEF HttpSound, HttpTypeOK
<1>2. c \notin InLine /\ c \in Fetching
  BY DEF InLine, Fetching
<1>3. /\ Cardinality(Fetching) \in Nat \ {0} /\ IsFiniteSet(Fetching \ {c})
      /\ Cardinality(Fetching \ {c}) = Cardinality(Fetching) - 1
  BY <1>1, <1>2, FS_RemoveElement, FS_CardinalityType, FS_EmptySet DEF LineSound
<1>4. CASE waiting = <<>>
  <2>1. permits' = permits + 1 /\ waiting' = waiting /\ call' = [call EXCEPT ![c] = next]
    BY <1>4 DEF Release
  <2>2. /\ call' \in [Calls -> Call] /\ call'[c] = next
        /\ \A d \in Calls \ {c} : call'[d] = call[d]
    BY <1>1, <2>1
  <2>3. InLine' = InLine /\ Fetching' = Fetching \ {c}
    BY <2>2, <1>2 DEF InLine, Fetching
  <2>4. LineSound'
    BY <1>1, <1>3, <1>4, <2>1, <2>3 DEF LineSound
  <2>5. permits' \in 0..MaxInFlight
    BY <1>1, <1>3, <2>1 DEF LineSound
  <2> QED  BY <1>1, <2>1, <2>2, <2>4, <2>5 DEF OthersStay
<1>5. CASE waiting # <<>>
  <2> DEFINE f == Head(waiting)
  <2>1. /\ permits' = permits /\ waiting' = Tail(waiting)
        /\ call' = [call EXCEPT ![c] = next, ![f].pc = "fetching"]
    BY <1>5 DEF Release
  <2>2. /\ f \in InLine /\ waiting' \in Seq(Calls) /\ Lined(waiting', InLine \ {f})
    BY <1>1, <1>5, <2>1, LinedTail DEF LineSound
  <2>3. f \in Calls /\ f # c /\ call[f].pc = "permit" /\ f \notin Fetching
    BY <2>2, <1>2 DEF InLine, Fetching
  <2>4. [call[f] EXCEPT !.pc = "fetching"] \in Call
    BY <1>1, <2>3 DEF Call, PC
  <2>5. /\ call' \in [Calls -> Call] /\ call'[c] = next
        /\ call'[f] = [call[f] EXCEPT !.pc = "fetching"]
        /\ \A d \in Calls \ {c, f} : call'[d] = call[d]
    BY <1>1, <2>1, <2>3, <2>4
  <2>6. call'[f].pc = "fetching"
    BY <1>1, <2>3, <2>5 DEF Call
  <2>7. InLine' = InLine \ {f} /\ Fetching' = (Fetching \ {c}) \cup {f}
    <3>1. \A d \in Calls \ {f} :
             /\ call'[d].pc = "permit" <=> (d # c /\ call[d].pc = "permit")
             /\ call'[d].pc = "fetching" <=> (d # c /\ call[d].pc = "fetching")
      BY <1>1, <2>3, <2>5
    <3>2. f \in Calls /\ c \in Calls /\ call'[f].pc = "fetching" /\ call[c].pc = "fetching"
      BY <1>1, <1>2, <2>3, <2>6 DEF Fetching
    <3> QED  BY <2>3, <3>1, <3>2 DEF InLine, Fetching
  <2>8. IsFiniteSet(Fetching') /\ Cardinality(Fetching') = Cardinality(Fetching)
    <3> DEFINE rest == Fetching \ {c}
    <3>1. IsFiniteSet(rest \cup {f}) /\ Cardinality(rest \cup {f}) = Cardinality(rest) + 1
      BY <1>3, <2>3, FS_AddElement
    <3>2. Cardinality(rest) + 1 = Cardinality(Fetching)
      BY <1>3
    <3>3. Fetching' = rest \cup {f}
      BY <2>7
    <3> HIDE DEF rest
    <3> QED  BY <3>1, <3>2, <3>3
  <2>9. LineSound'
    BY <1>1, <1>5, <2>1, <2>2, <2>7, <2>8 DEF LineSound
  <2> QED  BY <1>1, <2>1, <2>2, <2>3, <2>5, <2>9 DEF OthersStay
<1> QED  BY <1>4, <1>5

-----------------------------------------------------------------------------
(* The chains of the hosts.                                                *)

(* Who is under way is the only one of its host that is.                   *)
LEMMA BusyAlone ==
  ASSUME ChainsSound, NEW c \in Calls, NEW d \in Calls, c # d,
         call[c].pc \in Busy, HostOf[d] = HostOf[c]
  PROVE  call[d].pc \notin Busy
BY DEF ChainsSound

(* Steps in which c stays in its chain, or out of it.                      *)
LEMMA ChainStays ==
  ASSUME HttpSound, NEW c \in Calls, OthersStay(c), tails' = tails,
         call' \in [Calls -> Call],
         call[c].pc \in InChain <=> call'[c].pc \in InChain,
         call'[c].pc \in Busy => Head(tails[HostOf[c]]) = c
  PROVE  ChainsSound'
<1>1. \A d \in Calls \ {c} : call'[d].pc = call[d].pc \/ {call'[d].pc, call[d].pc} \subseteq Busy
  <2> SUFFICES ASSUME NEW d \in Calls \ {c}, call[d].pc = "permit",
                      call'[d] = [call[d] EXCEPT !.pc = "fetching"]
               PROVE  {call'[d].pc, call[d].pc} \subseteq Busy
    BY DEF OthersStay
  <2>1. call'[d].pc = "fetching"
    BY CallTyped DEF HttpSound, Call
  <2> QED  BY <2>1, PcsOf
<1>2. \A h \in Hosts : Chained(h)' = Chained(h)
  BY <1>1, PcsOf DEF Chained
<1>3. \A d \in Calls : call'[d].pc \in Busy => Head(tails[HostOf[d]]) = d
  BY <1>1 DEF HttpSound, ChainsSound
<1> QED  BY <1>2, <1>3 DEF HttpSound, ChainsSound

(* A call that settles was the first of its host's chain, and leaves it.   *)
LEMMA ChainLeft ==
  ASSUME HttpSound, NEW c \in Calls, OthersStay(c), Unchain(c),
         call' \in [Calls -> Call], call[c].pc \in Busy, call'[c] = Idle
  PROVE  tails' \in [Hosts -> Seq(Calls)] /\ ChainsSound'
<1> DEFINE h == HostOf[c]
<1>1. /\ h \in Hosts /\ tails \in [Hosts -> Seq(Calls)]
      /\ tails' = [tails EXCEPT ![h] = Tail(@)] /\ ChainsSound
  BY CallTyped DEF HttpSound, HttpTypeOK, Unchain
<1>2. c \in Chained(h) /\ Head(tails[h]) = c /\ Lined(tails[h], Chained(h))
  BY <1>1, PcsOf DEF Chained, ChainsSound
<1>3. tails[h] \in Seq(Calls) /\ tails[h] # <<>>
  BY <1>1, <1>2, LinedHead
<1>4. Tail(tails[h]) \in Seq(Calls) /\ Lined(Tail(tails[h]), Chained(h) \ {c})
  BY <1>2, <1>3, LinedTail
<1>5. tails' \in [Hosts -> Seq(Calls)]
  BY <1>1, <1>4
<1>6. \A d \in Calls \ {c} : call'[d].pc = call[d].pc \/ {call'[d].pc, call[d].pc} \subseteq Busy
  <2> SUFFICES ASSUME NEW d \in Calls \ {c}, call[d].pc = "permit",
                      call'[d] = [call[d] EXCEPT !.pc = "fetching"]
               PROVE  {call'[d].pc, call[d].pc} \subseteq Busy
    BY DEF OthersStay
  <2>1. call'[d].pc = "fetching"
    BY CallTyped DEF HttpSound, Call
  <2> QED  BY <2>1, PcsOf
<1>7. call'[c].pc = "idle"
  BY DEF Idle
<1>8. \A k \in Hosts : Chained(k)' = IF k = h THEN Chained(k) \ {c} ELSE Chained(k)
  BY <1>6, <1>7, PcsOf DEF Chained
<1>9. \A k \in Hosts : Lined(tails'[k], Chained(k)')
  BY <1>1, <1>4, <1>8 DEF ChainsSound
<1>10. ASSUME NEW d \in Calls, call'[d].pc \in Busy PROVE Head(tails'[HostOf[d]]) = d
  <2>1. d # c /\ call[d].pc \in Busy
    BY <1>6, <1>7, <1>10, PcsOf
  <2>2. HostOf[d] # h /\ HostOf[d] \in Hosts
    BY <1>1, <2>1, BusyAlone, CallTyped DEF HttpSound
  <2> QED  BY <1>1, <2>1, <2>2 DEF ChainsSound
<1> QED  BY <1>5, <1>9, <1>10 DEF ChainsSound

(* A new call joins its host's chain at the end.                           *)
LEMMA ChainJoined ==
  ASSUME HttpSound, NEW c \in Calls, Request(c)
  PROVE  /\ call' \in [Calls -> Call] /\ tails' \in [Hosts -> Seq(Calls)]
         /\ call'[c].pc = "queued" /\ call'[c].interval \in {Calm, Slow, MinInterval[c]}
         /\ \A d \in Calls \ {c} : call'[d] = call[d]
         /\ ChainsSound'
<1> DEFINE h == HostOf[c]
           next == [Idle EXCEPT !.pc = "queued", !.interval = Larger(Floor(h), MinInterval[c])]
<1>1. /\ h \in Hosts /\ tails \in [Hosts -> Seq(Calls)] /\ call \in [Calls -> Call]
      /\ call[c] = Idle /\ call' = [call EXCEPT ![c] = next]
      /\ tails' = [tails EXCEPT ![h] = Append(@, c)] /\ ChainsSound
  BY CallTyped DEF HttpSound, HttpTypeOK, Request
<1>2. Larger(Floor(h), MinInterval[c]) \in {Calm, Slow, MinInterval[c]} \cap Nat
  BY SourceHttpAssumption DEF Larger, Floor
<1>3. next \in Call
  <2>1. ASSUME NEW i \in Nat PROVE [Idle EXCEPT !.pc = "queued", !.interval = i] \in Call
    BY IdleTyped DEF Call, PC
  <2> QED  BY <1>2, <2>1
<1>4. /\ call' \in [Calls -> Call] /\ call'[c] = next
      /\ \A d \in Calls \ {c} : call'[d] = call[d]
  BY <1>1, <1>3
<1>5. /\ call[c].pc = "idle" /\ call'[c].pc = "queued"
      /\ call'[c].interval = Larger(Floor(h), MinInterval[c])
  BY <1>1, <1>4 DEF Idle
<1>6. Lined(tails[h], Chained(h)) /\ c \notin Chained(h) /\ tails[h] \in Seq(Calls)
  BY <1>1, <1>5, PcsOf DEF Chained, ChainsSound
<1>7. /\ Append(tails[h], c) \in Seq(Calls) /\ Lined(Append(tails[h], c), Chained(h) \cup {c})
      /\ tails[h] # <<>> => Head(Append(tails[h], c)) = Head(tails[h])
  BY <1>6, LinedAppend
<1>8. \A k \in Hosts : Chained(k)' = IF k = h THEN Chained(k) \cup {c} ELSE Chained(k)
  BY <1>1, <1>4, <1>5, PcsOf DEF Chained
<1>9. \A k \in Hosts : Lined(tails'[k], Chained(k)')
  BY <1>1, <1>7, <1>8 DEF ChainsSound
<1>10. ASSUME NEW d \in Calls, call'[d].pc \in Busy PROVE Head(tails'[HostOf[d]]) = d
  <2>1. d # c /\ call[d].pc \in Busy
    BY <1>4, <1>5, <1>10, PcsOf
  <2>2. HostOf[d] \in Hosts /\ Head(tails[HostOf[d]]) = d
    BY <1>1, <2>1, CallTyped DEF HttpSound, ChainsSound
  <2>3. CASE HostOf[d] # h
    BY <1>1, <2>2, <2>3
  <2>4. CASE HostOf[d] = h
    <3>1. tails[h] # <<>>
      BY <1>6, <2>1, <2>4, PcsOf, LinedHead DEF Chained
    <3> QED  BY <1>1, <1>7, <2>2, <2>4, <3>1
  <2> QED  BY <2>3, <2>4
<1> QED  BY <1>1, <1>2, <1>3, <1>4, <1>5, <1>7, <1>9, <1>10 DEF ChainsSound

-----------------------------------------------------------------------------
(* The browser's queue.                                                    *)

(* A permit handed on concerns nobody at the browser.                      *)
LEMMA OthersAtBrowser ==
  ASSUME HttpSound, NEW c \in Calls, OthersStay(c), NEW d \in Calls \ {c}
  PROVE  call'[d].pc = call[d].pc \/ {call'[d].pc, call[d].pc} \subseteq {"permit", "fetching"}
<1> SUFFICES ASSUME call[d].pc = "permit", call'[d] = [call[d] EXCEPT !.pc = "fetching"]
             PROVE  call'[d].pc = "fetching"
  BY DEF OthersStay
<1> QED  BY CallTyped DEF HttpSound, Call

LEMMA BrowserStays ==
  ASSUME HttpSound, NEW c \in Calls, OthersStay(c), UNCHANGED solver,
         call[c].pc \notin {"toSolve", "solving"}, call'[c].pc \notin {"toSolve", "solving"}
  PROVE  BrowserSound'
<1>1. \A d \in Calls : \A p \in {"toSolve", "solving"} : call'[d].pc = p <=> call[d].pc = p
  BY OthersAtBrowser
<1>2. AtBrowser' = AtBrowser
  BY <1>1 DEF AtBrowser
<1> QED  BY <1>1, <1>2 DEF HttpSound, BrowserSound, solver

LEMMA BrowserJoined ==
  ASSUME HttpSound, NEW c \in Calls, OthersStay(c), sinceSolve' = sinceSolve,
         solveChain' = Append(solveChain, c), sinceSolve[HostOf[c]] >= SolveCooldown,
         call[c].pc = "fetching", call'[c].pc = "toSolve"
  PROVE  solveChain' \in Seq(Calls) /\ BrowserSound'
<1>1. \A d \in Calls \ {c} : \A p \in {"toSolve", "solving"} : call'[d].pc = p <=> call[d].pc = p
  BY OthersAtBrowser
<1>2. AtBrowser' = AtBrowser \cup {c} /\ c \notin AtBrowser
  BY <1>1 DEF AtBrowser
<1>3. solveChain \in Seq(Calls) /\ Lined(solveChain, AtBrowser)
  BY DEF HttpSound, HttpTypeOK, BrowserSound
<1>4. /\ solveChain' \in Seq(Calls) /\ Lined(solveChain', AtBrowser')
      /\ solveChain # <<>> => Head(solveChain') = Head(solveChain)
  BY <1>2, <1>3, LinedAppend
<1>5. ASSUME NEW d \in Calls, call'[d].pc = "solving" PROVE Head(solveChain') = d
  <2>1. d # c /\ call[d].pc = "solving"
    BY <1>1, <1>5
  <2>2. Head(solveChain) = d /\ d \in AtBrowser
    BY <2>1 DEF HttpSound, BrowserSound, AtBrowser
  <2> QED  BY <1>3, <1>4, <2>2, LinedHead
<1>6. ASSUME NEW d \in Calls, call'[d].pc = "toSolve"
      PROVE  sinceSolve'[HostOf[d]] >= SolveCooldown
  BY <1>1, <1>6 DEF HttpSound, BrowserSound
<1> QED  BY <1>4, <1>5, <1>6 DEF BrowserSound

(* The cooldown a solve begins is its own host's, whose other calls wait.  *)
LEMMA BrowserBegun ==
  ASSUME HttpSound, NEW c \in Calls, SolveBegin(c)
  PROVE  /\ call' \in [Calls -> Call] /\ sinceSolve' \in [Hosts -> 0..SolveCooldown]
         /\ call'[c] = [call[c] EXCEPT !.pc = "solving"] /\ call'[c].pc = "solving"
         /\ \A d \in Calls \ {c} : call'[d] = call[d]
         /\ BrowserSound'
<1>1. /\ call' = [call EXCEPT ![c].pc = "solving"] /\ call \in [Calls -> Call]
      /\ call[c].pc = "toSolve" /\ Head(solveChain) = c /\ solveChain' = solveChain
      /\ sinceSolve' = [sinceSolve EXCEPT ![HostOf[c]] = 0]
      /\ sinceSolve \in [Hosts -> 0..SolveCooldown]
  BY DEF SolveBegin, HttpSound, HttpTypeOK
<1>2. [call[c] EXCEPT !.pc = "solving"] \in Call /\ 0 \in 0..SolveCooldown
  BY <1>1, SourceHttpAssumption DEF Call, PC
<1>3. /\ call' \in [Calls -> Call] /\ sinceSolve' \in [Hosts -> 0..SolveCooldown]
      /\ call'[c] = [call[c] EXCEPT !.pc = "solving"]
      /\ \A d \in Calls \ {c} : call'[d] = call[d]
  BY <1>1, <1>2
<1>4. call'[c].pc = "solving"
  BY <1>1, <1>3, <1>2 DEF Call
<1>5. AtBrowser' = AtBrowser
  BY <1>1, <1>3, <1>4 DEF AtBrowser
<1>6. ASSUME NEW d \in Calls, call'[d].pc = "solving" PROVE Head(solveChain') = d
  <2>1. CASE d = c
    BY <1>1, <2>1
  <2>2. CASE d # c
    BY <1>1, <1>3, <1>6, <2>2 DEF HttpSound, BrowserSound
  <2> QED  BY <2>1, <2>2
<1>7. ASSUME NEW d \in Calls, call'[d].pc = "toSolve"
      PROVE  sinceSolve'[HostOf[d]] >= SolveCooldown
  <2>1. d # c /\ call[d].pc = "toSolve"
    BY <1>3, <1>4, <1>7
  <2>2. HostOf[d] # HostOf[c] /\ HostOf[d] \in Hosts
    BY <1>1, <2>1, BusyAlone, PcsOf, CallTyped DEF HttpSound
  <2> QED  BY <1>1, <2>1, <2>2 DEF HttpSound, BrowserSound
<1> QED  BY <1>1, <1>3, <1>4, <1>5, <1>6, <1>7 DEF HttpSound, BrowserSound

(* Who is done leaves the queue; nobody else was being served.             *)
LEMMA BrowserLeft ==
  ASSUME HttpSound, NEW c \in Calls, OthersStay(c), SolveEnds(c),
         call'[c].pc \notin {"toSolve", "solving"}
  PROVE  solveChain' \in Seq(Calls) /\ BrowserSound'
<1>1. /\ call[c].pc = "solving" /\ solveChain' = Tail(solveChain) /\ sinceSolve' = sinceSolve
      /\ solveChain \in Seq(Calls) /\ Head(solveChain) = c /\ Lined(solveChain, AtBrowser)
  BY DEF SolveEnds, HttpSound, HttpTypeOK, BrowserSound
<1>2. \A d \in Calls \ {c} : \A p \in {"toSolve", "solving"} : call'[d].pc = p <=> call[d].pc = p
  BY OthersAtBrowser
<1>3. AtBrowser' = AtBrowser \ {c} /\ c \in AtBrowser
  BY <1>1, <1>2 DEF AtBrowser
<1>4. solveChain # <<>>
  BY <1>1, <1>3, LinedHead
<1>5. solveChain' \in Seq(Calls) /\ Lined(solveChain', AtBrowser')
  BY <1>1, <1>3, <1>4, LinedTail
<1>6. \A d \in Calls : call'[d].pc # "solving"
  BY <1>1, <1>2 DEF HttpSound, BrowserSound
<1>7. \A d \in Calls : call'[d].pc = "toSolve" => sinceSolve'[HostOf[d]] >= SolveCooldown
  BY <1>1, <1>2 DEF HttpSound, BrowserSound
<1> QED  BY <1>5, <1>6, <1>7 DEF BrowserSound

-----------------------------------------------------------------------------
(* What the other calls know of themselves stands: the age of the last     *)
(* start and the breaker change, otherwise than by closing, only by the    *)
(* one of their host that is under way.                                    *)
LEMMA CallsStay ==
  ASSUME HttpSound, NEW c \in Calls, OthersStay(c), CallSound(c)',
         \A h \in Hosts : sinceStart'[h] = sinceStart[h]
                            \/ (h = HostOf[c] /\ call[c].pc \in Busy),
         \A h \in Hosts : cooling'[h] = cooling[h] \/ cooling'[h] = 0
                            \/ (h = HostOf[c] /\ call[c].pc \in Busy)
  PROVE  \A d \in Calls : CallSound(d)'
<1> SUFFICES ASSUME NEW d \in Calls \ {c} PROVE CallSound(d)'
  OBVIOUS
<1>1. CallSound(d) /\ call[d] \in Call /\ HostOf[d] \in Hosts
  BY CallTyped DEF HttpSound
<1>2. call[d].pc \in Busy =>
            /\ sinceStart'[HostOf[d]] = sinceStart[HostOf[d]]
            /\ cooling'[HostOf[d]] = cooling[HostOf[d]] \/ cooling'[HostOf[d]] = 0
  BY <1>1, BusyAlone DEF HttpSound
<1>3. CASE call'[d] = call[d]
  BY <1>1, <1>2, <1>3, PcsOf DEF CallSound, Busy
<1>4. CASE call[d].pc = "permit" /\ call'[d] = [call[d] EXCEPT !.pc = "fetching"]
  <2>1. call'[d].pc = "fetching" /\ call'[d].attempt = call[d].attempt
    BY <1>1, <1>4 DEF Call
  <2>2. call[d].attempt >= 1
    BY <1>1, <1>4 DEF CallSound
  <2>3. call[d].attempt = 1 => cooling'[HostOf[d]] = 0
    BY <1>1, <1>2, <1>4, PcsOf DEF CallSound
  <2> QED  BY <2>1, <2>2, <2>3 DEF CallSound
<1> QED  BY <1>3, <1>4 DEF OthersStay

-----------------------------------------------------------------------------
(* The steps of a call.                                                    *)

LEMMA BreakerMoves ==
  ASSUME HttpTypeOK, NEW h \in Hosts, Succeeded(h) \/ OpenFor(h) \/ FailedSoftly(h)
  PROVE  /\ failures' \in [Hosts -> 0..(BreakerFailures - 1)]
         /\ cooling' \in [Hosts -> 0..BreakerCooldown]
         /\ \A k \in Hosts : cooling'[k] = cooling[k] \/ cooling'[k] = 0 \/ k = h
<1>1. BreakerFailures \in Nat \ {0} /\ BreakerCooldown \in Nat
  BY SourceHttpAssumption
<1>2. failures \in [Hosts -> 0..(BreakerFailures - 1)] /\ cooling \in [Hosts -> 0..BreakerCooldown]
  BY DEF HttpTypeOK
<1>3. CASE Succeeded(h)
  BY <1>1, <1>2, <1>3 DEF Succeeded
<1>4. CASE OpenFor(h)
  BY <1>1, <1>2, <1>4 DEF OpenFor
<1>5. CASE FailedSoftly(h) /\ ~OpenFor(h)
  BY <1>1, <1>2, <1>5 DEF FailedSoftly
<1> QED  BY <1>3, <1>4, <1>5

LEMMA RequestSound ==
  ASSUME HttpSound, NEW c \in Calls, Request(c)
  PROVE  HttpSound'
<1>1. /\ call' \in [Calls -> Call] /\ tails' \in [Hosts -> Seq(Calls)]
      /\ call'[c].pc = "queued" /\ call'[c].interval \in {Calm, Slow, MinInterval[c]}
      /\ \A d \in Calls \ {c} : call'[d] = call[d]
      /\ ChainsSound'
  BY ChainJoined
<1>2. /\ call[c].pc = "idle" /\ OthersStay(c)
      /\ UNCHANGED <<sinceStart, permits, waiting, breaker, challenged, jar, solver>>
  BY <1>1 DEF Request, Idle, OthersStay
<1>3. LineSound' /\ BrowserSound'
  BY <1>1, <1>2, LineStays, BrowserStays
<1>4. HttpTypeOK'
  BY <1>1, <1>2 DEF HttpSound, HttpTypeOK, breaker, solver
<1>5. CallSound(c)'
  BY <1>1 DEF CallSound
<1>6. \A d \in Calls : CallSound(d)'
  BY <1>2, <1>5, CallsStay DEF breaker
<1> QED  BY <1>1, <1>3, <1>4, <1>6 DEF HttpSound

LEMMA BeginSound ==
  ASSUME HttpSound, NEW c \in Calls, Begin(c)
  PROVE  HttpSound'
<1> DEFINE h == HostOf[c]
<1>1. /\ call[c].pc = "queued" /\ Head(tails[h]) = c /\ call \in [Calls -> Call] /\ call[c] \in Call
      /\ UNCHANGED <<chains, permits, waiting, breaker, challenged, jar, solver>>
  BY CallTyped DEF Begin, HttpSound, HttpTypeOK
<1>2. PICK j \in Jittered(call[c].interval) :
        call' = [call EXCEPT ![c] = [@ EXCEPT !.pc = "spacing",
                                              !.timer = Larger(j - sinceStart[h], 0)]]
  BY DEF Begin
<1>3. /\ j \in Nat /\ j >= (call[c].interval * 7) \div 10 /\ (call[c].interval * 7) \div 10 \in Nat
      /\ sinceStart[h] \in Nat /\ h \in Hosts
  <2>1. call[c].interval \in Nat /\ h \in Hosts /\ sinceStart[h] \in 0..LongAgo /\ LongAgo \in Nat
    BY <1>1, CallTyped, SourceHttpAssumption DEF HttpSound, HttpTypeOK
  <2>2. j \in Nat /\ j >= (call[c].interval * 7) \div 10
    BY <2>1, JitterTyped
  <2> QED  BY <2>1, <2>2
<1>4. /\ Larger(j - sinceStart[h], 0) \in Nat
      /\ sinceStart[h] + Larger(j - sinceStart[h], 0) >= (call[c].interval * 7) \div 10
  BY <1>3 DEF Larger
<1>5. /\ call'[c] = [call[c] EXCEPT !.pc = "spacing", !.timer = Larger(j - sinceStart[h], 0)]
      /\ \A d \in Calls \ {c} : call'[d] = call[d]
  BY <1>1, <1>2
<1>6. /\ call'[c] \in Call /\ call'[c].pc = "spacing" /\ call'[c].interval = call[c].interval
      /\ call'[c].timer = Larger(j - sinceStart[h], 0)
  BY <1>1, <1>4, <1>5 DEF Call, PC
<1>7. call' \in [Calls -> Call] /\ OthersStay(c)
  BY <1>1, <1>2, <1>5, <1>6 DEF OthersStay
<1>8. LineSound' /\ BrowserSound'
  BY <1>1, <1>5, <1>6, <1>7, LineStays, BrowserStays
<1>9. ChainsSound'
  BY <1>1, <1>6, <1>7, ChainStays, PcsOf DEF chains, InChain, Busy
<1>10. HttpTypeOK'
  BY <1>1, <1>7 DEF HttpSound, HttpTypeOK, chains, breaker, solver
<1>11. CallSound(c)'
  BY <1>1, <1>4, <1>6 DEF CallSound, HttpSound, chains
<1>12. \A d \in Calls : CallSound(d)'
  BY <1>1, <1>7, <1>11, CallsStay DEF chains, breaker
<1> QED  BY <1>8, <1>9, <1>10, <1>12 DEF HttpSound

(* What every sending of a request has in common.                          *)
LEMMA SendSound ==
  ASSUME HttpSound, NEW c \in Calls, NEW next \in Call,
         call[c].pc \in {"spacing", "backoff", "solving"}, Send(c, next), tails' = tails,
         sinceStart' \in [Hosts -> 0..LongAgo],
         \A k \in Hosts : sinceStart'[k] = sinceStart[k] \/ k = HostOf[c],
         UNCHANGED <<breaker, challenged>>, jar' \subseteq Hosts, sinceSolve' = sinceSolve,
         solveChain' \in Seq(Calls),
         OthersStay(c) /\ call'[c].pc \notin {"toSolve", "solving"} => BrowserSound',
         next.attempt >= 1, next.attempt = 1 => cooling[HostOf[c]] = 0
  PROVE  HttpSound'
<1>1. /\ call' \in [Calls -> Call]
      /\ permits' \in 0..MaxInFlight /\ waiting' \in Seq(Calls)
      /\ OthersStay(c)
      /\ call'[c].pc \in {"permit", "fetching"}
      /\ call'[c] = [next EXCEPT !.pc = call'[c].pc]
      /\ LineSound'
  BY SendKeepsLine
<1>2. call[c].pc \in Busy /\ call'[c].pc \in Busy
  BY <1>1 DEF Busy
<1>3. ChainsSound'
  BY <1>1, <1>2, ChainStays, PcsOf DEF HttpSound, ChainsSound
<1>4. BrowserSound'
  BY <1>1
<1>5. HttpTypeOK'
  BY <1>1 DEF HttpSound, HttpTypeOK, breaker
<1>6. call'[c].attempt = next.attempt
  BY <1>1 DEF Call
<1>7. CallSound(c)'
  BY <1>1, <1>6 DEF CallSound, breaker
<1>8. \A d \in Calls : CallSound(d)'
  BY <1>1, <1>2, <1>7, CallsStay DEF breaker
<1> QED  BY <1>1, <1>3, <1>4, <1>5, <1>8 DEF HttpSound

LEMMA StartSound ==
  ASSUME HttpSound, NEW c \in Calls, Start(c)
  PROVE  HttpSound'
<1> DEFINE h == HostOf[c]
<1>1. /\ call[c].pc = "spacing" /\ call \in [Calls -> Call] /\ call[c] \in Call /\ h \in Hosts
      /\ sinceStart' = [sinceStart EXCEPT ![h] = 0] /\ sinceStart \in [Hosts -> 0..LongAgo]
      /\ UNCHANGED <<breaker, challenged, jar, solver>>
  BY CallTyped DEF Start, HttpSound, HttpTypeOK
<1>2. /\ sinceStart' \in [Hosts -> 0..LongAgo]
      /\ \A k \in Hosts : sinceStart'[k] = sinceStart[k] \/ k = h
  BY <1>1, SourceHttpAssumption
<1>3. CASE /\ cooling[h] = 0
           /\ Send(c, [call[c] EXCEPT !.attempt = 1])
           /\ UNCHANGED tails
  <2> DEFINE next == [call[c] EXCEPT !.attempt = 1]
  <2>1. next \in Call /\ next.attempt = 1 /\ Send(c, next) /\ tails' = tails
    BY <1>1, <1>3, SourceHttpAssumption DEF Call
  <2>2. OthersStay(c) /\ call'[c].pc \notin {"toSolve", "solving"} => BrowserSound'
    BY <1>1, BrowserStays
  <2>3. jar' \subseteq Hosts /\ solveChain' \in Seq(Calls) /\ sinceSolve' = sinceSolve
    BY <1>1 DEF HttpSound, HttpTypeOK, solver
  <2>4. next.attempt >= 1 /\ (next.attempt = 1 => cooling[h] = 0)
    BY <1>3, <2>1
  <2> HIDE DEF next
  <2> QED  BY <1>1, <1>2, <2>1, <2>2, <2>3, <2>4, SendSound
<1>4. CASE /\ cooling[h] > 0
           /\ Unchain(c)
           /\ call' = [call EXCEPT ![c] = Idle]
           /\ UNCHANGED <<permits, waiting>>
  <2>1. /\ call'[c] = Idle /\ \A d \in Calls \ {c} : call'[d] = call[d]
        /\ call' \in [Calls -> Call]
    BY <1>1, <1>4, IdleTyped
  <2>2. call'[c].pc = "idle" /\ OthersStay(c)
    BY <2>1 DEF Idle, OthersStay
  <2>3. LineSound' /\ BrowserSound'
    BY <1>1, <1>4, <2>1, <2>2, LineStays, BrowserStays
  <2>4. tails' \in [Hosts -> Seq(Calls)] /\ ChainsSound'
    BY <1>1, <1>4, <2>1, <2>2, ChainLeft DEF Busy
  <2>5. HttpTypeOK'
    BY <1>1, <1>2, <1>4, <2>1, <2>4 DEF HttpSound, HttpTypeOK, breaker, solver
  <2>6. CallSound(c)'
    BY <2>2 DEF CallSound
  <2>7. \A d \in Calls : CallSound(d)'
    BY <1>1, <1>2, <2>2, <2>6, CallsStay DEF breaker, Busy
  <2> QED  BY <2>3, <2>4, <2>5, <2>7 DEF HttpSound
<1> QED  BY <1>3, <1>4 DEF Start

LEMMA RetrySound ==
  ASSUME HttpSound, NEW c \in Calls, Retry(c)
  PROVE  HttpSound'
<1> DEFINE next == [call[c] EXCEPT !.attempt = @ + 1]
<1>1. /\ call[c].pc = "backoff" /\ call[c] \in Call
      /\ Send(c, next)
      /\ UNCHANGED <<chains, breaker, challenged, jar, solver>>
  BY CallTyped DEF Retry, HttpSound
<1>2. call[c].attempt \in 1..(MaxAttempts - 1) /\ MaxAttempts \in Nat
  BY <1>1, CallTyped DEF HttpSound, CallSound
<1>3. next \in Call /\ next.attempt >= 1 /\ next.attempt # 1
  BY <1>1, <1>2 DEF Call
<1>4. OthersStay(c) /\ call'[c].pc \notin {"toSolve", "solving"} => BrowserSound'
  BY <1>1, BrowserStays
<1>5. /\ jar' \subseteq Hosts /\ solveChain' \in Seq(Calls) /\ sinceSolve' = sinceSolve
      /\ sinceStart' \in [Hosts -> 0..LongAgo] /\ sinceStart' = sinceStart /\ tails' = tails
  BY <1>1 DEF HttpSound, HttpTypeOK, solver, chains
<1> HIDE DEF next
<1> QED  BY <1>1, <1>3, <1>4, <1>5, SendSound

-----------------------------------------------------------------------------
(* What comes back.  The breaker may have moved, and the host challenged.  *)

Answering(c) ==
    /\ call[c].pc = "fetching"
    /\ failures' \in [Hosts -> 0..(BreakerFailures - 1)]
    /\ cooling' \in [Hosts -> 0..BreakerCooldown]
    /\ \A k \in Hosts : cooling'[k] = cooling[k] \/ cooling'[k] = 0 \/ k = HostOf[c]
    /\ challenged' \subseteq Hosts
    /\ UNCHANGED <<sinceStart, jar, sinceSolve>>

LEMMA SettlingSound ==
  ASSUME HttpSound, NEW c \in Calls, Answering(c), Settles(c), solveChain' = solveChain
  PROVE  HttpSound'
<1>1. /\ call' \in [Calls -> Call]
      /\ permits' \in 0..MaxInFlight /\ waiting' \in Seq(Calls)
      /\ OthersStay(c) /\ call'[c] = Idle /\ LineSound'
  BY ReleaseKeepsLine, IdleTyped DEF Answering, Settles, Idle
<1>2. call'[c].pc = "idle" /\ call[c].pc \in Busy
  BY <1>1 DEF Idle, Answering, Busy
<1>3. tails' \in [Hosts -> Seq(Calls)] /\ ChainsSound'
  BY <1>1, <1>2, ChainLeft DEF Settles
<1>4. BrowserSound'
  BY <1>1, <1>2, BrowserStays DEF Answering, solver
<1>5. HttpTypeOK'
  BY <1>1, <1>3 DEF Answering, HttpSound, HttpTypeOK
<1>6. CallSound(c)'
  BY <1>2 DEF CallSound
<1>7. \A d \in Calls : CallSound(d)'
  BY <1>1, <1>2, <1>6, CallsStay DEF Answering
<1> QED  BY <1>1, <1>3, <1>4, <1>5, <1>7 DEF HttpSound

LEMMA SleepingSound ==
  ASSUME HttpSound, NEW c \in Calls, NEW ms \in Nat, call[c].attempt < MaxAttempts,
         Answering(c), SleepsThenRetries(c, ms), solveChain' = solveChain
  PROVE  HttpSound'
<1> DEFINE next == [call[c] EXCEPT !.pc = "backoff", !.timer = ms]
<1>1. call[c] \in Call /\ call[c].pc = "fetching" /\ call[c].attempt >= 1
  BY CallTyped DEF HttpSound, CallSound, Answering
<1>2. next \in Call /\ next.pc = "backoff" /\ next.attempt = call[c].attempt
  BY <1>1 DEF Call, PC
<1>3. /\ call' \in [Calls -> Call]
      /\ permits' \in 0..MaxInFlight /\ waiting' \in Seq(Calls)
      /\ OthersStay(c) /\ call'[c] = next /\ LineSound'
  BY <1>1, <1>2, ReleaseKeepsLine DEF SleepsThenRetries
<1>4. call'[c].pc = "backoff" /\ call'[c].attempt = call[c].attempt
  BY <1>2, <1>3
<1>5. call[c].pc \in Busy /\ call'[c].pc \in Busy /\ tails' = tails
  BY <1>1, <1>4 DEF Busy, SleepsThenRetries
<1>6. ChainsSound'
  BY <1>3, <1>5, ChainStays, PcsOf DEF HttpSound, ChainsSound
<1>7. BrowserSound'
  BY <1>1, <1>3, <1>4, BrowserStays DEF Answering, solver
<1>8. HttpTypeOK'
  BY <1>3, <1>5 DEF Answering, HttpSound, HttpTypeOK
<1>9. CallSound(c)'
  BY <1>1, <1>4 DEF CallSound
<1>10. \A d \in Calls : CallSound(d)'
  BY <1>3, <1>5, <1>9, CallsStay DEF Answering
<1> QED  BY <1>3, <1>6, <1>7, <1>8, <1>10 DEF HttpSound

LEMMA ChallengedSound ==
  ASSUME HttpSound, NEW c \in Calls, call[c].pc = "fetching", Challenged(c),
         UNCHANGED <<sinceStart, jar>>
  PROVE  HttpSound'
<1> DEFINE h == HostOf[c]
           resend == c \in Posts /\ call[c].clearance = "none"
           next == [call[c] EXCEPT !.pc = "toSolve",
                                   !.clearance = IF resend THEN "earning" ELSE @]
<1>1. Answering(c)
  BY CallTyped DEF Answering, Challenged, HttpSound, HttpTypeOK, breaker
<1>2. call[c] \in Call /\ h \in Hosts /\ call[c].attempt >= 1
  BY CallTyped DEF HttpSound, CallSound
<1>3. CASE SolverAvailable /\ sinceSolve[h] >= SolveCooldown
  <2>1. /\ solveChain' = Append(solveChain, c) /\ Release(c, next) /\ tails' = tails
        /\ sinceSolve' = sinceSolve
    BY <1>3 DEF Challenged
  <2>2. /\ next \in Call /\ next.pc = "toSolve" /\ next.attempt = call[c].attempt
    BY <1>2 DEF Call, PC
  <2>3. /\ call' \in [Calls -> Call]
        /\ permits' \in 0..MaxInFlight /\ waiting' \in Seq(Calls)
        /\ OthersStay(c) /\ call'[c] = next /\ LineSound'
    <3> HIDE DEF next
    <3> QED  BY <2>1, <2>2, ReleaseKeepsLine
  <2>4. call'[c].pc = "toSolve" /\ call'[c].attempt = call[c].attempt
    BY <2>2, <2>3
  <2>5. call[c].pc \in Busy /\ call'[c].pc \in Busy
    BY <2>4 DEF Busy
  <2>6. ChainsSound'
    BY <2>1, <2>3, <2>5, ChainStays, PcsOf DEF HttpSound, ChainsSound
  <2>7. solveChain' \in Seq(Calls) /\ BrowserSound'
    BY <1>3, <2>1, <2>3, <2>4, BrowserJoined
  <2>8. HttpTypeOK'
    BY <1>1, <2>1, <2>3, <2>7 DEF Answering, HttpSound, HttpTypeOK
  <2>9. CallSound(c)'
    BY <1>2, <2>4 DEF CallSound
  <2>10. \A d \in Calls : CallSound(d)'
    BY <1>1, <2>3, <2>5, <2>9, CallsStay DEF Answering
  <2> QED  BY <2>3, <2>6, <2>7, <2>8, <2>10 DEF HttpSound
<1>4. CASE ~(SolverAvailable /\ sinceSolve[h] >= SolveCooldown)
  <2>1. Settles(c) /\ solveChain' = solveChain
    BY <1>4 DEF Challenged
  <2> QED  BY <1>1, <2>1, SettlingSound
<1> QED  BY <1>3, <1>4

LEMMA ResponseSound ==
  ASSUME HttpSound, NEW c \in Calls, Response(c)
  PROVE  HttpSound'
<1>1. /\ call[c].pc = "fetching" /\ UNCHANGED <<sinceStart, jar>> /\ HostOf[c] \in Hosts
      /\ call[c].attempt \in 1..MaxAttempts
  BY CallTyped DEF Response, HttpSound, CallSound
<1>2. ASSUME Succeeded(HostOf[c]) \/ OpenFor(HostOf[c]) \/ FailedSoftly(HostOf[c]),
             UNCHANGED <<challenged, solver>>
      PROVE  Answering(c) /\ solveChain' = solveChain
  BY <1>1, <1>2, BreakerMoves DEF Answering, HttpSound, HttpTypeOK, solver
<1>3. ASSUME NEW delays, delays \subseteq Nat, RetriesOrGivesUp(c, delays),
             Answering(c), solveChain' = solveChain
      PROVE  HttpSound'
  <2>1. CASE Settles(c)
    BY <1>3, <2>1, SettlingSound
  <2>2. CASE call[c].attempt < MaxAttempts /\ \E ms \in delays : SleepsThenRetries(c, ms)
    BY <1>3, <2>2, SleepingSound
  <2> QED  BY <1>3, <2>1, <2>2 DEF RetriesOrGivesUp
<1>4. CASE Answered(c) \/ Unreachable(c)
  BY <1>2, <1>4, SettlingSound DEF Answered, Unreachable
<1>5. CASE FailsSoftly(c)
  <2>1. Backoff(call[c].attempt) \in Nat
    BY <1>1, CallTyped, BackoffTyped DEF HttpSound
  <2>2. Jittered(Backoff(call[c].attempt)) \subseteq Nat
    BY <2>1, JitterTyped
  <2> QED  BY <1>2, <1>3, <1>5, <2>2 DEF FailsSoftly
<1>6. ASSUME NEW after \in RetryAfters, ToldToWait(c, after) PROVE HttpSound'
  <2>1. {after} \subseteq Nat
    BY SourceHttpAssumption
  <2> QED  BY <1>2, <1>3, <1>6, <2>1 DEF ToldToWait
<1>7. CASE Challenged(c)
  BY <1>1, <1>7, ChallengedSound
<1> QED  BY <1>4, <1>5, <1>6, <1>7 DEF Response

-----------------------------------------------------------------------------
(* The browser, a reset and the clock.                                     *)

LEMMA SolveSound ==
  ASSUME HttpSound, NEW c \in Calls, Solve(c)
  PROVE  HttpSound'
<1>1. call[c] \in Call /\ HostOf[c] \in Hosts /\ call[c].attempt \in 0..MaxAttempts
      /\ MaxAttempts \in Nat
  BY CallTyped DEF HttpSound
<1>2. CASE SolveBegin(c)
  <2>1. /\ call' \in [Calls -> Call] /\ sinceSolve' \in [Hosts -> 0..SolveCooldown]
        /\ call'[c] = [call[c] EXCEPT !.pc = "solving"] /\ call'[c].pc = "solving"
        /\ \A d \in Calls \ {c} : call'[d] = call[d]
        /\ BrowserSound'
    BY <1>2, BrowserBegun
  <2>2. /\ call[c].pc = "toSolve" /\ OthersStay(c)
        /\ UNCHANGED <<chains, permits, waiting, breaker, challenged, jar, solveChain>>
    BY <1>2, <2>1 DEF SolveBegin, OthersStay
  <2>3. LineSound'
    BY <2>1, <2>2, LineStays
  <2>4. ChainsSound'
    BY <2>1, <2>2, ChainStays, PcsOf DEF chains, HttpSound, ChainsSound
  <2>5. HttpTypeOK'
    BY <2>1, <2>2 DEF HttpSound, HttpTypeOK, chains, breaker
  <2>6. CallSound(c)'
    <3>1. call'[c].attempt = call[c].attempt
      BY <1>1, <2>1 DEF Call
    <3> QED  BY <2>1, <2>2, <3>1 DEF CallSound, HttpSound
  <2>7. \A d \in Calls : CallSound(d)'
    BY <2>2, <2>6, CallsStay DEF chains, breaker
  <2> QED  BY <2>1, <2>3, <2>4, <2>5, <2>7 DEF HttpSound
<1>3. CASE Resend(c)
  <2> DEFINE next == [call[c] EXCEPT !.attempt = @ + 1, !.clearance = "earned"]
  <2>1. /\ SolveEnds(c) /\ call[c].pc = "solving" /\ call[c].attempt < MaxAttempts
        /\ Send(c, next) /\ tails' = tails /\ jar' = jar \cup {HostOf[c]}
        /\ UNCHANGED <<sinceStart, breaker, challenged, sinceSolve>>
    BY <1>3 DEF Resend, SolveEnds
  <2>2. call[c].attempt >= 1
    BY <2>1 DEF HttpSound, CallSound
  <2>3. next \in Call /\ next.attempt >= 1 /\ next.attempt # 1
    <3>1. call[c].attempt + 1 \in 2..MaxAttempts
      BY <1>1, <2>1, <2>2
    <3>2. ASSUME NEW a \in 2..MaxAttempts
          PROVE  LET r == [call[c] EXCEPT !.attempt = a, !.clearance = "earned"]
                 IN  r \in Call /\ r.attempt = a
      <4> DEFINE q == [call[c] EXCEPT !.attempt = a]
                 r == [q EXCEPT !.clearance = "earned"]
      <4>1. a \in 0..MaxAttempts
        BY <1>1
      <4>2. q \in Call /\ q.attempt = a
        BY <1>1, <4>1 DEF Call
      <4>3. r \in Call /\ r.attempt = q.attempt
        <5> HIDE DEF q
        <5> QED  BY <4>2 DEF Call
      <4>4. r = [call[c] EXCEPT !.attempt = a, !.clearance = "earned"]
        BY <1>1 DEF Call
      <4> QED  BY <4>2, <4>3, <4>4
    <3>3. next = [call[c] EXCEPT !.attempt = call[c].attempt + 1, !.clearance = "earned"]
      OBVIOUS
    <3> HIDE DEF next
    <3>4. next \in Call /\ next.attempt = call[c].attempt + 1
      BY <3>1, <3>2, <3>3
    <3> QED  BY <1>1, <3>1, <3>4
  <2>4. OthersStay(c) /\ call'[c].pc \notin {"toSolve", "solving"} => BrowserSound'
    BY <2>1, BrowserLeft
  <2>5. solveChain' \in Seq(Calls)
    <3>1. c \in AtBrowser /\ solveChain \in Seq(Calls) /\ Lined(solveChain, AtBrowser)
      BY <2>1 DEF AtBrowser, HttpSound, HttpTypeOK, BrowserSound
    <3>2. solveChain # <<>> /\ solveChain' = Tail(solveChain)
      BY <2>1, <3>1, LinedHead DEF SolveEnds
    <3> QED  BY <3>1, <3>2, LinedTail
  <2>6. /\ jar' \subseteq Hosts /\ sinceStart' \in [Hosts -> 0..LongAgo]
        /\ sinceStart' = sinceStart
    BY <1>1, <2>1 DEF HttpSound, HttpTypeOK
  <2> HIDE DEF next
  <2> QED  BY <2>1, <2>3, <2>4, <2>5, <2>6, SendSound
<1>4. ASSUME NEW solved \in BOOLEAN, SolveSettles(c, solved) PROVE HttpSound'
  <2>1. /\ SolveEnds(c) /\ call[c].pc = "solving" /\ call' = [call EXCEPT ![c] = Idle]
        /\ Unchain(c) /\ UNCHANGED <<permits, waiting, sinceStart, breaker, challenged, sinceSolve>>
        /\ jar' \subseteq Hosts /\ call \in [Calls -> Call]
    BY <1>1, <1>4 DEF SolveSettles, SolveEnds, HttpSound, HttpTypeOK
  <2>2. /\ call' \in [Calls -> Call] /\ call'[c] = Idle
        /\ \A d \in Calls \ {c} : call'[d] = call[d]
    BY <2>1, IdleTyped
  <2>3. call'[c].pc = "idle" /\ OthersStay(c) /\ call[c].pc \in Busy
    BY <2>1, <2>2 DEF Idle, OthersStay, Busy
  <2>4. LineSound'
    BY <2>1, <2>2, <2>3, LineStays
  <2>5. tails' \in [Hosts -> Seq(Calls)] /\ ChainsSound'
    BY <2>1, <2>2, <2>3, ChainLeft
  <2>6. solveChain' \in Seq(Calls) /\ BrowserSound'
    BY <2>1, <2>3, BrowserLeft
  <2>7. HttpTypeOK'
    BY <2>1, <2>2, <2>5, <2>6 DEF HttpSound, HttpTypeOK, breaker
  <2>8. CallSound(c)'
    BY <2>3 DEF CallSound
  <2>9. \A d \in Calls : CallSound(d)'
    BY <2>1, <2>3, <2>8, CallsStay DEF breaker
  <2> QED  BY <2>4, <2>5, <2>6, <2>7, <2>9 DEF HttpSound
<1> QED  BY <1>2, <1>3, <1>4 DEF Solve

LEMMA ResetSound == ASSUME HttpSound, Reset PROVE HttpSound'
<1>1. /\ UNCHANGED <<call, chains, permits, waiting, breaker, solver>>
      /\ challenged' = {} /\ jar' = {}
  BY DEF Reset
<1>2. HttpTypeOK'
  BY <1>1 DEF HttpSound, HttpTypeOK, chains, breaker, solver
<1>3. LineSound' /\ ChainsSound' /\ BrowserSound'
  BY <1>1 DEF HttpSound, LineSound, ChainsSound, BrowserSound, InLine, Fetching, AtBrowser,
              Chained, chains, solver
<1>4. \A c \in Calls : CallSound(c)'
  BY <1>1 DEF HttpSound, CallSound, chains, breaker
<1> QED  BY <1>2, <1>3, <1>4 DEF HttpSound

LEMMA TickSound == ASSUME HttpSound, Tick PROVE HttpSound'
<1>1. /\ call' = [c \in Calls |-> [call[c] EXCEPT !.timer = Larger(@ - 1, 0)]]
      /\ sinceStart' = Ages(sinceStart, LongAgo) /\ cooling' = Left(cooling)
      /\ sinceSolve' = Ages(sinceSolve, SolveCooldown)
      /\ UNCHANGED <<tails, permits, waiting, failures, challenged, jar, solveChain>>
  BY DEF Tick
<1>2. /\ LongAgo \in Nat /\ SolveCooldown \in Nat /\ BreakerCooldown \in Nat
  BY SourceHttpAssumption
<1>3. /\ sinceStart \in [Hosts -> 0..LongAgo] /\ cooling \in [Hosts -> 0..BreakerCooldown]
      /\ sinceSolve \in [Hosts -> 0..SolveCooldown]
  BY DEF HttpSound, HttpTypeOK
<1>4. ASSUME NEW c \in Calls
      PROVE  /\ call'[c] \in Call /\ call'[c].pc = call[c].pc
             /\ call'[c].attempt = call[c].attempt /\ call'[c].interval = call[c].interval
             /\ call'[c].timer = Larger(call[c].timer - 1, 0)
  <2>1. call[c] \in Call /\ Larger(call[c].timer - 1, 0) \in Nat
    BY CallTyped DEF HttpSound, Larger
  <2>2. call'[c] = [call[c] EXCEPT !.timer = Larger(call[c].timer - 1, 0)]
    BY <1>1
  <2> QED  BY <2>1, <2>2 DEF Call
<1>5. call' \in [Calls -> Call]
  BY <1>1, <1>4
<1>6. /\ sinceStart' \in [Hosts -> 0..LongAgo]
      /\ \A h \in Hosts : sinceStart'[h] = LongAgo \/ sinceStart'[h] = sinceStart[h] + 1
  BY <1>1, <1>2, <1>3 DEF Ages, Smaller
<1>7. /\ sinceSolve' \in [Hosts -> 0..SolveCooldown]
      /\ \A h \in Hosts : sinceSolve[h] >= SolveCooldown => sinceSolve'[h] >= SolveCooldown
  BY <1>1, <1>2, <1>3 DEF Ages, Smaller
<1>8. /\ cooling' \in [Hosts -> 0..BreakerCooldown]
      /\ \A h \in Hosts : cooling[h] = 0 => cooling'[h] = 0
  BY <1>1, <1>2, <1>3 DEF Left, Larger
<1>9. HttpTypeOK'
  BY <1>1, <1>5, <1>6, <1>7, <1>8 DEF HttpSound, HttpTypeOK
<1>10. /\ InLine' = InLine /\ Fetching' = Fetching /\ AtBrowser' = AtBrowser
       /\ \A h \in Hosts : Chained(h)' = Chained(h)
  BY <1>4 DEF InLine, Fetching, AtBrowser, Chained
<1>11. LineSound' /\ ChainsSound'
  BY <1>1, <1>4, <1>10 DEF HttpSound, LineSound, ChainsSound
<1>12. BrowserSound'
  BY <1>1, <1>4, <1>7, <1>10, CallTyped DEF HttpSound, BrowserSound
<1>13. ASSUME NEW c \in Calls PROVE CallSound(c)'
  <2>1. CallSound(c) /\ HostOf[c] \in Hosts /\ call[c].timer \in Nat /\ call[c].interval \in Nat
    BY CallTyped DEF HttpSound
  <2>2. ASSUME call[c].pc = "spacing"
        PROVE  sinceStart'[HostOf[c]] + call'[c].timer >= (call[c].interval * 7) \div 10
    <3> DEFINE i == call[c].interval
               s == sinceStart[HostOf[c]]
    <3>1. (i * 13) \div 10 <= LongAgo /\ s + call[c].timer >= (i * 7) \div 10
      BY <2>1, <2>2, SourceHttpAssumption DEF CallSound
    <3>2. /\ s \in Nat /\ i \in Nat /\ sinceStart'[HostOf[c]] \in Nat
          /\ call'[c].timer \in Nat /\ call'[c].timer >= call[c].timer - 1
      BY <1>2, <1>3, <1>4, <1>6, <2>1 DEF Larger
    <3>3. sinceStart'[HostOf[c]] = LongAgo \/ sinceStart'[HostOf[c]] = s + 1
      BY <1>6, <2>1
    <3>4. (i * 7) \div 10 <= (i * 13) \div 10
      BY <3>2
    <3> HIDE DEF i, s
    <3>5. sinceStart'[HostOf[c]] + call'[c].timer >= (i * 7) \div 10
      <4> DEFINE low == (i * 7) \div 10
                 high == (i * 13) \div 10
      <4>1. low \in Nat /\ high \in Nat
        BY <3>2
      <4> HIDE DEF low, high
      <4>2. low <= high /\ high <= LongAgo /\ s + call[c].timer >= low
        BY <3>1, <3>4 DEF low, high, i, s
      <4>3. sinceStart'[HostOf[c]] + call'[c].timer >= low
        BY <1>2, <2>1, <3>2, <3>3, <4>1, <4>2
      <4> QED  BY <4>3 DEF low
    <3> QED  BY <3>5 DEF i
  <2> QED  BY <1>4, <1>8, <2>1, <2>2 DEF CallSound
<1> QED  BY <1>9, <1>11, <1>12, <1>13 DEF HttpSound

LEMMA HttpSoundNext == HttpSound /\ [HttpNext]_httpVars => HttpSound'
<1> SUFFICES ASSUME HttpSound, [HttpNext]_httpVars PROVE HttpSound'
  OBVIOUS
<1>1. ASSUME NEW c \in Calls, Request(c) \/ Step(c) PROVE HttpSound'
  BY <1>1, RequestSound, BeginSound, StartSound, RetrySound, ResponseSound, SolveSound DEF Step
<1>2. CASE Reset \/ Tick
  BY <1>2, ResetSound, TickSound
<1>3. CASE UNCHANGED httpVars
  BY <1>3 DEF httpVars, chains, breaker, solver, HttpSound, HttpTypeOK, LineSound, ChainsSound,
              BrowserSound, CallSound, InLine, Fetching, AtBrowser, Chained
<1> QED  BY <1>1, <1>2, <1>3 DEF HttpNext

LEMMA HttpSoundAlways == HttpSpec => []HttpSound
<1> QED  BY HttpSoundInit, HttpSoundNext, PTL DEF HttpSpec

-----------------------------------------------------------------------------
(* The theorems.                                                           *)

(* Every call, chain, line, age and count stays of its type: the counters  *)
(* of the breaker stay below the limit, the permits within theirs.         *)
THEOREM HttpTypesKept == HttpSpec => []HttpTypeOK
<1>1. HttpSound => HttpTypeOK
  BY DEF HttpSound
<1> QED  BY <1>1, HttpSoundAlways, PTL

(* No permit is leaked or doubled, whatever the sites answer and in what   *)
(* order the calls wait, fetch, sleep and solve.                           *)
THEOREM PermitsAlwaysAccounted == HttpSpec => []PermitsAccounted
<1>1. HttpSound => PermitsAccounted
  <2> SUFFICES ASSUME HttpSound PROVE PermitsAccounted
    OBVIOUS
  <2>1. Lined(waiting, InLine) /\ waiting \in Seq(Calls)
    BY DEF HttpSound, HttpTypeOK, LineSound
  <2>2. Cardinality(InLine) = Len(waiting)
    BY <2>1, LinedLength
  <2>3. InLine = {waiting[i] : i \in DOMAIN waiting}
    BY <2>1 DEF Lined
  <2>4. permits + Cardinality(Fetching) = MaxInFlight /\ (waiting # <<>> => permits = 0)
    BY DEF HttpSound, LineSound
  <2> QED  BY <2>2, <2>3, <2>4 DEF PermitsAccounted, Fetching, InLine
<1> QED  BY <1>1, HttpSoundAlways, PTL

(* The requests to a host go one after the other: the one under way heads  *)
(* the chain, and the chain holds the unsettled ones.                      *)
THEOREM HostsAreSerial == HttpSpec => []SerialPerHost
<1>1. HttpSound => SerialPerHost
  <2> SUFFICES ASSUME HttpSound, NEW c \in Calls
               PROVE  /\ call[c].pc \in Busy =>
                            tails[HostOf[c]] # <<>> /\ Head(tails[HostOf[c]]) = c
                      /\ call[c].pc \in InChain <=>
                            \E i \in DOMAIN tails[HostOf[c]] : tails[HostOf[c]][i] = c
    BY DEF SerialPerHost
  <2> DEFINE h == HostOf[c]
  <2>1. h \in Hosts /\ tails[h] \in Seq(Calls) /\ Lined(tails[h], Chained(h))
    BY CallTyped DEF HttpSound, HttpTypeOK, ChainsSound
  <2>2. call[c].pc \in InChain <=> c \in Chained(h)
    BY DEF Chained
  <2>3. c \in Chained(h) <=> \E i \in DOMAIN tails[h] : tails[h][i] = c
    BY <2>1 DEF Lined
  <2>4. ASSUME call[c].pc \in Busy PROVE tails[h] # <<>> /\ Head(tails[h]) = c
    BY <2>1, <2>2, <2>4, LinedHead, PcsOf DEF HttpSound, ChainsSound
  <2> QED  BY <2>2, <2>3, <2>4
<1> QED  BY <1>1, HttpSoundAlways, PTL

(* A first attempt is never on the wire, or in line for it, with its       *)
(* host's breaker open: nobody else of the host can have failed meanwhile. *)
THEOREM FirstAttemptsFindTheHostOpen == HttpSpec => []FirstAttemptFindsHostOpen
<1>1. HttpSound => FirstAttemptFindsHostOpen
  BY DEF HttpSound, CallSound, FirstAttemptFindsHostOpen
<1> QED  BY <1>1, HttpSoundAlways, PTL

LEMMA SpacedNext == HttpSound => StartsSpaced
<1> SUFFICES ASSUME HttpSound, NEW c \in Calls, Start(c)
             PROVE  sinceStart[HostOf[c]] >= (call[c].interval * 7) \div 10
  BY DEF StartsSpaced
<1> DEFINE low == (call[c].interval * 7) \div 10
<1>1. sinceStart[HostOf[c]] + call[c].timer >= low /\ call[c].timer = 0
  BY DEF HttpSound, CallSound, Start
<1>2. sinceStart[HostOf[c]] \in Nat
  BY CallTyped, SourceHttpAssumption DEF HttpSound, HttpTypeOK
<1> QED  BY <1>1, <1>2

(* Two requests to a host begin the later one's interval apart, less the   *)
(* jitter.                                                                 *)
THEOREM StartsAreSpaced == HttpSpec => [][StartsSpaced]_httpVars
BY SpacedNext, HttpSoundAlways, PTL

(* Going on the wire, or in line for it, makes nobody solving; nor does    *)
(* giving a permit back.                                                   *)
Begins(c) == call[c].pc # "solving" /\ call'[c].pc = "solving"

LEMMA SendSolvesNobody ==
  ASSUME HttpTypeOK, NEW c \in Calls, NEW next, "pc" \in DOMAIN next, Send(c, next),
         NEW x \in Calls
  PROVE  ~Begins(x)
<1>1. PICK p \in {"fetching", "permit"} : call' = [call EXCEPT ![c] = [next EXCEPT !.pc = p]]
  BY DEF Send
<1>2. call \in [Calls -> Call]
  BY DEF HttpTypeOK
<1>3. CASE x = c
  <2>1. call'[x] = [next EXCEPT !.pc = p] /\ [next EXCEPT !.pc = p].pc = p
    BY <1>1, <1>2, <1>3
  <2> QED  BY <2>1, <1>1 DEF Begins
<1>4. CASE x # c
  BY <1>1, <1>2, <1>4 DEF Begins
<1> QED  BY <1>3, <1>4

LEMMA ReleaseSolvesNobody ==
  ASSUME HttpSound, NEW c \in Calls, NEW next \in Call, call[c].pc = "fetching",
         next.pc \in {"idle", "backoff", "toSolve"}, Release(c, next), NEW x \in Calls
  PROVE  ~Begins(x)
<1>1. OthersStay(c) /\ call'[c] = next
  BY ReleaseKeepsLine
<1>2. ASSUME x # c PROVE call'[x].pc = call[x].pc \/ call'[x].pc \in {"permit", "fetching"}
  BY <1>1, <1>2, OthersAtBrowser
<1> QED  BY <1>1, <1>2 DEF Begins

(* A call begins to be solved by SolveBegin, in no other step.             *)
LEMMA OnlySolveBeginSolves ==
  ASSUME HttpSound, [HttpNext]_httpVars, NEW c \in Calls, Begins(c)
  PROVE  SolveBegin(c)
<1>1. call \in [Calls -> Call] /\ \A d \in Calls : call[d] \in Call /\ "pc" \in DOMAIN call[d]
  BY DEF HttpSound, HttpTypeOK, Call
<1>2. ASSUME NEW d \in Calls, Request(d) \/ Begin(d) PROVE ~Begins(c)
  <2>1. PICK r : call' = [call EXCEPT ![d] = r] /\ r.pc \in {"queued", "spacing"}
    <3>1. CASE Request(d)
      <4> DEFINE r == [Idle EXCEPT !.pc = "queued",
                            !.interval = Larger(Floor(HostOf[d]), MinInterval[d])]
      <4>1. r.pc = "queued"
        BY DEF Idle
      <4>2. call' = [call EXCEPT ![d] = r]
        BY <3>1 DEF Request
      <4> QED  BY <4>1, <4>2
    <3>2. CASE Begin(d)
      <4>1. PICK j \in Jittered(call[d].interval) :
                call' = [call EXCEPT ![d] = [@ EXCEPT !.pc = "spacing",
                                    !.timer = Larger(j - sinceStart[HostOf[d]], 0)]]
        BY <3>2 DEF Begin
      <4>2. [call[d] EXCEPT !.pc = "spacing",
                            !.timer = Larger(j - sinceStart[HostOf[d]], 0)].pc = "spacing"
        BY <1>1 DEF Call
      <4> QED  BY <1>1, <4>1, <4>2
    <3> QED  BY <1>2, <3>1, <3>2
  <2> QED  BY <1>1, <2>1 DEF Begins
<1>3. ASSUME NEW d \in Calls, Start(d) PROVE ~Begins(c)
  <2>1. CASE Send(d, [call[d] EXCEPT !.attempt = 1])
    BY <1>1, <2>1, SendSolvesNobody DEF HttpSound
  <2>2. CASE call' = [call EXCEPT ![d] = Idle]
    BY <1>1, <2>2 DEF Begins, Idle
  <2> QED  BY <1>3, <2>1, <2>2 DEF Start
<1>4. ASSUME NEW d \in Calls, Retry(d) PROVE ~Begins(c)
  BY <1>1, <1>4, SendSolvesNobody DEF Retry, HttpSound
<1>5. ASSUME NEW d \in Calls, Response(d) PROVE ~Begins(c)
  <2>1. call[d].pc = "fetching" /\ call[d] \in Call
    BY <1>1, <1>5 DEF Response
  <2>2. ASSUME Settles(d) PROVE ~Begins(c)
    BY <2>1, <2>2, IdleTyped, ReleaseSolvesNobody DEF Settles, Idle
  <2>3. ASSUME NEW ms \in Nat, SleepsThenRetries(d, ms) PROVE ~Begins(c)
    <3> DEFINE next == [call[d] EXCEPT !.pc = "backoff", !.timer = ms]
    <3>1. next \in Call /\ next.pc = "backoff"
      BY <2>1 DEF Call, PC
    <3>2. Release(d, next)
      BY <2>3 DEF SleepsThenRetries
    <3> HIDE DEF next
    <3> QED  BY <2>1, <3>1, <3>2, ReleaseSolvesNobody
  <2>4. ASSUME Challenged(d) PROVE ~Begins(c)
    <3> DEFINE mark == IF d \in Posts /\ call[d].clearance = "none"
                       THEN "earning" ELSE call[d].clearance
               next == [call[d] EXCEPT !.pc = "toSolve", !.clearance = mark]
    <3>1. next \in Call /\ next.pc = "toSolve"
      <4>1. mark \in {"none", "earning", "earned"}
        BY <2>1 DEF Call
      <4> HIDE DEF mark
      <4> QED  BY <2>1, <4>1 DEF Call, PC
    <3>2. Settles(d) \/ Release(d, next)
      BY <2>4 DEF Challenged
    <3> HIDE DEF next
    <3> QED  BY <2>1, <2>2, <3>1, <3>2, ReleaseSolvesNobody
  <2>5. /\ \A ms \in Jittered(Backoff(call[d].attempt)) : ms \in Nat
        /\ RetryAfters \subseteq Nat
    <3>1. call[d].attempt \in Nat \ {0}
      BY <2>1, CallTyped DEF HttpSound, CallSound
    <3> QED  BY <3>1, BackoffTyped, JitterTyped, SourceHttpAssumption
  <2> QED  BY <1>5, <2>2, <2>3, <2>4, <2>5
           DEF Response, Answered, Unreachable, FailsSoftly, ToldToWait, RetriesOrGivesUp
<1>6. ASSUME NEW d \in Calls, Solve(d) PROVE SolveBegin(c)
  <2>1. CASE SolveBegin(d)
    BY <1>1, <2>1 DEF SolveBegin, Begins
  <2>2. ASSUME Resend(d) PROVE FALSE
    <3> DEFINE next == [call[d] EXCEPT !.attempt = @ + 1, !.clearance = "earned"]
    <3>1. Send(d, next) /\ "pc" \in DOMAIN next
      BY <1>1, <2>2 DEF Resend
    <3> HIDE DEF next
    <3> QED  BY <3>1, SendSolvesNobody DEF HttpSound
  <2>3. ASSUME NEW solved \in BOOLEAN, SolveSettles(d, solved) PROVE FALSE
    BY <1>1, <2>3 DEF SolveSettles, Begins, Idle
  <2> QED  BY <1>6, <2>1, <2>2, <2>3 DEF Solve
<1>7. CASE Tick
  <2>1. call'[c] = [call[c] EXCEPT !.timer = Larger(call[c].timer - 1, 0)]
    BY <1>7 DEF Tick
  <2>2. call'[c].pc = call[c].pc
    BY <1>1, <2>1 DEF Call
  <2> QED  BY <2>2 DEF Begins
<1>8. CASE Reset \/ UNCHANGED httpVars
  BY <1>8 DEF Reset, httpVars, Begins
<1> QED  BY <1>2, <1>3, <1>4, <1>5, <1>6, <1>7, <1>8 DEF HttpNext, Step

(* The browser serves one challenge at a time, and takes no host on again  *)
(* within its cooldown, however long the challenge has waited.             *)
THEOREM SolvesStayRare == HttpSpec => SolvesAreRare
<1> DEFINE Rare(c) == /\ sinceSolve[HostOf[c]] >= SolveCooldown
                      /\ \A d \in Calls : call[d].pc # "solving"
<1>1. ASSUME HttpSound, [HttpNext]_httpVars, NEW c \in Calls, Begins(c)
      PROVE  Rare(c)
  <2>1. call[c].pc = "toSolve" /\ Head(solveChain) = c
    BY <1>1, OnlySolveBeginSolves DEF SolveBegin
  <2>2. ASSUME NEW d \in Calls, call[d].pc = "solving" PROVE FALSE
    BY <1>1, <2>1, <2>2 DEF HttpSound, BrowserSound
  <2> QED  BY <1>1, <2>1, <2>2 DEF HttpSound, BrowserSound
<1>2. HttpSound /\ [HttpNext]_httpVars => [\A c \in Calls : Begins(c) => Rare(c)]_httpVars
  BY <1>1
<1>3. HttpSpec => [][\A c \in Calls : Begins(c) => Rare(c)]_httpVars
  BY <1>2, HttpSoundAlways, PTL DEF HttpSpec
<1> QED  BY <1>3 DEF SolvesAreRare, Begins
-----------------------------------------------------------------------------
(* The sources of an account.                                              *)

(* What was chosen has a row, so that an account without one has nothing   *)
(* to lose to a seeding; and what is chosen between a seeding's question   *)
(* and its rows is overtaken by them.                                      *)
ChosenHasRow == \A p \in Packages : choice[p] # "none" => state[p] # "none"

SeedingOvertakes ==
    command.name = "seed" => \A p \in Packages : choice[p] # "none" => p \in overtaken

RegistrySound == RegistryTypeOK /\ ChoicesStand /\ ChosenHasRow /\ SeedingOvertakes

LEMMA RegistrySoundInit == RegistryInit => RegistrySound
BY DEF RegistryInit, NoSources, NoCommand, RegistrySound, RegistryTypeOK, ChoicesStand,
       ChosenHasRow, SeedingOvertakes

\* Seeding an account that has no choice to lose.
LEMMA SeedingSpares ==
  ASSUME RegistrySound, member, state' = Install(state, Seeded),
         \A p \in Packages : choice[p] # "none" => p \in overtaken /\ state[p] # "none",
         UNCHANGED <<member, choice, overtaken>>,
         command' \in {command, NoCommand}
  PROVE  RegistrySound'
<1>1. RegistryTypeOK'
  BY DEF Install, RegistrySound, RegistryTypeOK
<1>2. ChoicesStand' /\ ChosenHasRow'
  BY DEF Install, ChoicesStand, ChosenHasRow
<1>3. SeedingOvertakes'
  BY DEF NoCommand, SeedingOvertakes
<1> QED  BY <1>1, <1>2, <1>3 DEF RegistrySound

LEMMA RegistrySoundNext ==
  ASSUME RegistrySound, [RegistryNext]_registryVars
  PROVE  RegistrySound'
<1>0. /\ state \in [Packages -> {"on", "off", "none"}]
      /\ choice \in [Packages -> {"on", "off", "none"}]
  BY DEF RegistrySound, RegistryTypeOK
<1>1. CASE AddMember \/ DiffAgainstSeed \/ Interrupted \/ UNCHANGED registryVars
  BY <1>1 DEF AddMember, DiffAgainstSeed, Interrupted, registryVars,
              NoCommand, RegistrySound, RegistryTypeOK, ChoicesStand, ChosenHasRow,
              SeedingOvertakes
<1>2. CASE SeedAdded
  <2>1. CASE member
    <3>1. \A p \in Packages : choice[p] # "none" => p \in overtaken /\ state[p] # "none"
      BY <1>2 DEF SeedAdded, RegistrySound, SeedingOvertakes, ChosenHasRow
    <3> QED  BY <1>2, <2>1, <3>1, SeedingSpares DEF SeedAdded
  <2>2. CASE ~member
    BY <1>2, <2>2 DEF SeedAdded, NoCommand, RegistrySound, RegistryTypeOK, ChoicesStand,
                      ChosenHasRow, SeedingOvertakes
  <2> QED  BY <2>1, <2>2
<1>3. CASE RemoveMember
  BY <1>3 DEF RemoveMember, NoSources, RegistrySound, RegistryTypeOK, ChoicesStand,
              ChosenHasRow, SeedingOvertakes
<1>6. CASE ReadSeeded
  <2>1. SeedDefaults(state) # state => \A p \in Packages : choice[p] = "none"
    BY DEF SeedDefaults, NoSources, RegistrySound, ChosenHasRow
  <2>2. UNCHANGED <<member, state, choice, overtaken>>
    BY <1>6 DEF ReadSeeded
  <2>3. SeedingOvertakes'
    BY <1>6, <2>1, <2>2 DEF ReadSeeded, NoCommand, SeedingOvertakes
  <2> QED  BY <2>2, <2>3 DEF RegistrySound, RegistryTypeOK, ChoicesStand, ChosenHasRow
<1>7. CASE Boot
  <2>1. CASE member /\ state = NoSources
    <3>1. \A p \in Packages : choice[p] = "none"
      BY <2>1 DEF NoSources, RegistrySound, ChosenHasRow
    <3>2. state' = Install(state, Seeded)
      BY <1>7, <2>1 DEF Boot, SeedDefaults
    <3> QED  BY <1>7, <2>1, <3>1, <3>2, SeedingSpares DEF Boot
  <2>2. CASE ~(member /\ state = NoSources)
    BY <1>7, <2>2 DEF Boot, SeedDefaults, RegistrySound, RegistryTypeOK, ChoicesStand,
                      ChosenHasRow, SeedingOvertakes
  <2> QED  BY <2>1, <2>2
<1>4. ASSUME NEW p \in Packages, NEW on \in BOOLEAN, Switch(p, on)
      PROVE  RegistrySound'
  <2>1. /\ member /\ member' = member
        /\ choice' = [choice EXCEPT ![p] = state'[p]]
        /\ overtaken' = IF command.name = "seed" THEN overtaken \cup {p} ELSE overtaken \ {p}
        /\ command' = command
        /\ state' = IF on THEN Install(state, {p}) ELSE Uninstall(state, {p})
    BY <1>4 DEF Switch
  <2>2. state' \in [Packages -> {"on", "off", "none"}]
    BY <1>0, <2>1 DEF Install, Uninstall
  <2>3. \A q \in Packages \ {p} : state'[q] = state[q]
    BY <2>1 DEF Install, Uninstall
  <2> QED  BY <1>0, <2>1, <2>2, <2>3
           DEF RegistrySound, RegistryTypeOK, ChoicesStand, ChosenHasRow, SeedingOvertakes
<1>5. CASE ApplySeedDiff
  <2>1. CASE ~member
    BY <1>5, <2>1 DEF ApplySeedDiff, NoCommand, RegistrySound, RegistryTypeOK, ChoicesStand,
                      ChosenHasRow, SeedingOvertakes
  <2>2. CASE member
    <3> DEFINE switched == command.install \cup command.uninstall
    <3>1. /\ state' = Uninstall(Install(state, command.install), command.uninstall)
          /\ choice' = [p \in Packages |-> IF p \in switched THEN "none" ELSE choice[p]]
          /\ member' = member /\ overtaken' = overtaken /\ command' = NoCommand
      BY <1>5, <2>2 DEF ApplySeedDiff
    <3>2. state' \in [Packages -> {"on", "off", "none"}]
      BY <1>0, <3>1 DEF Install, Uninstall
    <3>3. \A p \in Packages : p \notin switched => state'[p] = state[p]
      BY <1>0, <3>1 DEF Install, Uninstall
    <3> HIDE DEF switched
    <3> QED  BY <1>0, <2>2, <3>1, <3>2, <3>3
             DEF NoCommand, RegistrySound, RegistryTypeOK, ChoicesStand, ChosenHasRow,
                 SeedingOvertakes
  <2> QED  BY <2>1, <2>2
<1> QED  BY <1>1, <1>2, <1>3, <1>4, <1>5, <1>6, <1>7 DEF RegistryNext

LEMMA RegistrySoundAlways == RegistrySpec => []RegistrySound
BY RegistrySoundInit, RegistrySoundNext, PTL DEF RegistrySpec

(* What an account chose for a source stands through every start of the    *)
(* server, every interrupted command and every seeding that asked for its  *)
(* rows after the choice, for any catalogue (registry.ts, main.ts).        *)
THEOREM ChoicesAlwaysStand == RegistrySpec => []ChoicesStand
<1>1. RegistrySound => ChoicesStand
  BY DEF RegistrySound
<1> QED  BY <1>1, RegistrySoundAlways, PTL

-----------------------------------------------------------------------------
(* The database.                                                           *)

(* The file between two openings: what its stamp says is what its tables   *)
(* have, but for a file not stamped yet, which is empty or from before     *)
(* there were versions; and each phase of an opening has come as far as    *)
(* its name says.                                                          *)
FileSound ==
    /\ version \in Nat /\ build \in Nat
    /\ phase # "closed" => build \in Builds
    /\ phase = "schema" => version = 0
    /\ half = FALSE =>
        /\ version > 0 => tables = TRUE /\ shape = 1..version
        /\ version = 0 => \/ tables = FALSE /\ shape = {}
                          \/ tables = TRUE /\ shape = {1}
                          \/ phase = "stampNew" /\ tables = TRUE /\ shape = 1..build
        /\ phase = "stampOld" => version = 0 /\ shape = {1}
        /\ phase = "stampNew" => version = 0 /\ shape = 1..build
        /\ phase = "climb" => version \in 1..build
        /\ phase = "open" => version = build

(* Units of work run only in a database that is open, and, unless a BEGIN  *)
(* has failed, exactly while SQLite is in a transaction.                   *)
WorkSound ==
    /\ written \in Nat /\ onDisk \in Nat /\ nest \in Nat
    /\ phase # "open" => depth = 0 /\ nest = 0 /\ begun = FALSE
    /\ stuck = FALSE => /\ nest > 0 => begun = TRUE /\ depth = 1 /\ onDisk = 0
                        /\ nest = 0 => begun = FALSE /\ depth = 0
                        /\ onDisk \in {0, written}

SwitchesTyped ==
    /\ tables \in BOOLEAN /\ half \in BOOLEAN
    /\ begun \in BOOLEAN /\ stuck \in BOOLEAN

DatabaseSound == FileSound /\ WorkSound /\ SwitchesTyped

LEMMA DatabaseSoundInit == DatabaseInit => DatabaseSound
<1> SUFFICES ASSUME DatabaseInit PROVE DatabaseSound
  OBVIOUS
<1>1. FileSound
  BY DEF DatabaseInit, FileSound
<1>2. WorkSound
  BY DEF DatabaseInit, WorkSound
<1>3. SwitchesTyped
  BY DEF DatabaseInit, SwitchesTyped
<1> QED  BY <1>1, <1>2, <1>3 DEF DatabaseSound

LEMMA SwitchesTypedNext ==
  ASSUME DatabaseSound, [DatabaseNext]_dbVars
  PROVE  SwitchesTyped'
BY DEF DatabaseSound, SwitchesTyped, DatabaseNext, OpenDb, CreateTables, TablesCutOff,
       StampVersion, Migrate,
       Opened, Transaction, Write, Return, Throw, Kill, fileVars, workVars, dbVars

LEMMA FileSoundNext ==
  ASSUME DatabaseSound, [DatabaseNext]_dbVars
  PROVE  FileSound'
<1> USE DEF DatabaseSound, FileSound, fileVars, workVars
<1>0. \A b \in Builds : b \in Nat \ {0}
  BY DatabaseAssumption
<1>1. ASSUME NEW b \in Builds, OpenDb(b)
      PROVE  FileSound'
  BY <1>0, <1>1 DEF OpenDb
<1>2. CASE CreateTables \/ TablesCutOff
  <2>1. CASE half = TRUE \/ TablesCutOff
    BY <1>0, <1>2, <2>1 DEF CreateTables, TablesCutOff
  <2>2. CASE half = FALSE /\ CreateTables
    <3>1. /\ shape' = IF tables THEN shape ELSE 1..build
          /\ tables' = TRUE /\ half' = half
          /\ phase' = IF tables THEN "stampOld" ELSE "stampNew"
          /\ UNCHANGED <<build, version>>
      BY <2>2 DEF CreateTables
    <3> QED  BY <1>0, <2>2, <3>1 DEF CreateTables
  <2> QED  BY <1>2, <2>1, <2>2 DEF SwitchesTyped
<1>3. CASE StampVersion
  BY <1>0, <1>3 DEF StampVersion
<1>4. CASE Migrate
  <2>1. version < build /\ phase = "climb" /\ half' = half /\ tables' = tables
    BY <1>4 DEF Migrate
  <2>2. CASE version + 1 \in shape
    <3>1. shape # 1..version
      <4>1. version + 1 \notin 1..version
        OBVIOUS
      <4> QED  BY <2>2, <4>1
    <3> QED  BY <1>4, <2>1, <2>2, <3>1 DEF Migrate
  <2>3. CASE version + 1 \notin shape
    <3>1. /\ shape' = shape \cup {version + 1} /\ version' = version + 1
          /\ phase' = phase /\ build' = build
      BY <1>4, <2>3 DEF Migrate
    <3>2. half = FALSE => shape' = 1..version'
      <4>1. half = FALSE => shape = 1..version
        BY <2>1
      <4>2. 1..(version + 1) = (1..version) \cup {version + 1}
        OBVIOUS
      <4> QED  BY <3>1, <4>1, <4>2
    <3>3. half = FALSE => tables = TRUE
      BY <2>1
    <3> QED  BY <2>1, <3>1, <3>2, <3>3
  <2> QED  BY <2>2, <2>3
<1>5. CASE Opened
  BY <1>5 DEF Opened
<1>6. CASE Transaction \/ Write \/ Return \/ Throw \/ UNCHANGED dbVars
  BY <1>6 DEF Transaction, Write, Return, Throw, dbVars
<1>7. CASE Kill
  <2>1. /\ phase' = "closed" /\ build' = 0
        /\ version' = version /\ shape' = shape /\ tables' = tables
    BY <1>7 DEF Kill
  <2>2. half' = FALSE => half = FALSE /\ phase # "stampNew"
    BY <1>7 DEF Kill, SwitchesTyped
  <2> QED  BY <2>1, <2>2
<1> QED  BY <1>1, <1>2, <1>3, <1>4, <1>5, <1>6, <1>7 DEF DatabaseNext

LEMMA WorkSoundNext ==
  ASSUME DatabaseSound, [DatabaseNext]_dbVars
  PROVE  WorkSound'
<1> USE DEF DatabaseSound, WorkSound, fileVars, workVars
<1>1. ASSUME NEW b \in Builds, OpenDb(b) PROVE WorkSound'
  BY <1>1 DEF OpenDb
<1>2. CASE CreateTables \/ TablesCutOff \/ StampVersion \/ Migrate \/ Opened \/ UNCHANGED dbVars
  BY <1>2 DEF CreateTables, TablesCutOff, StampVersion, Migrate, Opened, dbVars
<1>3. CASE Transaction
  BY <1>3 DEF Transaction
<1>4. CASE Write
  BY <1>4 DEF Write
<1>5. CASE Return
  <2>1. /\ nest > 0 /\ nest' = nest - 1 /\ phase = "open" /\ phase' = phase
        /\ written' = written /\ stuck' = stuck
    BY <1>5 DEF Return
  <2>2. CASE nest = 1 /\ begun
    <3>1. onDisk' = written /\ begun' = FALSE /\ depth' = depth - 1
      BY <1>5, <2>2 DEF Return
    <3>2. stuck = FALSE => depth = 1
      BY <2>1
    <3> QED  BY <2>1, <2>2, <3>1, <3>2
  <2>3. CASE ~(nest = 1 /\ begun)
    <3>1. onDisk' = onDisk /\ begun' = begun /\ depth' = depth
      BY <1>5, <2>3 DEF Return
    <3>2. stuck = FALSE => nest # 1
      BY <2>1, <2>3
    <3> QED  BY <2>1, <3>1, <3>2
  <2> QED  BY <2>2, <2>3
<1>6. CASE Throw
  <2>1. /\ nest > 0 /\ nest' = 0 /\ begun' = FALSE /\ phase = "open" /\ phase' = phase
        /\ written' = written /\ stuck' = stuck /\ onDisk' = onDisk
        /\ depth' = IF begun THEN depth - 1 ELSE depth
    BY <1>6 DEF Throw
  <2>2. stuck = FALSE => begun = TRUE /\ depth = 1
    BY <2>1
  <2> QED  BY <2>1, <2>2
<1>7. CASE Kill
  BY <1>7 DEF Kill
<1> QED  BY <1>1, <1>2, <1>3, <1>4, <1>5, <1>6, <1>7 DEF DatabaseNext

LEMMA DatabaseSoundAlways == DatabaseSpec => []DatabaseSound
<1>1. DatabaseSound /\ [DatabaseNext]_dbVars => DatabaseSound'
  BY FileSoundNext, WorkSoundNext, SwitchesTypedNext DEF DatabaseSound
<1> QED  BY <1>1, DatabaseSoundInit, PTL DEF DatabaseSpec

(* A database that opens has exactly the columns of its build, by whatever *)
(* builds and kills it came there, and units of work are on disk whole or  *)
(* not at all, for any builds, any number of writes and any depth          *)
(* (migrations.ts, open.ts).                                               *)
THEOREM DatabaseStaysWhole == DatabaseSpec => []DatabaseIsWhole
<1>1. DatabaseSound => DatabaseIsWhole
  <2>1. DatabaseSound => /\ ~half => half = FALSE
                         /\ ~stuck => stuck = FALSE
    BY DEF DatabaseSound, SwitchesTyped
  <2>2. FileSound /\ phase = "open" /\ half = FALSE => shape = 1..build /\ version = build
    BY DatabaseAssumption DEF FileSound
  <2>3. WorkSound /\ stuck = FALSE => onDisk \in {0, written} /\ (nest > 0 => onDisk = 0)
    BY DEF WorkSound
  <2> QED  BY <2>1, <2>2, <2>3 DEF DatabaseSound, DatabaseIsWhole
<1> QED  BY <1>1, DatabaseSoundAlways, PTL

-----------------------------------------------------------------------------
(* An update and its rollback.                                             *)

UpdateTyped ==
    /\ live \in [Paths -> Nat] /\ staging \in [Paths -> Nat]
    /\ previous \in [Paths -> Nat] /\ before \in [Paths -> Nat]
    /\ job \in [name : {"none", "empty", "swap", "restore"}, at : Nat]
    /\ job.name = "swap" => torn = FALSE

(* Each path the update found is where it was and not touched yet, or kept *)
(* in previous/.                                                           *)
NothingLost ==
    torn = FALSE =>
        \A p \in Paths : before[p] # 0 =>
            \/ previous[p] = 0 /\ live[p] = before[p]
            \/ previous[p] = before[p]

(* What the release has for a path goes in once: of what was moved out     *)
(* nothing is moved out again.                                             *)
MovedOnce ==
    job.name = "swap" => \A p \in Paths : staging[p] # 0 => previous[p] = 0 \/ live[p] = 0

(* A rollback has still to come to every path that is not back.            *)
StillToCome ==
    job.name = "restore" /\ torn = FALSE =>
        \A p \in Paths : before[p] # 0 /\ live[p] # before[p] =>
            \E i \in DOMAIN Payload : i >= job.at /\ Payload[i] = p

UpdateSound == UpdateTyped /\ NothingLost /\ MovedOnce /\ StillToCome

LEMMA UpdateSoundInit == UpdateInit => UpdateSound
<1> SUFFICES ASSUME UpdateInit PROVE UpdateSound
  OBVIOUS
<1>1. UpdateTyped
  BY DEF UpdateInit, UpdateTyped, NoTree, NoJob
<1>2. NothingLost
  BY DEF UpdateInit, NothingLost, NoTree
<1>3. MovedOnce /\ StillToCome
  BY DEF UpdateInit, MovedOnce, StillToCome, NoJob
<1> QED  BY <1>1, <1>2, <1>3 DEF UpdateSound

\* The path a swap or a rollback has come to is one of the payload's.
LEMMA AtIsAPath ==
  ASSUME UpdateTyped, job.at \in DOMAIN Payload
  PROVE  At \in Paths
BY DEF At, Paths

\* Where the job goes on, and nothing else of it changes.
LEMMA OnwardJob ==
  ASSUME UpdateTyped, Onward
  PROVE  job' \in [name : {"none", "empty", "swap", "restore"}, at : Nat]
         /\ job'.name = job.name /\ job'.at = job.at + 1
BY DEF UpdateTyped, Onward

LEMMA UpdateTypedNext ==
  ASSUME UpdateSound, [UpdateNext]_updateVars
  PROVE  UpdateTyped'
<1> USE DEF UpdateSound, UpdateTyped
<1>1. ASSUME NEW release \in Releases, Fetch(release) PROVE UpdateTyped'
  <2>1. release \in [Paths -> Nat]
    BY SelfUpdateAssumption
  <2> QED  BY <1>1, <2>1 DEF Fetch, NoTree, NoJob
<1>2. ASSUME NEW p \in Paths, ClearTree(p) PROVE UpdateTyped'
  BY <1>2 DEF ClearTree
<1>3. CASE ClearStamp \/ Cleared
  BY <1>3 DEF ClearStamp, Cleared
<1>4. CASE Skip
  BY <1>4, OnwardJob DEF Skip
<1>5. CASE MoveOut
  <2>1. At \in Paths
    BY <1>5, AtIsAPath DEF MoveOut, Swapping
  <2> QED  BY <1>5, <2>1 DEF MoveOut
<1>6. CASE MoveIn
  <2>1. At \in Paths
    BY <1>6, AtIsAPath DEF MoveIn, Swapping
  <2> QED  BY <1>6, <2>1, OnwardJob DEF MoveIn
<1>7. CASE StampPrevious \/ Rollback \/ RolledBack \/ CutOff
  BY <1>7 DEF StampPrevious, Rollback, RolledBack, CutOff, NoTree, NoJob
<1>8. CASE RemoveLive
  <2>1. At \in Paths
    BY <1>8, AtIsAPath DEF RemoveLive, Restoring
  <2> QED  BY <1>8, <2>1 DEF RemoveLive
<1>9. CASE CopyBack
  <2>1. At \in Paths
    BY <1>9, AtIsAPath DEF CopyBack, Restoring
  <2> QED  BY <1>9, <2>1, OnwardJob DEF CopyBack, Restoring
<1>10. CASE LeaveLive
  BY <1>10, OnwardJob DEF LeaveLive, Restoring
<1>11. CASE UNCHANGED updateVars
  BY <1>11 DEF updateVars
<1> QED  BY <1>1, <1>2, <1>3, <1>4, <1>5, <1>6, <1>7, <1>8, <1>9, <1>10, <1>11 DEF UpdateNext

LEMMA NothingLostNext ==
  ASSUME UpdateSound, [UpdateNext]_updateVars
  PROVE  NothingLost'
<1> USE DEF UpdateSound, UpdateTyped, NothingLost
<1>1. ASSUME NEW release \in Releases, Fetch(release) PROVE NothingLost'
  BY <1>1 DEF Fetch
<1>2. ASSUME NEW p \in Paths, ClearTree(p) PROVE NothingLost'
  BY <1>2 DEF ClearTree
<1>3. CASE Cleared
  BY <1>3 DEF Cleared, NoTree
<1>4. CASE ClearStamp \/ Skip \/ StampPrevious \/ Rollback \/ RolledBack \/ CutOff
           \/ LeaveLive \/ UNCHANGED updateVars
  BY <1>4 DEF ClearStamp, Skip, StampPrevious, Rollback, RolledBack, CutOff, LeaveLive,
              updateVars
<1>5. CASE MoveOut
  <2>1. /\ At \in Paths /\ staging[At] # 0 /\ live[At] # 0 /\ job.name = "swap"
        /\ previous' = [previous EXCEPT ![At] = live[At]]
        /\ live' = [live EXCEPT ![At] = 0]
        /\ before' = before /\ torn' = torn
    BY <1>5, AtIsAPath DEF MoveOut, Swapping
  <2>2. previous[At] = 0
    BY <2>1 DEF MovedOnce
  <2> HIDE DEF At
  <2> QED  BY <2>1, <2>2
<1>6. CASE MoveIn
  <2>1. /\ At \in Paths /\ live[At] = 0
        /\ live' = [live EXCEPT ![At] = staging[At]]
        /\ before' = before /\ torn' = torn /\ previous' = previous
    BY <1>6, AtIsAPath DEF MoveIn, Swapping
  <2> HIDE DEF At
  <2> QED  BY <2>1
<1>7. CASE RemoveLive
  <2>1. /\ At \in Paths /\ previous[At] # 0
        /\ live' = [live EXCEPT ![At] = 0]
        /\ before' = before /\ torn' = torn /\ previous' = previous
    BY <1>7, AtIsAPath DEF RemoveLive, Restoring
  <2> HIDE DEF At
  <2> QED  BY <2>1
<1>8. CASE CopyBack
  <2>1. /\ At \in Paths /\ previous[At] # 0
        /\ live' = [live EXCEPT ![At] = previous[At]]
        /\ before' = before /\ torn' = torn /\ previous' = previous
    BY <1>8, AtIsAPath DEF CopyBack, Restoring
  <2> HIDE DEF At
  <2> QED  BY <2>1
<1> QED  BY <1>1, <1>2, <1>3, <1>4, <1>5, <1>6, <1>7, <1>8 DEF UpdateNext

LEMMA MovedOnceNext ==
  ASSUME UpdateSound, [UpdateNext]_updateVars
  PROVE  MovedOnce'
<1> USE DEF UpdateSound, UpdateTyped, MovedOnce
<1>1. ASSUME NEW release \in Releases, Fetch(release) PROVE MovedOnce'
  BY <1>1 DEF Fetch, NoJob
<1>2. ASSUME NEW p \in Paths, ClearTree(p) PROVE MovedOnce'
  BY <1>2 DEF ClearTree
<1>3. CASE Cleared
  BY <1>3 DEF Cleared, NoTree
<1>4. CASE Skip
  BY <1>4, OnwardJob DEF Skip
<1>5. CASE MoveOut
  <2>1. /\ At \in Paths
        /\ previous' = [previous EXCEPT ![At] = live[At]]
        /\ live' = [live EXCEPT ![At] = 0]
        /\ job' = job /\ staging' = staging
    BY <1>5, AtIsAPath DEF MoveOut, Swapping
  <2> HIDE DEF At
  <2> QED  BY <2>1
<1>6. CASE MoveIn
  <2>1. /\ At \in Paths
        /\ live' = [live EXCEPT ![At] = staging[At]]
        /\ staging' = [staging EXCEPT ![At] = 0]
        /\ job'.name = job.name /\ previous' = previous
    BY <1>6, AtIsAPath, OnwardJob DEF MoveIn, Swapping
  <2> HIDE DEF At
  <2> QED  BY <2>1
<1>7. CASE ClearStamp \/ StampPrevious \/ Rollback \/ RolledBack \/ CutOff
           \/ UNCHANGED updateVars
  BY <1>7 DEF ClearStamp, StampPrevious, Rollback, RolledBack, CutOff, NoJob, updateVars
<1>8. CASE RemoveLive \/ CopyBack \/ LeaveLive
  BY <1>8, OnwardJob DEF RemoveLive, CopyBack, LeaveLive, Restoring
<1> QED  BY <1>1, <1>2, <1>3, <1>4, <1>5, <1>6, <1>7, <1>8 DEF UpdateNext

LEMMA PayloadPlaces == DOMAIN Payload \subseteq Nat \ {0}
<1>1. Payload \in Seq(Paths)
  BY SelfUpdateAssumption
<1> QED  BY <1>1, LenProperties

LEMMA StillToComeNext ==
  ASSUME UpdateSound, [UpdateNext]_updateVars
  PROVE  StillToCome'
<1> USE DEF UpdateSound, UpdateTyped, StillToCome
<1>0. DOMAIN Payload \subseteq Nat \ {0}
  BY PayloadPlaces
<1>1. ASSUME NEW release \in Releases, Fetch(release) PROVE StillToCome'
  BY <1>1 DEF Fetch, NoJob
<1>2. ASSUME NEW p \in Paths, ClearTree(p) PROVE StillToCome'
  BY <1>2 DEF ClearTree
<1>3. CASE Skip \/ MoveIn
  BY <1>3, OnwardJob DEF Skip, MoveIn, Swapping
<1>4. CASE ClearStamp \/ Cleared \/ MoveOut \/ StampPrevious \/ RolledBack \/ CutOff
           \/ UNCHANGED updateVars
  BY <1>4 DEF ClearStamp, Cleared, MoveOut, Swapping, StampPrevious, RolledBack, CutOff, NoJob,
              updateVars
<1>5. CASE Rollback
  <2>1. job'.at = 1
    BY <1>5 DEF Rollback
  <2>2. \A p \in Paths : \E i \in DOMAIN Payload : i >= 1 /\ Payload[i] = p
    BY <1>0 DEF Paths
  <2> QED  BY <2>1, <2>2
<1>6. CASE RemoveLive
  <2>1. /\ At \in Paths
        /\ job.at \in DOMAIN Payload /\ At = Payload[job.at]
        /\ live' = [live EXCEPT ![At] = 0]
        /\ before' = before /\ torn' = torn /\ job' = job /\ job.name = "restore"
    BY <1>6, AtIsAPath DEF RemoveLive, Restoring, At
  <2> HIDE DEF At
  <2> QED  BY <1>0, <2>1
<1>7. CASE CopyBack \/ LeaveLive
  <2>1. /\ At \in Paths
        /\ job.at \in DOMAIN Payload /\ At = Payload[job.at]
        /\ before' = before /\ torn' = torn /\ job.name = "restore"
        /\ \A p \in Paths : p # At => live'[p] = live[p]
        /\ job'.at = job.at + 1
    BY <1>7, AtIsAPath, OnwardJob DEF CopyBack, LeaveLive, Restoring, At
  <2>2. torn = FALSE /\ before[At] # 0 => live'[At] = before[At]
    <3>1. CASE CopyBack
      <4>1. previous[At] # 0 /\ live' = [live EXCEPT ![At] = previous[At]]
        BY <3>1 DEF CopyBack
      <4> HIDE DEF At
      <4> QED  BY <2>1, <4>1 DEF NothingLost
    <3>2. CASE LeaveLive
      <4>1. previous[At] = 0 /\ live' = live
        BY <3>2 DEF LeaveLive
      <4> HIDE DEF At
      <4> QED  BY <2>1, <4>1 DEF NothingLost
    <3> QED  BY <1>7, <3>1, <3>2
  <2>3. SUFFICES ASSUME torn = FALSE, NEW p \in Paths, before[p] # 0, live'[p] # before[p]
                 PROVE  \E i \in DOMAIN Payload : i >= job.at + 1 /\ Payload[i] = p
    BY <2>1
  <2>4. p # At /\ live[p] # before[p]
    BY <2>1, <2>2, <2>3
  <2>5. PICK i \in DOMAIN Payload : i >= job.at /\ Payload[i] = p
    BY <2>1, <2>3, <2>4
  <2>6. i # job.at
    BY <2>1, <2>4, <2>5
  <2> QED  BY <1>0, <2>5, <2>6
<1> QED  BY <1>1, <1>2, <1>3, <1>4, <1>5, <1>6, <1>7 DEF UpdateNext

LEMMA UpdateSoundAlways == UpdateSpec => []UpdateSound
<1>1. UpdateSound /\ [UpdateNext]_updateVars => UpdateSound'
  BY UpdateTypedNext, NothingLostNext, MovedOnceNext, StillToComeNext DEF UpdateSound
<1> QED  BY <1>1, UpdateSoundInit, PTL DEF UpdateSpec

(* A rollback that ends has put back every path its update found, and no   *)
(* tree a swap found is lost, wherever the swap is cut off, for any        *)
(* payload and any releases - until an update begins to empty previous/,   *)
(* of which the theorem says nothing when it is cut off (update.ts).       *)
THEOREM RollbackAlwaysUndoes == UpdateSpec => []RollbackUndoes
<1>1. UpdateSound => RollbackUndoes
  <2> SUFFICES ASSUME UpdateSound PROVE RollbackUndoes
    OBVIOUS
  <2>1. ASSUME job = [name |-> "restore", at |-> CommandEnded], ~torn, NEW p \in Paths,
               before[p] # 0
        PROVE  live[p] = before[p]
    <3>1. job.name = "restore" /\ job.at = Len(Payload) + 1 /\ torn = FALSE
      BY <2>1 DEF CommandEnded
    <3>2. \A i \in DOMAIN Payload : ~(i >= job.at)
      BY <3>1, SelfUpdateAssumption
    <3> QED  BY <2>1, <3>1, <3>2 DEF UpdateSound, StillToCome
  <2>2. ASSUME ~torn, NEW p \in Paths, before[p] # 0
        PROVE  before[p] \in {live[p], previous[p]}
    BY <2>2 DEF UpdateSound, UpdateTyped, NothingLost
  <2> QED  BY <2>1, <2>2 DEF RollbackUndoes
<1> QED  BY <1>1, UpdateSoundAlways, PTL

-----------------------------------------------------------------------------
(* Sessions.                                                               *)

(* A session that has ended has no row, and ids are not handed out twice,  *)
(* so that no row will have its id again.                                  *)
SessionsSound ==
    /\ opened \in 0..MaxSession
    /\ DOMAIN session = Sids
    /\ Known \subseteq 1..opened
    /\ over \subseteq 1..opened
    /\ \A s \in over : session[s] = None
    /\ EndedStaysEnded

LEMMA SessionsSoundInit == SessionsInit => SessionsSound
BY SessionsAssumption
   DEF SessionsInit, SessionsSound, Known, EndedStaysEnded

\* Sessions that are dropped are over, and no other row changes.
LEMMA DroppedAreOver ==
  ASSUME SessionsSound, NEW gone \in SUBSET (1..opened), Drop(gone), answered' = None,
         UNCHANGED opened
  PROVE  SessionsSound'
<1>1. /\ DOMAIN session' = Sids
      /\ \A s \in Sids : session'[s] = IF s \in gone THEN None ELSE session[s]
  BY DEF Drop
<1>2. 1..opened \subseteq Sids
  BY SessionsAssumption DEF SessionsSound, Sids
<1>3. over' = over \cup gone
  BY DEF Drop
<1>4. Known' \subseteq 1..opened
  BY <1>1 DEF SessionsSound, Known
<1> QED  BY <1>1, <1>2, <1>3, <1>4 DEF SessionsSound, EndedStaysEnded

LEMMA SessionsSoundNext ==
  ASSUME SessionsSound, [SessionsNext]_sessionVars
  PROVE  SessionsSound'
<1>0. 1..opened \subseteq Sids /\ opened \in Nat /\ MaxSession \in Nat
  BY SessionsAssumption DEF SessionsSound, Sids
<1>1. ASSUME UNCHANGED <<session, opened, over>>, answered' = None \/ UNCHANGED answered
      PROVE  SessionsSound'
  BY <1>1 DEF SessionsSound, Known, EndedStaysEnded
<1>2. CASE SessionTick \/ AddUser \/ UNCHANGED sessionVars
  BY <1>1, <1>2 DEF SessionTick, AddUser, sessionVars
<1>3. ASSUME NEW l \in Logins, \/ \E given \in 1..MaxPassword : Login(l, given)
                               \/ LoginFails(l)
      PROVE  SessionsSound'
  BY <1>1, <1>3 DEF Login, LoginFails
<1>4. ASSUME NEW l \in Logins, LoginSucceeds(l) PROVE SessionsSound'
  <2>1. CASE user = None
    BY <1>1, <1>4, <2>1 DEF LoginSucceeds
  <2>2. CASE user # None
    <3>1. /\ opened' = opened + 1 /\ opened < MaxSession
          /\ DOMAIN session' = Sids
          /\ \A s \in Sids : s # opened + 1 => session'[s] = session[s]
          /\ answered' = None /\ over' = over
      BY <1>4, <2>2 DEF LoginSucceeds, SessionsSound
    <3>2. Known' \subseteq 1..(opened + 1) /\ over' \subseteq 1..(opened + 1)
      BY <1>0, <3>1 DEF SessionsSound, Known, Sids
    <3>3. \A s \in over' : session'[s] = None
      BY <1>0, <3>1 DEF SessionsSound, Sids
    <3> QED  BY <1>0, <3>1, <3>2, <3>3 DEF SessionsSound, EndedStaysEnded
  <2> QED  BY <2>1, <2>2
<1>5. ASSUME NEW s \in Sids, SessionRequest(s) PROVE SessionsSound'
  <2>1. CASE Touch(s) /\ user.changedAt <= session[s].createdAt
    <3>1. /\ s \in 1..opened /\ session[s] # None
          /\ session' = [session EXCEPT ![s].seenAt = time]
          /\ answered' = s /\ over' = over /\ opened' = opened
      BY <1>5, <2>1 DEF SessionRequest, Touch
    <3>2. s \notin over
      BY <3>1 DEF SessionsSound
    <3>3. /\ DOMAIN session' = Sids
          /\ \A r \in Sids : r # s => session'[r] = session[r]
      BY <3>1 DEF SessionsSound
    <3>4. Known' \subseteq 1..opened
      BY <3>1, <3>3 DEF SessionsSound, Known
    <3>5. \A r \in over : session'[r] = None
      BY <1>0, <3>2, <3>3 DEF SessionsSound
    <3> QED  BY <3>1, <3>2, <3>3, <3>4, <3>5 DEF SessionsSound, EndedStaysEnded
  <2>2. CASE ~(Touch(s) /\ user.changedAt <= session[s].createdAt)
    BY <1>5, <2>2, DroppedAreOver DEF SessionRequest
  <2> QED  BY <2>1, <2>2
<1>6. ASSUME NEW s \in Sids, Logout(s) PROVE SessionsSound'
  BY <1>6, DroppedAreOver DEF Logout
<1>7. CASE Sweep
  <2> DEFINE gone == {s \in Known : ~Live(s)}
  <2>1. gone \in SUBSET (1..opened)
    BY DEF SessionsSound
  <2>2. Drop(gone) /\ answered' = None /\ UNCHANGED opened
    BY <1>7 DEF Sweep, Drop
  <2> HIDE DEF gone
  <2> QED  BY <2>1, <2>2, DroppedAreOver
<1>8. CASE ChangePassword \/ RemoveUser
  <2>1. Known \in SUBSET (1..opened)
    BY DEF SessionsSound
  <2> QED  BY <1>8, <2>1, DroppedAreOver DEF ChangePassword, RemoveUser
<1> QED  BY <1>2, <1>3, <1>4, <1>5, <1>6, <1>7, <1>8 DEF SessionsNext

LEMMA SessionsSoundAlways == SessionsSpec => []SessionsSound
BY SessionsSoundInit, SessionsSoundNext, PTL DEF SessionsSpec

(* A session that has ended answers no request again, however it ended and *)
(* whatever sign-ins, sweeps and commands overlap, for any clock and any   *)
(* number of sign-ins at once (app.ts, sessions.ts).                       *)
THEOREM EndedSessionsStayEnded == SessionsSpec => []EndedStaysEnded
<1>1. SessionsSound => EndedStaysEnded
  BY DEF SessionsSound
<1> QED  BY <1>1, SessionsSoundAlways, PTL

-----------------------------------------------------------------------------
(* The row of a title.                                                     *)

(* A row that a call has read is there still: titles are not taken away.   *)
DetailsSound ==
    /\ row \in DetailsRow \cup {NoRow}
    /\ called \in [DetailCalls -> DetailsRow \cup {NoRow}]
    /\ now \in 1..MaxNow
    /\ row = NoRow => \A c \in DetailCalls : called[c] = NoRow

(* What a step may make of a row, membership and date alone.               *)
Keeps(r, q) ==
    r.inLibrary = TRUE /\ r.addedAt > 0 => (q.inLibrary = TRUE => q.addedAt \in 1..r.addedAt)

LEMMA DetailsSoundInit == DetailsInit => DetailsSound
BY MangaDetailsAssumption DEF DetailsInit, DetailsSound

\* Rows whose columns are set one by one.
LEMMA RowsSet ==
  ASSUME NEW r \in DetailsRow
  PROVE  /\ \A x \in Said : [r EXCEPT !.text = x] \in DetailsRow
                            /\ Keeps(r, [r EXCEPT !.text = x])
         /\ [r EXCEPT !.inLibrary = FALSE] \in DetailsRow
         /\ Keeps(r, [r EXCEPT !.inLibrary = FALSE])
         /\ now \in 1..MaxNow => /\ Joined(r) \in DetailsRow /\ Keeps(r, Joined(r))
                                 /\ Imported(r) \in DetailsRow /\ Keeps(r, Imported(r))
<1> USE DEF DetailsRow, Keeps
<1>0. MaxNow \in Nat
  BY MangaDetailsAssumption
<1>1. \A x \in Said : [r EXCEPT !.text = x] \in DetailsRow /\ Keeps(r, [r EXCEPT !.text = x])
  OBVIOUS
<1>2. [r EXCEPT !.inLibrary = FALSE] \in DetailsRow /\ Keeps(r, [r EXCEPT !.inLibrary = FALSE])
  OBVIOUS
<1>3. ASSUME now \in 1..MaxNow
      PROVE  Joined(r) \in DetailsRow /\ Keeps(r, Joined(r))
  <2> DEFINE moment == IF r.inLibrary /\ r.addedAt > 0 THEN r.addedAt ELSE now
  <2>0. r.addedAt \in 0..MaxNow /\ now \in 0..MaxNow
    BY <1>0, <1>3
  <2>1. Joined(r) = [r EXCEPT !.inLibrary = TRUE, !.addedAt = moment]
    BY DEF Joined
  <2>2. moment \in 0..MaxNow
    BY <2>0
  <2>3. r.inLibrary = TRUE /\ r.addedAt > 0 => moment = r.addedAt
    OBVIOUS
  <2>4. Joined(r).addedAt = moment /\ Joined(r) \in DetailsRow
    <3> HIDE DEF moment
    <3> QED  BY <2>1, <2>2
  <2> HIDE DEF moment, DetailsRow
  <2>5. r.inLibrary = TRUE /\ r.addedAt > 0 => moment \in 1..r.addedAt
    BY <2>0, <2>3
  <2> QED  BY <2>4, <2>5
<1>4. ASSUME now \in 1..MaxNow
      PROVE  Imported(r) \in DetailsRow /\ Keeps(r, Imported(r))
  <2> DEFINE moment == IF r.addedAt = 0 THEN now ELSE r.addedAt
  <2>0. r.addedAt \in 0..MaxNow /\ now \in 0..MaxNow
    BY <1>0, <1>4
  <2>1. Imported(r) = [r EXCEPT !.inLibrary = TRUE, !.addedAt = moment]
    BY DEF Imported
  <2>2. moment \in 0..MaxNow
    BY <2>0
  <2>3. r.addedAt > 0 => moment = r.addedAt
    BY <2>0
  <2>4. Imported(r).addedAt = moment /\ Imported(r) \in DetailsRow
    <3> HIDE DEF moment
    <3> QED  BY <2>1, <2>2
  <2> HIDE DEF moment, DetailsRow
  <2>5. r.addedAt > 0 => moment \in 1..r.addedAt
    BY <2>0, <2>3
  <2> QED  BY <2>4, <2>5
<1> QED  BY <1>1, <1>2, <1>3, <1>4

LEMMA DetailsMove ==
  ASSUME DetailsSound, [DetailsNext]_detailsVars
  PROVE  DetailsSound' /\ (row # NoRow => row' \in DetailsRow /\ Keeps(row, row'))
<1> DEFINE Fine == DetailsSound' /\ (row # NoRow => row' \in DetailsRow /\ Keeps(row, row'))
<1>0. /\ MaxNow \in Nat \ {0} /\ NoRow \notin DetailsRow
      /\ now \in 1..MaxNow /\ (row # NoRow => row \in DetailsRow)
      /\ called \in [DetailCalls -> DetailsRow \cup {NoRow}]
      /\ \A x \in Said, y \in Said : Coalesce(x, y) \in Said
  BY MangaDetailsAssumption DEF DetailsSound, Coalesce
<1>1. ASSUME UNCHANGED <<row, called>>, now' \in 1..MaxNow PROVE Fine
  BY <1>0, <1>1 DEF DetailsSound, DetailsRow, Keeps
<1>2. ASSUME row' \in DetailsRow, UNCHANGED <<called, now>>,
             row # NoRow => Keeps(row, row')
      PROVE  Fine
  BY <1>0, <1>2 DEF DetailsSound
<1>3. ASSUME NEW c \in DetailCalls, FetchManga(c) \/ SourceFails(c) PROVE Fine
  <2>1. /\ row' = row /\ now' = now
        /\ \E r \in {row, NoRow} : called' = [called EXCEPT ![c] = r]
        /\ row = NoRow => SourceFails(c)
    BY <1>3 DEF FetchManga, SourceFails
  <2>2. called' \in [DetailCalls -> DetailsRow \cup {NoRow}]
    BY <1>0, <2>1
  <2>3. row = NoRow => \A d \in DetailCalls : called'[d] = NoRow
    BY <1>0, <2>1 DEF DetailsSound, SourceFails
  <2>4. row # NoRow => row' \in DetailsRow /\ Keeps(row, row')
    BY <1>0, <2>1 DEF DetailsRow, Keeps
  <2> QED  BY <1>0, <2>1, <2>2, <2>3, <2>4 DEF DetailsSound
<1>4. ASSUME NEW said \in Said, StoreListing(said) PROVE Fine
  <2>1. CASE row = NoRow
    <3>1. row' = [text |-> said, inLibrary |-> FALSE, addedAt |-> 0]
      BY <1>4, <2>1 DEF StoreListing
    <3>2. row' \in DetailsRow
      BY <1>0, <3>1 DEF DetailsRow
    <3> QED  BY <1>2, <1>4, <2>1, <3>2 DEF StoreListing
  <2>2. CASE row # NoRow
    <3>1. row' = [row EXCEPT !.text = Coalesce(said, row.text)]
      BY <1>4, <2>2 DEF StoreListing
    <3>2. row.text \in Said
      BY <1>0, <2>2 DEF DetailsRow
    <3>3. Coalesce(said, row.text) \in Said
      BY <1>0, <3>2
    <3>4. row' \in DetailsRow /\ Keeps(row, row')
      BY <1>0, <2>2, <3>1, <3>3, RowsSet
    <3>5. UNCHANGED <<called, now>>
      BY <1>4 DEF StoreListing
    <3> QED  BY <1>2, <3>4, <3>5
  <2> QED  BY <2>1, <2>2
<1>5. ASSUME NEW inLibrary \in BOOLEAN, UpdateManga(inLibrary) PROVE Fine
  <2>1. row # NoRow /\ row' \in {Joined(row), [row EXCEPT !.inLibrary = FALSE]}
    BY <1>5 DEF UpdateManga
  <2> QED  BY <1>0, <1>2, <1>5, <2>1, RowsSet DEF UpdateManga
<1>6. CASE ImportLibrary
  <2>1. CASE row = NoRow
    <3>1. row' = [text |-> Silent, inLibrary |-> TRUE, addedAt |-> now]
      BY <1>6, <2>1 DEF ImportLibrary
    <3>2. row' \in DetailsRow
      BY <1>0, <3>1 DEF DetailsRow, Said
    <3> QED  BY <1>2, <1>6, <2>1, <3>2 DEF ImportLibrary
  <2>2. CASE row # NoRow
    <3>1. row' = Imported(row)
      BY <1>6, <2>2 DEF ImportLibrary
    <3> QED  BY <1>0, <1>2, <1>6, <2>2, <3>1, RowsSet DEF ImportLibrary
  <2> QED  BY <2>1, <2>2
<1>7. ASSUME NEW c \in DetailCalls, NEW said \in Said, DetailsArrive(c, said) PROVE Fine
  <2>1. called[c] # NoRow /\ row # NoRow
    BY <1>7 DEF DetailsArrive, DetailsSound
  <2>2. row' = [row EXCEPT !.text = Coalesce(said, called[c].text)]
    BY <1>7 DEF DetailsArrive, Details
  <2>3. called[c].text \in Said
    BY <1>0, <2>1 DEF DetailsRow
  <2>4. row' \in DetailsRow /\ Keeps(row, row')
    BY <1>0, <2>1, <2>2, <2>3, RowsSet
  <2>5. called' \in [DetailCalls -> DetailsRow \cup {NoRow}] /\ now' = now
    BY <1>0, <1>7 DEF DetailsArrive
  <2> QED  BY <1>0, <2>1, <2>4, <2>5 DEF DetailsSound
<1>8. ASSUME NEW said \in Said, NEW inLibrary \in BOOLEAN, NEW at \in 0..now,
             UpsertManga(said, inLibrary, at)
      PROVE  Fine
  <2>1. CASE row = NoRow
    <3>1. row' = [text |-> said, inLibrary |-> inLibrary, addedAt |-> at]
      BY <1>8, <2>1 DEF UpsertManga
    <3>2. row' \in DetailsRow
      BY <1>0, <3>1 DEF DetailsRow
    <3> QED  BY <1>2, <1>8, <2>1, <3>2 DEF UpsertManga
  <2>2. CASE row # NoRow
    <3> DEFINE earlier == Earliest(row.addedAt, at)
               member_ == row.inLibrary \/ inLibrary
    <3>1. row' = [text |-> Coalesce(said, row.text), inLibrary |-> member_,
                  addedAt |-> earlier]
      BY <1>8, <2>2 DEF UpsertManga
    <3>2. row.text \in Said /\ row.addedAt \in 0..MaxNow /\ at \in 0..MaxNow
      BY <1>0, <2>2 DEF DetailsRow
    <3>3. earlier \in 0..MaxNow /\ (row.addedAt > 0 => earlier \in 1..row.addedAt)
      BY <1>0, <3>2 DEF Earliest
    <3>4. member_ \in BOOLEAN
      BY <1>0, <2>2 DEF DetailsRow
    <3> HIDE DEF earlier, member_
    <3>5. row' \in DetailsRow
      BY <1>0, <3>1, <3>2, <3>3, <3>4 DEF DetailsRow
    <3>6. Keeps(row, row')
      BY <3>1, <3>3 DEF Keeps
    <3> QED  BY <1>2, <1>8, <3>5, <3>6 DEF UpsertManga
  <2> QED  BY <2>1, <2>2
<1>9. CASE Passes \/ UNCHANGED detailsVars
  BY <1>0, <1>1, <1>9 DEF Passes, detailsVars
<1> QED  BY <1>3, <1>4, <1>5, <1>6, <1>7, <1>8, <1>9 DEF DetailsNext

LEMMA DatesHoldNext == DetailsSound /\ [DetailsNext]_detailsVars => DateHolds
<1> SUFFICES ASSUME DetailsSound, [DetailsNext]_detailsVars,
                    row # NoRow, row.inLibrary, row.addedAt > 0, row'.inLibrary
             PROVE  row'.addedAt \in 1..row.addedAt
  BY DEF DateHolds
<1>1. row \in DetailsRow /\ row' \in DetailsRow /\ Keeps(row, row')
  BY DetailsMove DEF DetailsSound
<1>2. row.inLibrary = TRUE /\ row'.inLibrary = TRUE
  BY <1>1 DEF DetailsRow
<1> QED  BY <1>1, <1>2 DEF Keeps

LEMMA DetailsSoundAlways == DetailsSpec => []DetailsSound
BY DetailsSoundInit, DetailsMove, PTL DEF DetailsSpec

(* A title that stays in the library keeps the date it was added, whatever *)
(* details, listings, imports and restores come, for any texts and any     *)
(* number of calls at once (library.ts, records.ts, apply.ts).             *)
THEOREM DatesHold == DetailsSpec => [][DateHolds]_detailsVars
BY DetailsSoundAlways, DatesHoldNext, PTL DEF DetailsSpec

-----------------------------------------------------------------------------
(* The icons.                                                              *)

Queued(q) == {q[i] : i \in DOMAIN q}

\* The queue names no package twice and none that is in flight.
IconsSound ==
    /\ iconWaiting \in Seq(Sites)
    /\ \A i, j \in 1..Len(iconWaiting) : iconWaiting[i] = iconWaiting[j] => i = j
    /\ fetching \cap Queued(iconWaiting) = {}
    /\ IsFiniteSet(fetching)
    /\ active \in 0..WarmConcurrency
    /\ Cardinality(fetching) = active
    /\ active < WarmConcurrency => iconWaiting = <<>>
    /\ warming = fetching \cup Queued(iconWaiting)

\* As many packages as places, where none is named twice.
LEMMA NamedOnce ==
  ASSUME NEW S, NEW q \in Seq(S), \A i, j \in 1..Len(q) : q[i] = q[j] => i = j
  PROVE  IsFiniteSet(Queued(q)) /\ Cardinality(Queued(q)) = Len(q)
<1>1. q \in Bijection(1..Len(q), Queued(q))
  BY DEF Bijection, Injection, Surjection, IsInjective, Queued
<1>2. Len(q) \in Nat /\ IsFiniteSet(1..Len(q)) /\ Cardinality(1..Len(q)) = Len(q)
  <2>1. Len(q) \in Nat
    OBVIOUS
  <2>2. /\ IsFiniteSet(1..Len(q))
        /\ Cardinality(1..Len(q)) = IF 1 > Len(q) THEN 0 ELSE Len(q) - 1 + 1
    BY <2>1, FS_Interval
  <2> QED  BY <2>1, <2>2
<1>3. ExistsBijection(1..Len(q), Queued(q))
  BY <1>1 DEF ExistsBijection
<1> QED  BY <1>2, <1>3, FS_Bijection

LEMMA IconsSoundInit == IconsInit => IconsSound
BY FS_EmptySet, SourceIconsAssumption DEF IconsInit, IconsSound, Queued

\* A package is put in a free slot or at the end of the queue.
LEMMA EnqueuedOnce ==
  ASSUME IconsSound, NEW p \in Sites, p \notin warming,
         warming' = warming \cup {p}, Enqueued(p)
  PROVE  IconsSound'
<1>0. WarmConcurrency \in Nat \ {0} /\ active \in 0..WarmConcurrency
  BY SourceIconsAssumption DEF IconsSound
<1>1. CASE active < WarmConcurrency
  <2>1. fetching' = fetching \cup {p} /\ active' = active + 1 /\ iconWaiting' = iconWaiting
    BY <1>1 DEF Enqueued
  <2>2. iconWaiting = <<>>
    BY <1>1 DEF IconsSound
  <2>3. IsFiniteSet(fetching') /\ Cardinality(fetching') = active'
    BY <2>1, FS_AddElement DEF IconsSound
  <2>4. active' \in 0..WarmConcurrency
    BY <1>0, <1>1, <2>1
  <2>5. Queued(iconWaiting) = {} /\ Queued(iconWaiting') = {}
    BY <2>1, <2>2 DEF Queued
  <2> QED  BY <2>1, <2>2, <2>3, <2>4, <2>5 DEF IconsSound
<1>2. CASE ~(active < WarmConcurrency)
  <2>1. iconWaiting' = Append(iconWaiting, p) /\ UNCHANGED <<fetching, active>>
    BY <1>2 DEF Enqueued
  <2>2. /\ iconWaiting \in Seq(Sites) /\ iconWaiting' \in Seq(Sites)
        /\ Len(iconWaiting') = Len(iconWaiting) + 1
        /\ iconWaiting'[Len(iconWaiting) + 1] = p
        /\ \A i \in 1..Len(iconWaiting) : iconWaiting'[i] = iconWaiting[i]
    BY <2>1 DEF IconsSound
  <2>3. p \notin Queued(iconWaiting) /\ p \notin fetching
    BY DEF IconsSound
  <2>4. \A i \in 1..Len(iconWaiting) : iconWaiting[i] # p
    BY <2>2, <2>3 DEF Queued
  <2>5. \A i, j \in 1..Len(iconWaiting') : iconWaiting'[i] = iconWaiting'[j] => i = j
    <3> SUFFICES ASSUME NEW i \in 1..Len(iconWaiting'), NEW j \in 1..Len(iconWaiting'),
                        iconWaiting'[i] = iconWaiting'[j]
                 PROVE  i = j
      OBVIOUS
    <3>1. /\ i \in 1..Len(iconWaiting) \/ i = Len(iconWaiting) + 1
          /\ j \in 1..Len(iconWaiting) \/ j = Len(iconWaiting) + 1
      BY <2>2
    <3> QED  BY <3>1, <2>2, <2>4 DEF IconsSound
  <2>6. Queued(iconWaiting') = Queued(iconWaiting) \cup {p}
    <3>1. /\ DOMAIN iconWaiting' = 1..(Len(iconWaiting) + 1)
          /\ DOMAIN iconWaiting = 1..Len(iconWaiting) /\ Len(iconWaiting) \in Nat
      BY <2>2
    <3>2. 1..(Len(iconWaiting) + 1) = 1..Len(iconWaiting) \cup {Len(iconWaiting) + 1}
      BY <3>1
    <3>3. \A x : x \in Queued(iconWaiting') <=>
                     \E i \in 1..Len(iconWaiting) \cup {Len(iconWaiting) + 1} :
                         x = iconWaiting'[i]
      BY <3>1, <3>2 DEF Queued
    <3>4. \A x : x \in Queued(iconWaiting) <=>
                     \E i \in 1..Len(iconWaiting) : x = iconWaiting[i]
      BY <3>1 DEF Queued
    <3> QED  BY <2>2, <3>3, <3>4
  <2> QED  BY <1>0, <1>2, <2>1, <2>2, <2>3, <2>5, <2>6 DEF IconsSound
<1> QED  BY <1>1, <1>2

\* The slot of a package that was looked for goes to the first in the queue.
LEMMA SlotGoesOn ==
  ASSUME IconsSound, NEW p \in fetching, warming' = warming \ {p}, SlotFreed(p)
  PROVE  IconsSound'
<1>0. WarmConcurrency \in Nat \ {0} /\ active \in 0..WarmConcurrency
  BY SourceIconsAssumption DEF IconsSound
<1>1. IsFiniteSet(fetching \ {p}) /\ Cardinality(fetching \ {p}) = active - 1
  BY FS_RemoveElement DEF IconsSound
<1>2. active - 1 \in 0..WarmConcurrency
  <2>1. Cardinality(fetching \ {p}) \in Nat
    BY <1>1, FS_CardinalityType
  <2> QED  BY <1>0, <1>1, <2>1
<1>3. CASE iconWaiting = <<>>
  <2>1. fetching' = fetching \ {p} /\ iconWaiting' = <<>> /\ active' = active - 1
    BY <1>3 DEF SlotFreed
  <2>2. Queued(iconWaiting) = {} /\ Queued(iconWaiting') = {}
    BY <1>3, <2>1 DEF Queued
  <2>3. warming' = fetching' \cup Queued(iconWaiting')
    BY <2>1, <2>2 DEF IconsSound
  <2>4. iconWaiting' \in Seq(Sites) /\ Len(iconWaiting') = 0
    BY <2>1
  <2> QED  BY <1>1, <1>2, <2>1, <2>2, <2>3, <2>4 DEF IconsSound
<1>4. CASE iconWaiting # <<>>
  <2> DEFINE h == Head(iconWaiting)
             n == Len(iconWaiting)
  <2>1. /\ fetching' = (fetching \ {p}) \cup {h}
        /\ iconWaiting' = Tail(iconWaiting) /\ active' = active
    BY <1>4 DEF SlotFreed
  <2>2. /\ iconWaiting \in Seq(Sites) /\ n \in Nat /\ n > 0 /\ h = iconWaiting[1]
        /\ iconWaiting' \in Seq(Sites) /\ Len(iconWaiting') = n - 1
        /\ \A i \in 1..(n - 1) : iconWaiting'[i] = iconWaiting[i + 1]
    <3>1. iconWaiting \in Seq(Sites)
      BY DEF IconsSound
    <3> QED  BY <1>4, <2>1, <3>1
  <2>3. \A x : x \in Queued(iconWaiting) <=> \E i \in 1..n : x = iconWaiting[i]
    BY <2>2 DEF Queued
  <2>4. \A x : x \in Queued(iconWaiting') <=> \E i \in 1..(n - 1) : x = iconWaiting[i + 1]
    BY <2>2 DEF Queued
  <2>5. \A i, j \in 1..n : iconWaiting[i] = iconWaiting[j] => i = j
    BY DEF IconsSound
  <2> HIDE DEF h, n
  <2>6. h \in Queued(iconWaiting) /\ h \notin Queued(iconWaiting')
    <3>1. 1 \in 1..n /\ \A i \in 1..(n - 1) : i + 1 \in 1..n /\ i + 1 # 1
      BY <2>2
    <3> QED  BY <2>2, <2>3, <2>4, <2>5, <3>1
  <2>7. Queued(iconWaiting) = Queued(iconWaiting') \cup {h}
    <3>1. \A i \in 1..(n - 1) : i + 1 \in 1..n
      BY <2>2
    <3>2. \A i \in 1..n : i = 1 \/ (i - 1 \in 1..(n - 1) /\ (i - 1) + 1 = i)
      BY <2>2
    <3>3. ASSUME NEW x \in Queued(iconWaiting) PROVE x = h \/ x \in Queued(iconWaiting')
      <4>1. PICK i \in 1..n : x = iconWaiting[i]
        BY <2>3
      <4>2. CASE i = 1
        BY <2>2, <4>1, <4>2
      <4>3. CASE i # 1
        <5>1. i - 1 \in 1..(n - 1) /\ x = iconWaiting[(i - 1) + 1]
          BY <3>2, <4>1, <4>3
        <5> QED  BY <2>4, <5>1
      <4> QED  BY <4>2, <4>3
    <3>4. \A x \in Queued(iconWaiting') : x \in Queued(iconWaiting)
      BY <2>3, <2>4, <3>1
    <3> QED  BY <2>6, <3>3, <3>4
  <2>8. \A i, j \in 1..Len(iconWaiting') : iconWaiting'[i] = iconWaiting'[j] => i = j
    <3> SUFFICES ASSUME NEW i \in 1..(n - 1), NEW j \in 1..(n - 1),
                        iconWaiting'[i] = iconWaiting'[j]
                 PROVE  i = j
      BY <2>2
    <3>1. i + 1 \in 1..n /\ j + 1 \in 1..n
      BY <2>2
    <3>2. i + 1 = j + 1
      BY <2>2, <2>5, <3>1
    <3>3. i \in Int /\ j \in Int
      OBVIOUS
    <3> QED  BY <3>2, <3>3
  <2>9. fetching \cap Queued(iconWaiting) = {} /\ warming = fetching \cup Queued(iconWaiting)
    BY DEF IconsSound
  <2>10. h \notin fetching
    BY <2>6, <2>9
  <2>11. fetching' \cap Queued(iconWaiting') = {} /\ warming' = fetching' \cup Queued(iconWaiting')
    BY <2>1, <2>6, <2>7, <2>9
  <2>12. IsFiniteSet(fetching') /\ Cardinality(fetching') = active'
    <3>1. Cardinality((fetching \ {p}) \cup {h}) = Cardinality(fetching \ {p}) + 1
      BY <1>1, <2>10, FS_AddElement
    <3>2. IsFiniteSet((fetching \ {p}) \cup {h})
      BY <1>1, FS_AddElement
    <3> QED  BY <1>0, <1>1, <2>1, <3>1, <3>2
  <2>13. active' < WarmConcurrency => iconWaiting' = <<>>
    BY <1>4, <2>1 DEF IconsSound
  <2> QED  BY <1>0, <2>1, <2>2, <2>8, <2>11, <2>12, <2>13 DEF IconsSound
<1> QED  BY <1>3, <1>4

LEMMA IconsSoundNext ==
  ASSUME IconsSound, [IconsNext]_iconVars
  PROVE  IconsSound'
<1>1. ASSUME NEW p \in Sites, SourceIcon(p) PROVE IconsSound'
  <2>1. CASE p \in iconDisk
    BY <1>1, <2>1 DEF SourceIcon, IconsSound, Queued
  <2>2. CASE p \notin iconDisk
    <3>1. p \notin warming /\ warming' = warming \cup {p} /\ Enqueued(p)
      BY <1>1, <2>2 DEF SourceIcon, IconWanted
    <3> QED  BY <3>1, EnqueuedOnce
  <2> QED  BY <2>1, <2>2
<1>2. ASSUME NEW p \in Sites, NEW found \in BOOLEAN, NEW saved \in BOOLEAN,
             IconFetched(p, found, saved)
      PROVE  IconsSound'
  BY <1>2, SlotGoesOn DEF IconFetched
<1>3. CASE RestartIcons
  BY <1>3, FS_EmptySet, SourceIconsAssumption DEF RestartIcons, IconsSound, Queued
<1>4. CASE UNCHANGED iconVars
  BY <1>4 DEF iconVars, IconsSound, Queued
<1> QED  BY <1>1, <1>2, <1>3, <1>4 DEF IconsNext

LEMMA IconsSoundMeans == IconsSound => WarmedOnce
<1> SUFFICES ASSUME IconsSound PROVE WarmedOnce
  OBVIOUS
<1>1. IsFiniteSet(Queued(iconWaiting)) /\ Cardinality(Queued(iconWaiting)) = Len(iconWaiting)
  BY NamedOnce DEF IconsSound
<1>2. fetching \cap Queued(iconWaiting) = {} /\ IsFiniteSet(fetching)
      /\ warming = fetching \cup Queued(iconWaiting) /\ Cardinality(fetching) = active
  BY DEF IconsSound
<1>3. Cardinality(fetching \cup Queued(iconWaiting)) =
          Cardinality(fetching) + Cardinality(Queued(iconWaiting))
              - Cardinality(fetching \cap Queued(iconWaiting))
  BY <1>1, <1>2, FS_Union
<1>4. active \in Nat /\ Len(iconWaiting) \in Nat
  BY SourceIconsAssumption DEF IconsSound
<1>5. Cardinality(warming) = active + Len(iconWaiting)
  <2>1. Cardinality(fetching \cap Queued(iconWaiting)) = 0
    BY <1>2, FS_EmptySet
  <2>2. Cardinality(warming) = active + Len(iconWaiting) - 0
    BY <1>1, <1>2, <1>3, <2>1
  <2> QED  BY <1>4, <2>2
<1>6. {iconWaiting[i] : i \in DOMAIN iconWaiting} = Queued(iconWaiting)
  BY DEF Queued
<1>7. active < WarmConcurrency => iconWaiting = <<>>
  BY DEF IconsSound
<1> QED  BY <1>2, <1>5, <1>6, <1>7 DEF WarmedOnce

(* No site is asked twice at once, the counter of slots is right and no    *)
(* slot stands free while a package waits, for any number of sites and     *)
(* slots and however requests, answers and failures fall (icons.ts).       *)
THEOREM IconsAreWarmedOnce == IconsSpec => []WarmedOnce
<1> QED  BY IconsSoundInit, IconsSoundNext, IconsSoundMeans, PTL DEF IconsSpec

-----------------------------------------------------------------------------
(* The key of MangaHub.                                                    *)

AskStates == [at : {"idle", "renew", "again", "done", "nokey", "failed"},
              key : {"unasked", "brought", "missed", "died"}]

(* A question that is put again knows what came of its renewal, and the    *)
(* key brought for it stands until it is said to have died.                *)
KeySound ==
    /\ asks \in [Asks -> AskStates]
    /\ \A a \in Asks :
          /\ asks[a].at \in {"idle", "renew"} => asks[a].key = "unasked"
          /\ asks[a].at = "again" => asks[a].key # "unasked"
          /\ asks[a].at = "again" /\ asks[a].key = "brought" => mhub = "fresh"
          /\ asks[a].at = "nokey" => asks[a].key \in {"missed", "died"}

LEMMA KeySoundInit == SitesInit => KeySound
<1>1. asks = [a \in Asks |-> NoAsk] => KeySound
  BY DEF KeySound, AskStates, NoAsk
<1> QED  BY <1>1 DEF SitesInit

LEMMA KeySoundNext == KeySound /\ [SitesNext]_siteVars => KeySound'
<1> SUFFICES ASSUME KeySound, [SitesNext]_siteVars PROVE KeySound'
  OBVIOUS
<1>1. CASE UNCHANGED <<mhub, asks>>
  BY <1>1 DEF KeySound
<1>2. ASSUME NEW a \in Asks, Ask(a) PROVE KeySound'
  BY <1>2 DEF KeySound, AskStates, Ask, AskMoves, BadKey
<1>3. ASSUME NEW a \in Asks, RefreshKey(a) PROVE KeySound'
  BY <1>3 DEF KeySound, AskStates, RefreshKey
<1>4. ASSUME NEW a \in Asks, AskAgain(a) PROVE KeySound'
  BY <1>4 DEF KeySound, AskStates, AskAgain, AskMoves
<1>5. CASE KeyExpires
  BY <1>5 DEF KeySound, AskStates, KeyExpires
<1>6. CASE \/ OpenListing \/ ListPage \/ OpenPopular \/ OpenFeed \/ FeedStep
           \/ Publish \/ Withdraw \/ GetPageList \/ Search \/ UNCHANGED siteVars
  BY <1>1, <1>6 DEF OpenListing, ListPage, OpenPopular, OpenFeed, FeedStep, Publish,
     Withdraw, GetPageList, Search, siteVars
<1> QED  BY <1>2, <1>3, <1>4, <1>5, <1>6 DEF SitesNext

(* A question fails for want of a key only when the key brought for it has *)
(* died since or none was to be had, for any number of questions at once   *)
(* (mangahub.ts:16-20).                                                    *)
THEOREM KeysAreRenewed == SitesSpec => []KeyIsRenewed
<1>1. KeySound => KeyIsRenewed
  BY DEF KeySound, KeyIsRenewed
<1> QED  BY <1>1, KeySoundInit, KeySoundNext, PTL DEF SitesSpec

-----------------------------------------------------------------------------
(* What an account is shown: a listing passes through its library.         *)

(* What a listing may not take from a row.                                 *)
RowKept(a, b) ==
    /\ IsStored(a) => IsStored(b)
    /\ a.author # "" => b.author # ""
    /\ a.status # "UNKNOWN" => b.status # "UNKNOWN"
    /\ a.initialized => b.initialized
    /\ a.inLibrary => b.inLibrary
RowsKept(a, b) == \A x \in Listable : RowKept(a[x], b[x])

LEMMA RowsKeptOnwards ==
  ASSUME NEW a, NEW b, NEW c, RowsKept(a, b), RowsKept(b, c) PROVE RowsKept(a, c)
BY DEF RowsKept, RowKept

LEMMA UpsertKeeps ==
  ASSUME NEW was \in TitleRow, NEW item \in Item, Usable(item)
  PROVE  /\ UpsertSourceManga(was, item) \in TitleRow
         /\ RowKept(was, UpsertSourceManga(was, item)) /\ IsStored(UpsertSourceManga(was, item))
<1> DEFINE new == UpsertSourceManga(was, item)
<1>1. /\ new.title = item.title /\ new.author = Told(item.author, was.author)
      /\ new.status = IF item.status = "UNKNOWN" THEN was.status ELSE item.status
      /\ new.initialized = was.initialized /\ new.inLibrary = was.inLibrary
      /\ new \in TitleRow
  BY DEF UpsertSourceManga, TitleRow, Item, Told, AnyText
<1>2. item.title # ""
  BY DEF Usable
<1> HIDE DEF new
<1>3. IsStored(new) /\ RowKept(was, new)
  BY <1>1, <1>2 DEF RowKept, IsStored, Told
<1> QED  BY <1>1, <1>3 DEF new

LEMMA StoreItemKeeps ==
  ASSUME NEW s, NEW rows \in [Listable -> TitleRow], NEW item \in Item
  PROVE  /\ StoreItem(s, rows, item) \in [Listable -> TitleRow]
         /\ RowsKept(rows, StoreItem(s, rows, item))
         /\ Usable(item) /\ <<s, item.url>> \in Listable => IsStored(StoreItem(s, rows, item)[<<s, item.url>>])
<1> DEFINE x == <<s, item.url>>
           new == StoreItem(s, rows, item)
<1>1. CASE ~Usable(item)
  <2>1. new = rows
    BY <1>1 DEF StoreItem
  <2> QED  BY <1>1, <2>1 DEF RowsKept, RowKept
<1>2. CASE Usable(item)
  <2>1. new = [rows EXCEPT ![x] = UpsertSourceManga(@, item)]
    BY <1>2 DEF StoreItem
  <2> HIDE DEF x, new
  <2>2. \A y \in Listable : /\ rows[y] \in TitleRow
                            /\ new[y] = IF y = x THEN UpsertSourceManga(rows[y], item) ELSE rows[y]
    BY <2>1
  <2>3. \A y \in Listable : /\ new[y] \in TitleRow /\ RowKept(rows[y], new[y])
                            /\ y = x => IsStored(new[y])
    <3> SUFFICES ASSUME NEW y \in Listable
                 PROVE  /\ new[y] \in TitleRow /\ RowKept(rows[y], new[y])
                        /\ y = x => IsStored(new[y])
      OBVIOUS
    <3>1. CASE y = x
      <4>1. rows[y] \in TitleRow /\ new[y] = UpsertSourceManga(rows[y], item)
        BY <2>2, <3>1
      <4> QED  BY <1>2, <4>1, UpsertKeeps
    <3>2. CASE y # x
      <4>1. rows[y] \in TitleRow /\ new[y] = rows[y]
        BY <2>2, <3>2
      <4> QED  BY <3>2, <4>1 DEF RowKept
    <3> QED  BY <3>1, <3>2
  <2>4. new \in [Listable -> TitleRow]
    BY <2>1, <2>3
  <2> QED  BY <2>3, <2>4 DEF RowsKept, x, new
<1> QED  BY <1>1, <1>2

Stores(s, page, f) ==
    [S \in SUBSET (DOMAIN page) |-> IF S = {} THEN stored ELSE StoreItem(s, f[S \ {Max(S)}], page[Max(S)])]
Storing(s, page) == CHOOSE f : f = Stores(s, page, f)

LEMMA StoreGridIsAFold == \A s, page : StoreGrid(s, page) = Storing(s, page)[DOMAIN page]
BY Zenon DEF StoreGrid, FoldLeft, MapThenFoldSet, Storing, Stores

LEMMA StoringRecurs ==
  ASSUME NEW s, NEW page \in Seq(Item), stored \in [Listable -> TitleRow]
  PROVE  /\ Storing(s, page)[{}] = stored
         /\ \A k \in 1..Len(page) :
               /\ Storing(s, page)[1..(k - 1)] \in [Listable -> TitleRow]
               /\ Storing(s, page)[1..k] = StoreItem(s, Storing(s, page)[1..(k - 1)], page[k])
<1> DEFINE n == Len(page)
           V == [Listable -> TitleRow]
           g == [p \in V \X (1..n) |-> StoreItem(s, p[1], page[p[2]])]
<1>1. n \in Nat /\ DOMAIN page = 1..n /\ stored \in V /\ \A k \in 1..n : page[k] \in Item
  OBVIOUS
<1>2. ASSUME NEW rows \in V, NEW k \in 1..n
      PROVE  /\ <<rows, k>> \in V \X (1..n) /\ g[<<rows, k>>] = StoreItem(s, rows, page[k])
             /\ StoreItem(s, rows, page[k]) \in V
  <2>1. <<rows, k>> \in V \X (1..n) /\ g[<<rows, k>>] = StoreItem(s, rows, page[k])
    OBVIOUS
  <2>2. StoreItem(s, rows, page[k]) \in V
    BY <1>1, StoreItemKeeps
  <2> QED  BY <2>1, <2>2
<1>3. g \in [V \X (1..n) -> V]
  <2>1. \A p \in V \X (1..n) : p[1] \in V /\ p[2] \in 1..n
    OBVIOUS
  <2>2. \A p \in V \X (1..n) : StoreItem(s, p[1], page[p[2]]) \in V
    BY <2>1, <1>2
  <2> QED  BY <2>2
<1> HIDE DEF n, V, g
<1>4. PICK f : IsFold(f, n, V, stored, g)
  <2>1. n \in 0..n
    BY <1>1
  <2> QED  BY <1>1, <1>3, <2>1, FoldsExist
<1>5. ASSUME NEW S \in SUBSET (1..n)
      PROVE  f[S] = IF S = {} THEN stored ELSE StoreItem(s, f[S \ {Max(S)}], page[Max(S)])
  <2>1. f[S] = IF S = {} THEN stored ELSE g[<<f[S \ {Max(S)}], Max(S)>>]
    BY <1>4 DEF IsFold
  <2>2. CASE S # {}
    <3>1. Max(S) \in 1..n /\ S \ {Max(S)} \in SUBSET (1..n)
      BY <1>1, <2>2, MaxIsOne
    <3>2. f[S \ {Max(S)}] \in V
      BY <1>4, <3>1 DEF IsFold
    <3> QED  BY <2>1, <2>2, <3>1, <3>2, <1>2
  <2> QED  BY <2>1, <2>2
<1>6. f = Stores(s, page, f)
  <2>1. f = [S \in SUBSET (1..n) |-> f[S]]
    BY <1>4 DEF IsFold
  <2> QED  BY <1>1, <1>5, <2>1 DEF Stores
<1>7. Storing(s, page) = Stores(s, page, Storing(s, page))
  BY <1>6, Zenon DEF Storing
<1> DEFINE h == Storing(s, page)
<1> HIDE DEF h
<1>8. \A S \in SUBSET (1..n) : h[S] = IF S = {} THEN stored ELSE StoreItem(s, h[S \ {Max(S)}], page[Max(S)])
  BY <1>1, <1>7 DEF h, Stores
<1>9. h[{}] = stored
  BY <1>8
<1>10. ASSUME NEW k \in 1..n
       PROVE  h[1..k] = StoreItem(s, h[1..(k - 1)], page[k])
  <2>1. 1..k \in SUBSET (1..n) /\ k \in 1..k /\ k \in Nat
    BY <1>1
  <2>2. (1..k) \ {k} = 1..(k - 1) /\ 1..k # {}
    <3>1. \A i \in Nat : (1..i) \ {i} = 1..(i - 1)
      OBVIOUS
    <3> QED  BY <2>1, <3>1
  <2>3. Max(1..k) = k
    BY <2>1, MaxOfSome
  <2> QED  BY <1>8, <2>1, <2>2, <2>3
<1>11. \A k \in 1..n : h[1..(k - 1)] \in V
  <2> DEFINE Bad == {k \in 1..n : h[1..(k - 1)] \notin V}
  <2>1. SUFFICES ASSUME Bad # {} PROVE FALSE
    OBVIOUS
  <2>2. Bad \in SUBSET Nat
    BY <1>1
  <2>3. PICK k \in Bad : \A j \in Bad : k <= j
    BY <2>1, <2>2, SmallestOf
  <2>4. CASE k = 1
    <3>1. 1..(k - 1) = {}
      BY <2>4
    <3> QED  BY <1>1, <1>9, <2>3, <3>1
  <2>5. CASE k # 1
    <3>1. k - 1 \in 1..n /\ k - 1 \notin Bad
      BY <1>1, <2>3, <2>5
    <3>2. h[1..((k - 1) - 1)] \in V
      BY <3>1
    <3>3. h[1..(k - 1)] \in V
      BY <1>10, <3>1, <3>2, <1>2
    <3> QED  BY <2>3, <3>3
  <2> QED  BY <2>4, <2>5
<1> QED  BY <1>9, <1>10, <1>11 DEF h, n, V

(* Storing a page takes nothing, and stores what is usable of it.          *)
LEMMA StoreGridKeeps ==
  ASSUME NEW s \in Catalogues, NEW page \in Grids, stored \in [Listable -> TitleRow]
  PROVE  /\ StoreGrid(s, page) \in [Listable -> TitleRow]
         /\ RowsKept(stored, StoreGrid(s, page))
         /\ \A url \in UrlsOf(page) : <<s, url>> \in Listable /\ IsStored(StoreGrid(s, page)[<<s, url>>])
<1> DEFINE n == Len(page)
           h == Storing(s, page)
           V == [Listable -> TitleRow]
           Right(k) == h[1..k] \in V /\ RowsKept(stored, h[1..k])
                          /\ \A i \in 1..k : Usable(page[i]) => IsStored(h[1..k][<<s, page[i].url>>])
           Bad == {k \in 0..n : ~Right(k)}
<1>1. page \in Seq(Item)
  BY ListingsAssumption
<1>2. n \in Nat /\ DOMAIN page = 1..n /\ \A k \in 1..n : page[k] \in Item
  BY <1>1
<1>3. /\ h[{}] = stored
      /\ \A k \in 1..n : h[1..(k - 1)] \in V /\ h[1..k] = StoreItem(s, h[1..(k - 1)], page[k])
  BY <1>1, StoringRecurs
<1>4. \A i \in 1..n : Usable(page[i]) => page[i].url \in UrlsOf(page) /\ <<s, page[i].url>> \in Listable
  <2> SUFFICES ASSUME NEW i \in 1..n, Usable(page[i])
               PROVE  page[i].url \in UrlsOf(page) /\ <<s, page[i].url>> \in Listable
    OBVIOUS
  <2>1. page[i] \in ToSet(page)
    BY <1>2 DEF ToSet
  <2>2. page[i].url \in UrlsOf(page)
    BY <2>1 DEF UrlsOf
  <2> QED  BY <2>2 DEF Listable
<1>5. Bad = {}
  <2>1. SUFFICES ASSUME Bad # {} PROVE FALSE
    OBVIOUS
  <2>2. Bad \in SUBSET Nat
    BY <1>2
  <2>3. PICK k \in Bad : \A j \in Bad : k <= j
    <3> HIDE DEF Bad
    <3> QED  BY <2>1, <2>2, SmallestOf
  <2>4. k \in 0..n /\ ~Right(k)
    BY <2>3
  <2>5. CASE k = 0
    <3>1. 1..k = {} /\ h[1..k] = stored
      BY <1>3, <2>5
    <3>2. RowsKept(stored, stored)
      BY DEF RowsKept, RowKept
    <3>3. \A i \in 1..k : FALSE
      BY <3>1
    <3> QED  BY <2>4, <3>1, <3>2, <3>3
  <2>6. CASE k # 0
    <3>0. k - 1 \in 0..n /\ k \in 1..n /\ ~(k <= k - 1)
      BY <1>2, <2>4, <2>6
    <3>1. k - 1 \notin Bad
      <4> HIDE DEF Bad
      <4> QED  BY <3>0, <2>3
    <3>2. Right(k - 1)
      BY <3>0, <3>1
    <3> DEFINE a == h[1..(k - 1)]
    <3>3. /\ a \in V /\ RowsKept(stored, a)
          /\ \A i \in 1..(k - 1) : Usable(page[i]) => IsStored(a[<<s, page[i].url>>])
      BY <3>2
    <3>4. h[1..k] = StoreItem(s, a, page[k]) /\ page[k] \in Item
      BY <1>2, <1>3, <3>0
    <3> HIDE DEF a, h, Right, Bad
    <3>5. /\ h[1..k] \in V /\ RowsKept(a, h[1..k])
          /\ Usable(page[k]) /\ <<s, page[k].url>> \in Listable => IsStored(h[1..k][<<s, page[k].url>>])
      <4> DEFINE b == page[k]
      <4>1. a \in [Listable -> TitleRow] /\ b \in Item
        BY <3>3, <3>4
      <4> HIDE DEF b
      <4>2. /\ StoreItem(s, a, b) \in [Listable -> TitleRow] /\ RowsKept(a, StoreItem(s, a, b))
            /\ Usable(b) /\ <<s, b.url>> \in Listable => IsStored(StoreItem(s, a, b)[<<s, b.url>>])
        BY <4>1, StoreItemKeeps
      <4>3. h[1..k] = StoreItem(s, a, b)
        BY <3>4 DEF b
      <4> QED  BY <4>2, <4>3, Zenon DEF b
    <3>6. RowsKept(stored, h[1..k])
      BY <3>3, <3>5, RowsKeptOnwards
    <3>7. ASSUME NEW i \in 1..k, Usable(page[i]) PROVE IsStored(h[1..k][<<s, page[i].url>>])
      <4>1. i \in 1..n
        BY <3>0, <1>2
      <4>2. <<s, page[i].url>> \in Listable
        BY <1>4, <3>7, <4>1
      <4>3. CASE i = k
        BY <3>5, <3>7, <4>2, <4>3
      <4>4. CASE i # k
        <5>1. i \in 1..(k - 1)
          BY <4>4, <3>0
        <5>2. IsStored(a[<<s, page[i].url>>])
          BY <3>3, <3>7, <5>1
        <5> QED  BY <3>5, <4>2, <5>2 DEF RowsKept, RowKept
      <4> QED  BY <4>3, <4>4
    <3>8. Right(k)
      BY <3>5, <3>6, <3>7 DEF Right
    <3> QED  BY <3>8, <2>4
  <2> QED  BY <2>5, <2>6
<1>6. Right(n)
  <2>1. n \in 0..n
    BY <1>2
  <2> QED  BY <1>5, <2>1
<1>7. StoreGrid(s, page) = h[1..n]
  BY <1>2, StoreGridIsAFold
<1>8. ASSUME NEW url \in UrlsOf(page)
      PROVE  <<s, url>> \in Listable /\ IsStored(StoreGrid(s, page)[<<s, url>>])
  <2>1. PICK i \in 1..n : Usable(page[i]) /\ page[i].url = url
    BY <1>2 DEF UrlsOf, ToSet
  <2> QED  BY <1>4, <1>6, <1>7, <2>1
<1> QED  BY <1>6, <1>7, <1>8

(* A source that is asked for twice is asked once.                         *)
Distincts(ids, f) ==
    [S \in SUBSET (DOMAIN ids) |-> IF S = {} THEN <<>>
                                   ELSE IF Contains(f[S \ {Max(S)}], ids[Max(S)]) THEN f[S \ {Max(S)}]
                                   ELSE Append(f[S \ {Max(S)}], ids[Max(S)])]
Distincting(ids) == CHOOSE f : f = Distincts(ids, f)

LEMMA DistinctIsAFold == \A ids : Distinct(ids) = Distincting(ids)[DOMAIN ids]
BY Zenon DEF Distinct, FoldLeft, MapThenFoldSet, Distincting, Distincts

\* Each entry is there once.
Once(T, s) == s \in Seq(T) /\ \A i, j \in 1..Len(s) : i # j => s[i] # s[j]

LEMMA OneMore ==
  ASSUME NEW T, NEW s, Once(T, s), NEW x \in T, ~Contains(s, x) PROVE Once(T, Append(s, x))
<1> DEFINE n == Len(s)
           b == Append(s, x)
<1>1. s \in Seq(T) /\ n \in Nat /\ \A i, j \in 1..n : i # j => s[i] # s[j]
  <2>1. s \in Seq(T)
    BY DEF Once
  <2> QED  BY <2>1 DEF Once
<1>2. \A i \in 1..n : s[i] # x
  BY DEF Contains
<1>3. b \in Seq(T) /\ Len(b) = n + 1 /\ b[n + 1] = x /\ \A i \in 1..n : b[i] = s[i]
  BY <1>1
<1>4. \A i \in 1..(n + 1) : i \in 1..n \/ i = n + 1
  BY <1>1
<1> HIDE DEF b, n
<1>5. \A i, j \in 1..(n + 1) : i # j => b[i] # b[j]
  BY <1>1, <1>2, <1>3, <1>4
<1> QED  BY <1>3, <1>5 DEF Once, b

LEMMA DistinctIsOnce == ASSUME NEW T, NEW ids \in Seq(T) PROVE Once(T, Distinct(ids))
<1> DEFINE n == Len(ids)
           V == {s \in Seq(T) : Once(T, s)}
           With(s, x) == IF Contains(s, x) THEN s ELSE Append(s, x)
           g == [p \in V \X (1..n) |-> With(p[1], ids[p[2]])]
<1>1. n \in Nat /\ DOMAIN ids = 1..n /\ \A k \in 1..n : ids[k] \in T
  OBVIOUS
<1>2. <<>> \in V
  BY DEF Once
<1>3. ASSUME NEW s \in V, NEW k \in 1..n
      PROVE  /\ <<s, k>> \in V \X (1..n) /\ g[<<s, k>>] = With(s, ids[k]) /\ With(s, ids[k]) \in V
  <2>1. <<s, k>> \in V \X (1..n) /\ g[<<s, k>>] = With(s, ids[k])
    OBVIOUS
  <2>2. ids[k] \in T /\ Once(T, s) /\ s \in Seq(T)
    BY <1>1
  <2>3. ~Contains(s, ids[k]) => Once(T, Append(s, ids[k])) /\ Append(s, ids[k]) \in Seq(T)
    BY <2>2, OneMore
  <2>4. With(s, ids[k]) \in V
    BY <2>2, <2>3
  <2> QED  BY <2>1, <2>4
<1>4. g \in [V \X (1..n) -> V]
  <2>1. \A p \in V \X (1..n) : p[1] \in V /\ p[2] \in 1..n
    OBVIOUS
  <2> HIDE DEF V, With
  <2>2. \A p \in V \X (1..n) : With(p[1], ids[p[2]]) \in V
    BY <2>1, <1>3
  <2> QED  BY <2>2
<1> HIDE DEF n, V, g
<1>5. PICK f : IsFold(f, n, V, <<>>, g)
  <2>1. n \in 0..n
    BY <1>1
  <2> QED  BY <1>1, <1>2, <1>4, <2>1, FoldsExist
<1>6. ASSUME NEW S \in SUBSET (1..n)
      PROVE  f[S] = IF S = {} THEN <<>> ELSE With(f[S \ {Max(S)}], ids[Max(S)])
  <2> HIDE DEF With
  <2>1. f[S] = IF S = {} THEN <<>> ELSE g[<<f[S \ {Max(S)}], Max(S)>>]
    BY <1>5 DEF IsFold
  <2>2. CASE S # {}
    <3>1. Max(S) \in 1..n /\ S \ {Max(S)} \in SUBSET (1..n)
      BY <1>1, <2>2, MaxIsOne
    <3>2. f[S \ {Max(S)}] \in V
      BY <1>5, <3>1 DEF IsFold
    <3> QED  BY <2>1, <2>2, <3>1, <3>2, <1>3
  <2> QED  BY <2>1, <2>2
<1>7. f = Distincts(ids, f)
  <2>1. f = [S \in SUBSET (1..n) |-> f[S]]
    BY <1>5 DEF IsFold
  <2> QED  BY <1>1, <1>6, <2>1 DEF Distincts
<1>8. Distincting(ids) = Distincts(ids, Distincting(ids))
  BY <1>7, Zenon DEF Distincting
<1> DEFINE h == Distincting(ids)
<1> HIDE DEF h
<1>9. \A S \in SUBSET (1..n) : h[S] = IF S = {} THEN <<>> ELSE With(h[S \ {Max(S)}], ids[Max(S)])
  BY <1>1, <1>8 DEF h, Distincts
<1> HIDE DEF With
<1> DEFINE Bad == {k \in 0..n : h[1..k] \notin V}
<1>10. Bad = {}
  <2>1. SUFFICES ASSUME Bad # {} PROVE FALSE
    OBVIOUS
  <2>2. Bad \in SUBSET Nat
    BY <1>1
  <2>3. PICK k \in Bad : \A j \in Bad : k <= j
    <3> HIDE DEF Bad
    <3> QED  BY <2>1, <2>2, SmallestOf
  <2>4. CASE k = 0
    <3>1. 1..k = {}
      BY <2>4
    <3> QED  BY <1>2, <1>9, <2>3, <3>1
  <2>5. CASE k # 0
    <3>1. k \in 1..n /\ k - 1 \in 0..n /\ ~(k <= k - 1)
      BY <1>1, <2>3, <2>5
    <3>2. h[1..(k - 1)] \in V
      BY <2>3, <3>1
    <3>3. 1..k \in SUBSET (1..n) /\ k \in 1..k /\ k \in Nat /\ n \in Nat
      BY <1>1, <3>1
    <3>4. (1..k) \ {k} = 1..(k - 1) /\ 1..k # {}
      <4>1. \A i \in Nat : (1..i) \ {i} = 1..(i - 1)
        OBVIOUS
      <4> QED  BY <3>3, <4>1
    <3>5. Max(1..k) = k
      BY <3>3, MaxOfSome
    <3>6. h[1..k] = With(h[1..(k - 1)], ids[k])
      BY <1>9, <3>3, <3>4, <3>5
    <3>7. h[1..k] \in V
      BY <1>3, <3>1, <3>2, <3>6
    <3> QED  BY <2>3, <3>7
  <2> QED  BY <2>4, <2>5
<1>11. h[1..n] \in V
  <2>1. n \in 0..n
    BY <1>1
  <2> QED  BY <1>10, <2>1
<1>12. Distinct(ids) = h[1..n]
  BY <1>1, DistinctIsAFold DEF h
<1> QED  BY <1>11, <1>12 DEF V

-----------------------------------------------------------------------------
(* Sources asked at once.                                                  *)

BrowsingFields == {"stage", "kind", "ids", "next", "working", "results", "said"}
Called == Catalogues \cup {"s1", "s2", "s9"}

Settled(c, s) ==
    /\ c.results[s].kind # "waiting"
    /\ (c.results[s].kind = "mangas" <=> c.said[s] = "a page") \/ c.kind = "one"
    /\ \A url \in c.results[s].urls : <<s, url>> \in Listable /\ IsStored(stored[<<s, url>>])
Unsettled(c, s) == c.results[s] = Waiting /\ c.said[s] = "nothing yet"

BrowsingShape(c) ==
    /\ DOMAIN c = BrowsingFields /\ c.stage \in {"open", "done"}
    /\ Once(Called, c.ids) /\ c.next \in 1..(Len(c.ids) + 1)
    /\ c.working \subseteq Catalogues /\ IsFiniteSet(c.working) /\ Cardinality(c.working) <= Runners
    /\ \A s \in c.working : \E i \in 1..(c.next - 1) : c.ids[i] = s
    /\ DOMAIN c.results = ToSet(c.ids) /\ DOMAIN c.said = ToSet(c.ids)

\* Those that were taken and are not at work are settled; the others wait.
EachHasItsWord(c) ==
    \A i \in 1..Len(c.ids) :
        IF i < c.next /\ c.ids[i] \notin c.working THEN Settled(c, c.ids[i]) ELSE Unsettled(c, c.ids[i])
BrowsingSound(c) ==
    /\ BrowsingShape(c) /\ EachHasItsWord(c)
    /\ c.stage = "done" => c.next = Len(c.ids) + 1 /\ c.working = {}

ListingsSound ==
    /\ stored \in [Listable -> TitleRow]
    /\ late \subseteq Catalogues /\ query.of \in {"nothing", "chapters", "mangas"}
    /\ browsing = NoCall \/ BrowsingSound(browsing)

LEMMA ListingsInitially == ListingsInit => ListingsSound
<1> SUFFICES ASSUME ListingsInit PROVE ListingsSound
  OBVIOUS
<1>1. /\ query = [of |-> "nothing"] /\ browsing = NoCall /\ late = {}
      /\ stored = [x \in Listable |-> Nowhere]
  BY DEF ListingsInit
<1>2. Nowhere \in TitleRow
  <2>1. "" \in AnyText /\ "UNKNOWN" \in AnyText
    BY DEF AnyText
  <2>2. FALSE \in BOOLEAN
    OBVIOUS
  <2> QED  BY <2>1, <2>2, Zenon DEF Nowhere, TitleRow
<1> QED  BY <1>1, <1>2 DEF ListingsSound

(* What is stored of a title stays stored.                                 *)
LEMMA SettledStays ==
  ASSUME NEW c, NEW s, Settled(c, s), RowsKept(stored, stored') PROVE Settled(c, s)'
BY DEF Settled, RowsKept, RowKept

LEMMA BrowsingStays ==
  ASSUME NEW c, BrowsingSound(c), c' = c, RowsKept(stored, stored') PROVE BrowsingSound(c)'
<1>1. BrowsingShape(c)'
  BY DEF BrowsingSound, BrowsingShape, Once
<1>2. EachHasItsWord(c)'
  <2> SUFFICES ASSUME NEW i \in 1..Len(c.ids)
               PROVE  IF i < c.next /\ c.ids[i] \notin c.working THEN Settled(c, c.ids[i])'
                      ELSE Unsettled(c, c.ids[i])'
    BY DEF EachHasItsWord
  <2> QED  BY SettledStays DEF BrowsingSound, EachHasItsWord, Unsettled
<1> QED  BY <1>1, <1>2 DEF BrowsingSound

LEMMA NothingTaken == RowsKept(stored, stored)
BY DEF RowsKept, RowKept

(* Nothing that was asked is changed while the rows are.                   *)
LEMMA RowsMove ==
  ASSUME ListingsSound, stored' \in [Listable -> TitleRow], RowsKept(stored, stored'),
         browsing' = browsing, late' \subseteq Catalogues, query'.of \in {"nothing", "chapters", "mangas"}
  PROVE  ListingsSound'
<1>1. browsing = NoCall \/ BrowsingSound(browsing)
  BY DEF ListingsSound
<1>2. CASE browsing = NoCall
  BY <1>2 DEF ListingsSound, NoCall
<1>3. CASE BrowsingSound(browsing)
  <2>1. BrowsingSound(browsing)'
    BY <1>3, BrowsingStays
  <2> QED  BY <2>1 DEF ListingsSound
<1> QED  BY <1>1, <1>2, <1>3

LEMMA BrowsingOpens ==
  ASSUME NEW kind, NEW ids, Once(Called, ids), browsing' = OpenCall(kind, ids) PROVE BrowsingSound(browsing)'
<1> DEFINE c == browsing'
<1>1. /\ DOMAIN c = BrowsingFields /\ c.stage = "open" /\ c.ids = ids /\ c.next = 1 /\ c.working = {}
      /\ c.results = [s \in ToSet(ids) |-> Waiting] /\ c.said = [s \in ToSet(ids) |-> "nothing yet"]
  BY DEF OpenCall, BrowsingFields
<1>2. Len(ids) \in Nat /\ DOMAIN ids = 1..Len(ids)
  <2>1. ids \in Seq(Called)
    BY DEF Once
  <2> QED  BY <2>1
<1>3. \A i \in 1..Len(ids) : ids[i] \in ToSet(ids) /\ ~(i < 1)
  BY <1>2 DEF ToSet
<1>4. IsFiniteSet({}) /\ Cardinality({}) <= Runners
  BY FS_EmptySet, ListingsAssumption
<1> HIDE DEF c
<1>5. BrowsingShape(browsing)'
  <2>1. 1 \in 1..(Len(ids) + 1)
    BY <1>2
  <2> QED  BY <1>1, <1>4, <2>1 DEF BrowsingShape, c
<1>6. \A i \in 1..Len(ids) : c.results[ids[i]] = Waiting /\ c.said[ids[i]] = "nothing yet"
  BY <1>1, <1>3
<1>7. EachHasItsWord(browsing)'
  BY <1>1, <1>3, <1>6 DEF EachHasItsWord, Unsettled, c
<1> QED  BY <1>1, <1>5, <1>7 DEF BrowsingSound, c

(* What is known of a call.                                                *)
LEMMA BrowsingFacts ==
  ASSUME NEW c, BrowsingSound(c)
  PROVE  /\ BrowsingShape(c) /\ EachHasItsWord(c) /\ DOMAIN c = BrowsingFields
         /\ c.ids \in Seq(Called) /\ Len(c.ids) \in Nat /\ DOMAIN c.ids = 1..Len(c.ids)
         /\ \A i, j \in 1..Len(c.ids) : i # j => c.ids[i] # c.ids[j]
         /\ \A i \in 1..Len(c.ids) : c.ids[i] \in ToSet(c.ids)
         /\ \A s \in ToSet(c.ids) : \E i \in 1..Len(c.ids) : c.ids[i] = s
         /\ c.next \in 1..(Len(c.ids) + 1)
         /\ \A s \in c.working : \E i \in 1..Len(c.ids) : i < c.next /\ c.ids[i] = s
         /\ \A s \in c.working : c.stage = "open"
<1>1. BrowsingShape(c) /\ EachHasItsWord(c)
  BY DEF BrowsingSound
<1>2. DOMAIN c = BrowsingFields /\ Once(Called, c.ids) /\ c.next \in 1..(Len(c.ids) + 1)
  BY <1>1 DEF BrowsingShape
<1>3. c.ids \in Seq(Called) /\ \A i, j \in 1..Len(c.ids) : i # j => c.ids[i] # c.ids[j]
  BY <1>2, Zenon DEF Once
<1>4. Len(c.ids) \in Nat /\ DOMAIN c.ids = 1..Len(c.ids)
  BY <1>3
<1>5. /\ \A i \in 1..Len(c.ids) : c.ids[i] \in ToSet(c.ids)
      /\ \A s \in ToSet(c.ids) : \E i \in 1..Len(c.ids) : c.ids[i] = s
  BY <1>4 DEF ToSet
<1>6. ASSUME NEW s \in c.working PROVE \E i \in 1..Len(c.ids) : i < c.next /\ c.ids[i] = s
  <2>1. PICK i \in 1..(c.next - 1) : c.ids[i] = s
    BY <1>1 DEF BrowsingShape
  <2>2. i \in 1..Len(c.ids) /\ i < c.next
    BY <1>2, <1>4
  <2> QED  BY <2>1, <2>2
<1>7. ASSUME NEW s \in c.working PROVE c.stage = "open"
  <2>1. c.stage \in {"open", "done"}
    BY <1>1 DEF BrowsingShape
  <2>2. c.stage = "done" => c.working = {}
    BY DEF BrowsingSound
  <2> QED  BY <2>1, <2>2
<1> QED  BY <1>1, <1>2, <1>3, <1>4, <1>5, <1>6, <1>7

LEMMA OneLess ==
  ASSUME NEW W, IsFiniteSet(W), Cardinality(W) <= Runners, NEW s \in W
  PROVE  IsFiniteSet(W \ {s}) /\ Cardinality(W \ {s}) <= Runners
<1>1. Cardinality(W) \in Nat /\ Runners \in Nat
  BY FS_CardinalityType, ListingsAssumption
<1>2. IsFiniteSet(W \ {s}) /\ Cardinality(W \ {s}) = Cardinality(W) - 1
  BY FS_RemoveElement
<1> QED  BY <1>1, <1>2

(* A source at work is settled, and nobody else.                           *)
LEMMA OneSettles ==
  ASSUME BrowsingSound(browsing), NEW s \in browsing.working, RowsKept(stored, stored'),
         DOMAIN browsing' = BrowsingFields, NEW result,
         browsing'.stage = browsing.stage, browsing'.kind = browsing.kind, browsing'.ids = browsing.ids,
         browsing'.next = browsing.next, browsing'.working = browsing.working \ {s},
         browsing'.results = [browsing.results EXCEPT ![s] = result],
         DOMAIN browsing'.said = DOMAIN browsing.said,
         \A t \in DOMAIN browsing.said : t # s => browsing'.said[t] = browsing.said[t],
         result.kind # "waiting",
         (result.kind = "mangas" <=> browsing'.said[s] = "a page") \/ browsing.kind = "one",
         \A url \in result.urls : <<s, url>> \in Listable /\ IsStored(stored'[<<s, url>>])
  PROVE  BrowsingSound(browsing)'
<1> DEFINE c == browsing
           n == Len(browsing.ids)
<1>1. BrowsingShape(c) /\ EachHasItsWord(c) /\ c.stage = "open"
  BY BrowsingFacts
<1>2. /\ c.working \subseteq Catalogues /\ IsFiniteSet(c.working) /\ Cardinality(c.working) <= Runners
      /\ DOMAIN c.results = ToSet(c.ids) /\ DOMAIN c.said = ToSet(c.ids)
  BY <1>1 DEF BrowsingShape
<1>3. /\ n \in Nat /\ c.next \in 1..(n + 1)
      /\ \A i, j \in 1..n : i # j => c.ids[i] # c.ids[j]
  BY BrowsingFacts
<1>4. \A i \in 1..n : c.ids[i] \in ToSet(c.ids)
  BY BrowsingFacts
<1>5. IsFiniteSet(c.working \ {s}) /\ Cardinality(c.working \ {s}) <= Runners
  BY <1>2, OneLess
<1>6. BrowsingShape(browsing)'
  <2>1. DOMAIN [browsing.results EXCEPT ![s] = result] = ToSet(c.ids)
    BY <1>2
  <2>2. /\ Once(Called, browsing'.ids)
        /\ \A t \in c.working \ {s} : \E i \in 1..(c.next - 1) : c.ids[i] = t
    BY <1>1 DEF BrowsingShape
  <2>3. c.next \in 1..(n + 1) /\ c.stage \in {"open", "done"}
    BY <1>1, <1>3
  <2>4. /\ DOMAIN browsing' = BrowsingFields /\ browsing'.stage \in {"open", "done"}
        /\ Once(Called, browsing'.ids) /\ browsing'.next \in 1..(Len(browsing'.ids) + 1)
    BY <2>2, <2>3
  <2>5. /\ browsing'.working \subseteq Catalogues
        /\ IsFiniteSet(browsing'.working) /\ Cardinality(browsing'.working) <= Runners
    BY <1>2, <1>5
  <2>6. \A t \in browsing'.working : \E i \in 1..(browsing'.next - 1) : browsing'.ids[i] = t
    BY <2>2
  <2>7. DOMAIN browsing'.results = ToSet(browsing'.ids) /\ DOMAIN browsing'.said = ToSet(browsing'.ids)
    BY <1>2, <2>1
  <2> QED  BY <2>4, <2>5, <2>6, <2>7, Zenon DEF BrowsingShape
<1>8. \E j \in 1..n : j < c.next /\ c.ids[j] = s
  <2>1. \A t \in c.working : \E j \in 1..n : j < c.next /\ c.ids[j] = t
    BY BrowsingFacts
  <2> QED  BY <2>1, Zenon
<1>7. EachHasItsWord(browsing)'
  <2> SUFFICES ASSUME NEW i \in 1..n
               PROVE  IF i < c.next /\ c.ids[i] \notin c.working \ {s} THEN Settled(browsing, c.ids[i])'
                      ELSE Unsettled(browsing, c.ids[i])'
    BY DEF EachHasItsWord
  <2>1. CASE c.ids[i] = s
    <3>1. s \in DOMAIN c.results
      BY <1>2, <1>4, <2>1
    <3>2. PICK j \in 1..n : j < c.next /\ c.ids[j] = s
      BY <1>8
    <3>3. j = i
      BY <1>3, <2>1, <3>2
    <3>4. i < c.next
      BY <3>2, <3>3
    <3>5. browsing'.results[s] = result
      BY <3>1
    <3>6. Settled(browsing, s)'
      BY <3>5 DEF Settled
    <3> QED  BY <2>1, <3>4, <3>6
  <2>2. CASE c.ids[i] # s
    <3>1. /\ browsing'.results[c.ids[i]] = c.results[c.ids[i]]
          /\ browsing'.said[c.ids[i]] = c.said[c.ids[i]]
      BY <1>2, <1>4, <2>2
    <3>2. IF i < c.next /\ c.ids[i] \notin c.working THEN Settled(c, c.ids[i]) ELSE Unsettled(c, c.ids[i])
      BY <1>1 DEF EachHasItsWord
    <3>3. ASSUME Settled(c, c.ids[i]) PROVE Settled(browsing, c.ids[i])'
      <4>1. \A url \in c.results[c.ids[i]].urls : <<c.ids[i], url>> \in Listable
                                                     /\ IsStored(stored'[<<c.ids[i], url>>])
        BY <3>3 DEF Settled, RowsKept, RowKept
      <4> QED  BY <3>1, <3>3, <4>1 DEF Settled
    <3>4. Unsettled(c, c.ids[i]) => Unsettled(browsing, c.ids[i])'
      BY <3>1 DEF Unsettled
    <3> QED  BY <2>2, <3>2, <3>3, <3>4
  <2> QED  BY <2>1, <2>2
<1> QED  BY <1>1, <1>6, <1>7 DEF BrowsingSound

LEMMA Settling ==
  ASSUME BrowsingSound(browsing), NEW s \in browsing.working, RowsKept(stored, stored'), NEW result,
         browsing' = Settle(s, result), result.kind \in {"error", "mangas"},
         result.kind = "error" \/ browsing.kind = "one", result.urls = {}
  PROVE  BrowsingSound(browsing)'
<1>1. DOMAIN browsing = BrowsingFields /\ EachHasItsWord(browsing)
  BY BrowsingFacts
<1>2. /\ DOMAIN browsing' = BrowsingFields
      /\ browsing'.stage = browsing.stage /\ browsing'.kind = browsing.kind
      /\ browsing'.ids = browsing.ids /\ browsing'.next = browsing.next
      /\ browsing'.working = browsing.working \ {s}
      /\ browsing'.results = [browsing.results EXCEPT ![s] = result] /\ browsing'.said = browsing.said
  BY <1>1 DEF Settle, BrowsingFields
<1>3. browsing.said[s] = "nothing yet"
  <2>1. PICK i \in 1..Len(browsing.ids) : browsing.ids[i] = s
    BY BrowsingFacts
  <2> QED  BY <1>1, <2>1 DEF EachHasItsWord, Unsettled
<1>4. (result.kind = "mangas" <=> browsing'.said[s] = "a page") \/ browsing.kind = "one"
  BY <1>2, <1>3
<1>5. \A url \in result.urls : <<s, url>> \in Listable /\ IsStored(stored'[<<s, url>>])
  OBVIOUS
<1> QED  BY <1>2, <1>4, <1>5, OneSettles

LEMMA NextIsTaken ==
  ASSUME ListingsSound, InBatches
  PROVE  stored' = stored /\ ListingsSound'
<1> DEFINE c == browsing
           n == Len(browsing.ids)
           s == browsing.ids[browsing.next]
<1>1. /\ c.stage = "open" /\ c.next <= n /\ Cardinality(c.working) < Runners
      /\ UNCHANGED <<query, stored, late>>
      /\ browsing' = IF s \in Catalogues
                     THEN [browsing EXCEPT !.next = @ + 1, !.working = @ \cup {s}]
                     ELSE [browsing EXCEPT !.next = @ + 1, !.results[s] = Refusal("no such source")]
  BY DEF InBatches
<1>2. BrowsingSound(c)
  BY <1>1 DEF ListingsSound, NoCall
<1>3. /\ BrowsingShape(c) /\ EachHasItsWord(c) /\ DOMAIN c = BrowsingFields
      /\ n \in Nat /\ c.next \in 1..(n + 1)
      /\ \A i, j \in 1..n : i # j => c.ids[i] # c.ids[j]
      /\ \A i \in 1..n : c.ids[i] \in ToSet(c.ids)
  BY <1>2, BrowsingFacts
<1>4. /\ c.working \subseteq Catalogues /\ IsFiniteSet(c.working)
      /\ DOMAIN c.results = ToSet(c.ids) /\ DOMAIN c.said = ToSet(c.ids) /\ Once(Called, c.ids)
      /\ \A t \in c.working : \E i \in 1..(c.next - 1) : c.ids[i] = t
  BY <1>3 DEF BrowsingShape
<1>5. c.next \in 1..n /\ c.next + 1 \in 1..(n + 1)
  BY <1>1, <1>3
<1>6. \A i \in 1..n : i < c.next + 1 <=> i < c.next \/ i = c.next
  BY <1>5
<1>7. \A i \in 1..n : i # c.next => c.ids[i] # s
  BY <1>3, <1>5
<1>8. s \in ToSet(c.ids)
  BY <1>3, <1>5
<1>9. Unsettled(c, s)
  BY <1>3, <1>5 DEF EachHasItsWord
<1>10. \A i \in 1..n : IF i < c.next /\ c.ids[i] \notin c.working THEN Settled(c, c.ids[i]) ELSE Unsettled(c, c.ids[i])
  BY <1>3 DEF EachHasItsWord
<1>11. \A t \in c.working : \E i \in 1..((c.next + 1) - 1) : c.ids[i] = t
  <2>1. \A i \in 1..(c.next - 1) : i \in 1..((c.next + 1) - 1)
    BY <1>5
  <2> QED  BY <1>4, <2>1
<1>12. CASE s \in Catalogues
  <2>1. /\ DOMAIN browsing' = BrowsingFields /\ browsing'.stage = "open" /\ browsing'.ids = c.ids
        /\ browsing'.next = c.next + 1 /\ browsing'.working = c.working \cup {s}
        /\ browsing'.results = c.results /\ browsing'.said = c.said /\ browsing'.kind = c.kind
    BY <1>1, <1>3, <1>12 DEF BrowsingFields
  <2>2. IsFiniteSet(c.working \cup {s}) /\ Cardinality(c.working \cup {s}) <= Runners
    <3>1. Cardinality(c.working) \in Nat /\ Runners \in Nat
      BY <1>4, FS_CardinalityType, ListingsAssumption
    <3>2. /\ IsFiniteSet(c.working \cup {s})
          /\ Cardinality(c.working \cup {s}) \in {Cardinality(c.working), Cardinality(c.working) + 1}
      BY <1>4, <3>1, FS_AddElement
    <3> HIDE DEF c, s
    <3> QED  BY <1>1, <3>1, <3>2
  <2>3. \A t \in c.working \cup {s} : \E i \in 1..((c.next + 1) - 1) : c.ids[i] = t
    <3>1. c.next \in 1..((c.next + 1) - 1)
      BY <1>5
    <3> QED  BY <1>11, <3>1
  <2>4. BrowsingShape(browsing)'
    <3>1. c.working \cup {s} \subseteq Catalogues
      BY <1>4, <1>12
    <3> HIDE DEF c, s, n
    <3>2. browsing'.next \in 1..(Len(browsing'.ids) + 1)
      BY <1>5, <2>1 DEF n, c
    <3>3. browsing'.stage \in {"open", "done"} /\ Once(Called, browsing'.ids)
      BY <1>4, <2>1
    <3>4. \A t \in browsing'.working : \E i \in 1..(browsing'.next - 1) : browsing'.ids[i] = t
      BY <2>1, <2>3
    <3> QED  BY <1>4, <2>1, <2>2, <3>1, <3>2, <3>3, <3>4, Zenon DEF BrowsingShape
  <2>5. EachHasItsWord(browsing)'
    <3> SUFFICES ASSUME NEW i \in 1..n
                 PROVE  IF i < browsing'.next /\ browsing'.ids[i] \notin browsing'.working
                        THEN Settled(browsing, c.ids[i])' ELSE Unsettled(browsing, c.ids[i])'
      BY <2>1 DEF EachHasItsWord
    <3>1. Settled(c, c.ids[i]) => Settled(browsing, c.ids[i])'
      BY <1>1, <2>1 DEF Settled
    <3>2. Unsettled(c, c.ids[i]) => Unsettled(browsing, c.ids[i])'
      BY <2>1 DEF Unsettled
    <3>3. CASE i = c.next
      BY <1>9, <2>1, <3>2, <3>3
    <3>4. CASE i # c.next
      <4>1. /\ i < browsing'.next <=> i < c.next
            /\ browsing'.ids[i] \in browsing'.working <=> c.ids[i] \in c.working
        BY <1>6, <1>7, <2>1, <3>4
      <4> QED  BY <1>10, <3>1, <3>2, <4>1
    <3> QED  BY <3>3, <3>4
  <2>6. BrowsingSound(browsing)'
    BY <2>1, <2>4, <2>5 DEF BrowsingSound
  <2> QED  BY <1>1, <2>6 DEF ListingsSound
<1>13. CASE s \notin Catalogues
  <2>1. /\ DOMAIN browsing' = BrowsingFields /\ browsing'.stage = "open" /\ browsing'.ids = c.ids
        /\ browsing'.next = c.next + 1 /\ browsing'.working = c.working
        /\ browsing'.results = [c.results EXCEPT ![s] = Refusal("no such source")]
        /\ browsing'.said = c.said /\ browsing'.kind = c.kind
    BY <1>1, <1>3, <1>13 DEF BrowsingFields
  <2>2. BrowsingShape(browsing)'
    <3>1. DOMAIN browsing'.results = ToSet(c.ids)
      BY <1>4, <2>1
    <3>2. IsFiniteSet(c.working) /\ Cardinality(c.working) <= Runners
      BY <1>3 DEF BrowsingShape
    <3> HIDE DEF c, s, n
    <3>3. browsing'.next \in 1..(Len(browsing'.ids) + 1)
      BY <1>5, <2>1 DEF n, c
    <3>4. browsing'.stage \in {"open", "done"} /\ Once(Called, browsing'.ids)
      BY <1>4, <2>1
    <3>5. \A t \in browsing'.working : \E i \in 1..(browsing'.next - 1) : browsing'.ids[i] = t
      BY <2>1, <1>11
    <3> QED  BY <1>4, <2>1, <3>1, <3>2, <3>3, <3>4, <3>5, Zenon DEF BrowsingShape
  <2>3. EachHasItsWord(browsing)'
    <3> SUFFICES ASSUME NEW i \in 1..n
                 PROVE  IF i < browsing'.next /\ browsing'.ids[i] \notin browsing'.working
                        THEN Settled(browsing, c.ids[i])' ELSE Unsettled(browsing, c.ids[i])'
      BY <2>1 DEF EachHasItsWord
    <3>1. CASE i = c.next
      <4>1. c.ids[i] = s /\ s \in DOMAIN c.results /\ browsing'.ids[i] = s
        BY <1>4, <1>8, <2>1, <3>1
      <4>2. c.said[s] = "nothing yet"
        BY <1>9 DEF Unsettled
      <4>3. browsing'.results[c.ids[i]] = Refusal("no such source") /\ browsing'.said[c.ids[i]] = "nothing yet"
        <5> HIDE DEF c, s, n
        <5> QED  BY <2>1, <4>1, <4>2
      <4>7. Refusal("no such source").kind = "error" /\ Refusal("no such source").urls = {}
        BY DEF Refusal
      <4>4. Settled(browsing, c.ids[i])'
        <5>1. browsing'.ids[i] = c.ids[i]
          BY <2>1
        <5> HIDE DEF c, s, n
        <5> DEFINE t == c.ids[i]
        <5>2. browsing'.results[t].kind = "error" /\ browsing'.results[t].urls = {} /\ browsing'.said[t] = "nothing yet"
          BY <4>3, <4>7
        <5>3. browsing'.ids[i] = t
          BY <5>1
        <5> HIDE DEF t
        <5>4. /\ browsing'.results[browsing'.ids[i]].kind = "error"
              /\ browsing'.results[browsing'.ids[i]].urls = {}
              /\ browsing'.said[browsing'.ids[i]] = "nothing yet"
          BY <5>2, <5>3, Zenon
        <5> QED  BY <5>4 DEF Settled, c
      <4>5. i < browsing'.next
        <5>1. c.next \in Nat
          BY <1>3
        <5>2. browsing'.next = c.next + 1
          BY <2>1
        <5> HIDE DEF n, s, c
        <5> QED  BY <5>1, <5>2, <3>1
      <4>6. browsing'.ids[i] \notin browsing'.working
        BY <1>4, <1>13, <2>1, <4>1
      <4> QED  BY <4>4, <4>5, <4>6
    <3>2. CASE i # c.next
      <4>1. browsing'.results[c.ids[i]] = c.results[c.ids[i]] /\ browsing'.said[c.ids[i]] = c.said[c.ids[i]]
        BY <1>3, <1>4, <1>7, <2>1, <3>2
      <4>2. Settled(c, c.ids[i]) => Settled(browsing, c.ids[i])'
        BY <1>1, <2>1, <4>1 DEF Settled
      <4>3. Unsettled(c, c.ids[i]) => Unsettled(browsing, c.ids[i])'
        BY <2>1, <4>1 DEF Unsettled
      <4>4. /\ i < browsing'.next <=> i < c.next
            /\ browsing'.ids[i] \in browsing'.working <=> c.ids[i] \in c.working
        BY <1>6, <2>1, <3>2
      <4> QED  BY <1>10, <4>2, <4>3, <4>4
    <3> QED  BY <3>1, <3>2
  <2>4. BrowsingSound(browsing)'
    BY <2>1, <2>2, <2>3 DEF BrowsingSound
  <2> QED  BY <1>1, <2>4 DEF ListingsSound
<1> QED  BY <1>1, <1>12, <1>13

LEMMA TheCallIsOpen ==
  ASSUME ListingsSound, browsing.stage = "open" PROVE BrowsingSound(browsing)
BY DEF ListingsSound, NoCall

LEMMA PageIsStored ==
  ASSUME ListingsSound, NEW s \in Catalogues, NEW page \in Grids, Answers(s, page)
  PROVE  RowsKept(stored, stored') /\ ListingsSound'
<1>1. /\ browsing.stage = "open" /\ s \in browsing.working /\ stored' = StoreGrid(s, page)
      /\ browsing' = [Settle(s, Shown(page)) EXCEPT !.said[s] = "a page"]
      /\ query' = query /\ late' = late
  BY DEF Answers
<1>2. BrowsingSound(browsing) /\ stored \in [Listable -> TitleRow]
  BY <1>1, TheCallIsOpen DEF ListingsSound
<1>3. /\ stored' \in [Listable -> TitleRow] /\ RowsKept(stored, stored')
      /\ \A url \in UrlsOf(page) : <<s, url>> \in Listable /\ IsStored(stored'[<<s, url>>])
  BY <1>1, <1>2, StoreGridKeeps
<1>4. DOMAIN browsing = BrowsingFields /\ DOMAIN browsing.said = ToSet(browsing.ids) /\ s \in ToSet(browsing.ids)
  <2>1. /\ BrowsingShape(browsing) /\ \A i \in 1..Len(browsing.ids) : browsing.ids[i] \in ToSet(browsing.ids)
        /\ \A t \in browsing.working : \E i \in 1..Len(browsing.ids) : i < browsing.next /\ browsing.ids[i] = t
    BY <1>2, BrowsingFacts
  <2> QED  BY <1>1, <2>1 DEF BrowsingShape
<1>5. /\ DOMAIN browsing' = BrowsingFields
      /\ browsing'.stage = browsing.stage /\ browsing'.kind = browsing.kind
      /\ browsing'.ids = browsing.ids /\ browsing'.next = browsing.next
      /\ browsing'.working = browsing.working \ {s}
      /\ browsing'.results = [browsing.results EXCEPT ![s] = Shown(page)]
      /\ browsing'.said = [browsing.said EXCEPT ![s] = "a page"]
  BY <1>1, <1>4 DEF Settle, BrowsingFields
<1>6. /\ DOMAIN browsing'.said = DOMAIN browsing.said /\ browsing'.said[s] = "a page"
      /\ \A t \in DOMAIN browsing.said : t # s => browsing'.said[t] = browsing.said[t]
  BY <1>4, <1>5
<1> DEFINE result == Shown(page)
<1>7. result.kind = "mangas" /\ result.urls = UrlsOf(page)
  BY DEF Shown
<1>8. browsing'.results = [browsing.results EXCEPT ![s] = result]
  BY <1>5
<1> HIDE DEF result
<1>9. /\ result.kind # "waiting"
      /\ (result.kind = "mangas" <=> browsing'.said[s] = "a page") \/ browsing.kind = "one"
      /\ \A url \in result.urls : <<s, url>> \in Listable /\ IsStored(stored'[<<s, url>>])
  BY <1>3, <1>6, <1>7
<1>10. BrowsingSound(browsing)'
  BY <1>1, <1>2, <1>3, <1>5, <1>6, <1>8, <1>9, OneSettles
<1> QED  BY <1>1, <1>3, <1>10 DEF ListingsSound

LEMMA WordIsKept ==
  ASSUME ListingsSound, NEW s \in browsing.working, browsing.stage = "open", NEW result,
         browsing' = Settle(s, result), stored' = stored, query' = query, late' \subseteq Catalogues,
         result.kind \in {"error", "mangas"}, result.kind = "error" \/ browsing.kind = "one", result.urls = {}
  PROVE  RowsKept(stored, stored') /\ ListingsSound'
<1>1. BrowsingSound(browsing) /\ RowsKept(stored, stored')
  BY TheCallIsOpen, NothingTaken
<1>2. BrowsingSound(browsing)'
  BY <1>1, Settling
<1> QED  BY <1>1, <1>2 DEF ListingsSound

LEMMA RefusalIsAWord == \A why : Refusal(why).kind = "error" /\ Refusal(why).urls = {}
BY DEF Refusal

LEMMA SourceHasNone ==
  ASSUME ListingsSound, NEW s \in Catalogues, NoResults(s) PROVE RowsKept(stored, stored') /\ ListingsSound'
<1> DEFINE result == IF browsing.kind = "one" THEN Shown(<<>>) ELSE Refusal("nothing under that title")
<1>1. /\ browsing.stage = "open" /\ s \in browsing.working /\ browsing' = Settle(s, result)
      /\ stored' = stored /\ query' = query /\ late' = late /\ late \subseteq Catalogues
  BY DEF NoResults, ListingsSound
<1>2. Shown(<<>>).kind = "mangas" /\ Shown(<<>>).urls = {}
  BY DEF Shown, UrlsOf, ToSet
<1>3. /\ result.kind \in {"error", "mangas"} /\ result.urls = {}
      /\ result.kind = "error" \/ browsing.kind = "one"
  BY <1>2, RefusalIsAWord
<1> HIDE DEF result
<1> QED  BY <1>1, <1>3, WordIsKept

LEMMA SourceRefuses ==
  ASSUME ListingsSound, NEW s \in Catalogues, SourceError(s) PROVE RowsKept(stored, stored') /\ ListingsSound'
<1> DEFINE result == Refusal("did not answer")
<1>1. /\ browsing.stage = "open" /\ s \in browsing.working /\ browsing' = Settle(s, result)
      /\ stored' = stored /\ query' = query /\ late' = late /\ late \subseteq Catalogues
  BY DEF SourceError, ListingsSound
<1>2. result.kind = "error" /\ result.urls = {}
  BY RefusalIsAWord
<1> HIDE DEF result
<1> QED  BY <1>1, <1>2, WordIsKept

LEMMA WaitIsOver ==
  ASSUME ListingsSound, NEW s \in Catalogues, Deadline(s) PROVE RowsKept(stored, stored') /\ ListingsSound'
<1> DEFINE result == Refusal("took too long")
<1>1. /\ browsing.stage = "open" /\ s \in browsing.working /\ browsing' = Settle(s, result)
      /\ stored' = stored /\ query' = query /\ late' = late \cup {s} /\ late \subseteq Catalogues
  BY DEF Deadline, ListingsSound
<1>2. result.kind = "error" /\ result.urls = {}
  BY RefusalIsAWord
<1> HIDE DEF result
<1> QED  BY <1>1, <1>2, WordIsKept

LEMMA CallIsAnswered ==
  ASSUME ListingsSound, Respond PROVE RowsKept(stored, stored') /\ ListingsSound'
<1>1. /\ browsing.stage = "open" /\ browsing.next > Len(browsing.ids) /\ browsing.working = {}
      /\ browsing' = [browsing EXCEPT !.stage = "done"] /\ stored' = stored /\ query' = query /\ late' = late
  BY DEF Respond
<1>2. BrowsingSound(browsing) /\ RowsKept(stored, stored')
  BY <1>1, TheCallIsOpen, NothingTaken
<1>3. /\ BrowsingShape(browsing) /\ EachHasItsWord(browsing) /\ DOMAIN browsing = BrowsingFields
      /\ Len(browsing.ids) \in Nat /\ browsing.next \in 1..(Len(browsing.ids) + 1)
  BY <1>2, BrowsingFacts
<1>4. /\ DOMAIN browsing' = BrowsingFields /\ browsing'.stage = "done" /\ browsing'.kind = browsing.kind
      /\ browsing'.ids = browsing.ids /\ browsing'.next = browsing.next /\ browsing'.working = browsing.working
      /\ browsing'.results = browsing.results /\ browsing'.said = browsing.said
  BY <1>1, <1>3 DEF BrowsingFields
<1>5. BrowsingShape(browsing)'
  BY <1>3, <1>4 DEF BrowsingShape
<1>6. EachHasItsWord(browsing)'
  BY <1>1, <1>3, <1>4 DEF EachHasItsWord, Settled, Unsettled
<1>7. browsing'.next = Len(browsing'.ids) + 1 /\ browsing'.working = {}
  BY <1>1, <1>3, <1>4
<1> QED  BY <1>1, <1>2, <1>5, <1>6, <1>7 DEF ListingsSound, BrowsingSound

LEMMA OneRowMoves ==
  ASSUME ListingsSound, NEW x \in DOMAIN stored, NEW new \in TitleRow, RowKept(stored[x], new),
         stored' = [stored EXCEPT ![x] = new], browsing' = browsing, query' = query, late' = late
  PROVE  RowsKept(stored, stored') /\ ListingsSound'
<1>1. /\ stored \in [Listable -> TitleRow] /\ DOMAIN stored = Listable
      /\ late \subseteq Catalogues /\ query.of \in {"nothing", "chapters", "mangas"}
  BY DEF ListingsSound
<1>2. \A y \in Listable : stored'[y] = IF y = x THEN new ELSE stored[y]
  BY <1>1
<1>3. \A y \in Listable : RowKept(stored[y], stored[y])
  BY DEF RowKept
<1>4. RowsKept(stored, stored')
  BY <1>2, <1>3 DEF RowsKept
<1>5. stored' \in [Listable -> TitleRow]
  BY <1>1
<1> QED  BY <1>1, <1>4, <1>5, RowsMove

LEMMA TitleIsOpened ==
  ASSUME ListingsSound, NEW x \in DOMAIN stored, OpenTitle(x) PROVE RowsKept(stored, stored') /\ ListingsSound'
<1> DEFINE new == [stored[x] EXCEPT !.author = "told", !.status = "ONGOING", !.initialized = TRUE]
<1>1. stored[x] \in TitleRow
  BY DEF ListingsSound
<1>2. "told" \in AnyText /\ "ONGOING" \in AnyText
  BY DEF AnyText
<1>3. /\ new \in TitleRow /\ new.title = stored[x].title /\ new.author = "told" /\ new.status = "ONGOING"
      /\ new.initialized = TRUE /\ new.inLibrary = stored[x].inLibrary
  BY <1>1, <1>2 DEF TitleRow
<1>4. stored' = [stored EXCEPT ![x] = new] /\ browsing' = browsing /\ query' = query /\ late' = late
  BY DEF OpenTitle
<1> HIDE DEF new
<1>5. RowKept(stored[x], new)
  BY <1>3 DEF RowKept, IsStored
<1> QED  BY <1>3, <1>4, <1>5, OneRowMoves

LEMMA TitleIsShelved ==
  ASSUME ListingsSound, NEW x \in DOMAIN stored, ShelveTitle(x) PROVE RowsKept(stored, stored') /\ ListingsSound'
<1> DEFINE new == [stored[x] EXCEPT !.inLibrary = TRUE]
<1>1. stored[x] \in TitleRow
  BY DEF ListingsSound
<1>3. /\ new \in TitleRow /\ new.title = stored[x].title /\ new.author = stored[x].author
      /\ new.status = stored[x].status /\ new.initialized = stored[x].initialized /\ new.inLibrary = TRUE
  BY <1>1 DEF TitleRow
<1>4. stored' = [stored EXCEPT ![x] = new] /\ browsing' = browsing /\ query' = query /\ late' = late
  BY DEF ShelveTitle
<1> HIDE DEF new
<1>5. RowKept(stored[x], new)
  BY <1>3 DEF RowKept, IsStored
<1> QED  BY <1>3, <1>4, <1>5, OneRowMoves

LEMMA SourceIsAsked ==
  ASSUME ListingsSound, NEW s \in Catalogues, FetchSourceManga(s)
  PROVE  RowsKept(stored, stored') /\ ListingsSound'
<1>1. browsing' = OpenCall("one", <<s>>) /\ query' = query /\ stored' = stored /\ late' = late
  BY DEF FetchSourceManga
<1>2. Once(Called, <<s>>)
  BY DEF Once, Called
<1>3. BrowsingSound(browsing)'
  BY <1>1, <1>2, BrowsingOpens
<1> QED  BY <1>1, <1>3, NothingTaken DEF ListingsSound

LEMMA SourcesAreAsked ==
  ASSUME ListingsSound, NEW sources \in BulkAsks, FetchSourceMangaBulk(sources)
  PROVE  RowsKept(stored, stored') /\ ListingsSound'
<1>1. /\ browsing' = OpenCall("bulk", Distinct(sources)) /\ query' = query /\ stored' = stored /\ late' = late
  BY DEF FetchSourceMangaBulk
<1>2. sources \in Seq(Called)
  <2>1. "s1" \in Called /\ "s2" \in Called /\ "s9" \in Called
    BY DEF Called
  <2>2. /\ <<"s1", "s2">> \in Seq(Called) /\ <<"s2", "s1", "s2">> \in Seq(Called)
        /\ <<"s9", "s1">> \in Seq(Called)
    BY <2>1
  <2> QED  BY <2>2, Zenon DEF BulkAsks
<1>3. Once(Called, Distinct(sources))
  BY <1>2, DistinctIsOnce
<1>4. BrowsingSound(browsing)'
  BY <1>1, <1>3, BrowsingOpens
<1> QED  BY <1>1, <1>4, NothingTaken DEF ListingsSound

LEMMA ListIsAsked ==
  ASSUME ListingsSound, QueryChapters \/ QueryMangas PROVE RowsKept(stored, stored') /\ ListingsSound'
<1>1. stored' = stored /\ browsing' = browsing /\ late' = late
  BY DEF QueryChapters, QueryMangas
<1>2. query'.of \in {"chapters", "mangas"}
  <2>1. CASE QueryChapters
    <3>1. \E parent \in {{}, {Num(1)}}, manga \in {{}, {Num(2)}}, isRead \in {{}, {Num(1)}},
             ids \in IdFilters, since \in {{}, {Text(5)}}, order \in Orders("lastReadAt"), first \in Firsts :
              LET condition == [mangaId |-> manga, isRead |-> isRead]
                  filter == [id |-> ids, isRead |-> Unsaid,
                             lastReadAt |-> [Unsaid EXCEPT !.greaterThan = since]]
              IN  query' = [of |-> "chapters", parent |-> parent, condition |-> condition,
                            filter |-> filter, order |-> order, first |-> first,
                            answer |-> ListChapters(ChapterRows, parent, condition, filter, order, first)]
      BY <2>1, Zenon DEF QueryChapters
    <3> QED  BY <3>1
  <2>2. CASE QueryMangas
    <3>1. \E inLibrary \in {{}, {Num(1)}}, ids \in IdFilters,
             origin \in {Unsaid, [Unsaid EXCEPT !.equalTo = {Text(2)}], [Unsaid EXCEPT !.in = {{}}]},
             order \in Orders("inLibraryAt"), first \in Firsts :
              LET condition == [inLibrary |-> inLibrary]
                  filter == [id |-> ids, sourceId |-> origin]
              IN  query' = [of |-> "mangas", condition |-> condition, filter |-> filter, order |-> order,
                            first |-> first, answer |-> ListMangas(MangaRows, condition, filter, order, first)]
      BY <2>2, Zenon DEF QueryMangas
    <3> QED  BY <3>1
  <2> QED  BY <2>1, <2>2
<1>3. stored' \in [Listable -> TitleRow] /\ late' \subseteq Catalogues
  BY <1>1 DEF ListingsSound
<1>4. RowsKept(stored, stored')
  BY <1>1, NothingTaken
<1>5. query'.of \in {"nothing", "chapters", "mangas"}
  BY <1>2
<1> QED  BY <1>1, <1>3, <1>4, <1>5, RowsMove

LEMMA NothingIsAsked ==
  ASSUME ListingsSound, stored' = stored, browsing' = browsing, query' = query, late' \subseteq Catalogues
  PROVE  RowsKept(stored, stored') /\ ListingsSound'
<1>1. stored' \in [Listable -> TitleRow] /\ query'.of \in {"nothing", "chapters", "mangas"}
  BY DEF ListingsSound
<1>2. RowsKept(stored, stored')
  BY NothingTaken
<1> QED  BY <1>1, <1>2, RowsMove

\* No step of what an account is shown takes anything from a row.
LEMMA ListingsStep ==
  ListingsSound /\ [ListingsNext]_listingVars => RowsKept(stored, stored') /\ ListingsSound'
<1> SUFFICES ASSUME ListingsSound, [ListingsNext]_listingVars
             PROVE  RowsKept(stored, stored') /\ ListingsSound'
  OBVIOUS
<1>1. CASE QueryChapters \/ QueryMangas
  BY <1>1, ListIsAsked
<1>2. CASE InBatches
  BY <1>2, NextIsTaken, NothingTaken
<1>3. CASE Respond
  BY <1>3, CallIsAnswered
<1>4. ASSUME NEW sources \in BulkAsks, FetchSourceMangaBulk(sources)
      PROVE  RowsKept(stored, stored') /\ ListingsSound'
  BY <1>4, SourcesAreAsked
<1>5. ASSUME NEW s \in Catalogues,
             FetchSourceManga(s) \/ NoResults(s) \/ SourceError(s) \/ Deadline(s)
      PROVE  RowsKept(stored, stored') /\ ListingsSound'
  BY <1>5, SourceIsAsked, SourceHasNone, SourceRefuses, WaitIsOver
<1>6. ASSUME NEW s \in Catalogues, LateAnswer(s) PROVE RowsKept(stored, stored') /\ ListingsSound'
  <2>1. stored' = stored /\ browsing' = browsing /\ query' = query /\ late' \subseteq Catalogues
    BY <1>6 DEF LateAnswer, ListingsSound
  <2> QED  BY <2>1, NothingIsAsked
<1>7. ASSUME NEW s \in Catalogues, NEW page \in Grids, Answers(s, page)
      PROVE  RowsKept(stored, stored') /\ ListingsSound'
  BY <1>7, PageIsStored
<1>8. ASSUME NEW x \in DOMAIN stored, OpenTitle(x) \/ ShelveTitle(x)
      PROVE  RowsKept(stored, stored') /\ ListingsSound'
  BY <1>8, TitleIsOpened, TitleIsShelved
<1>9. CASE UNCHANGED listingVars
  <2>1. stored' = stored /\ browsing' = browsing /\ query' = query /\ late' \subseteq Catalogues
    BY <1>9 DEF listingVars, ListingsSound
  <2> QED  BY <2>1, NothingIsAsked
<1> QED
  <2> SUFFICES ASSUME ListingsNext PROVE RowsKept(stored, stored') /\ ListingsSound'
    BY <1>9
  <2> QED  BY <1>1, <1>2, <1>3, <1>4, <1>5, <1>6, <1>7, <1>8 DEF ListingsNext

LEMMA TakesNothing == ListingsSound /\ RowsKept(stored, stored') => ListingTakesNothing
BY DEF ListingsSound, RowsKept, RowKept, ListingTakesNothing

\* What is shown of a source is told apart from what is not, and its titles are stored.
LEMMA EachIsHeard == ListingsSound => EachAnswersForItself
<1> SUFFICES ASSUME ListingsSound, browsing.stage = "done", NEW s \in DOMAIN browsing.results
             PROVE  /\ browsing.results[s] # Waiting
                    /\ (browsing.results[s].kind = "mangas" <=> browsing.said[s] = "a page")
                          \/ browsing.kind = "one"
                    /\ \A url \in browsing.results[s].urls : IsStored(stored[<<s, url>>])
  BY DEF EachAnswersForItself
<1>1. BrowsingSound(browsing)
  BY DEF ListingsSound, NoCall
<1>2. /\ BrowsingShape(browsing) /\ EachHasItsWord(browsing) /\ Len(browsing.ids) \in Nat
      /\ \A t \in ToSet(browsing.ids) : \E i \in 1..Len(browsing.ids) : browsing.ids[i] = t
  BY <1>1, BrowsingFacts
<1>3. PICK i \in 1..Len(browsing.ids) : browsing.ids[i] = s
  <2>1. s \in ToSet(browsing.ids)
    BY <1>2 DEF BrowsingShape
  <2> QED  BY <1>2, <2>1
<1>4. i < browsing.next /\ browsing.working = {}
  BY <1>1, <1>2 DEF BrowsingSound
<1>5. Settled(browsing, s)
  BY <1>2, <1>3, <1>4 DEF EachHasItsWord
<1>6. browsing.results[s].kind # "waiting" /\ Waiting.kind = "waiting"
  BY <1>5 DEF Settled, Waiting
<1> QED  BY <1>5, <1>6 DEF Settled

\* The rows, the calls and their words stay what the code can put there.
THEOREM ListingsStaySound == ListingsSpec => []ListingsSound
BY ListingsInitially, ListingsStep, PTL DEF ListingsSpec

\* A listing takes nothing from a title that is stored (search.ts:11-16, 58-65).
THEOREM ListingsTakeNothing == ListingsSpec => ListingsKeep
<1>1. ListingsSound /\ [ListingsNext]_listingVars => [ListingTakesNothing]_listingVars
  BY ListingsStep, TakesNothing
<1> QED  BY <1>1, ListingsStaySound, PTL DEF ListingsSpec, ListingsKeep

\* Of several sources each answers for itself, and what it shows is stored (search.ts:269-276).
THEOREM SourcesAnswerForThemselves == ListingsSpec => []EachAnswersForItself
BY ListingsStaySound, EachIsHeard, PTL

-----------------------------------------------------------------------------
(* The types of the parts: what else they need than what is shown above.   *)

\* Titles, icons and the command.
LEMMA DetailsTypes == DetailsSpec => []DetailsTypeOK
<1>1. DetailsInit => shell \in BOOLEAN
  BY DEF DetailsInit
<1>2. DetailsSound /\ shell \in BOOLEAN /\ [DetailsNext]_detailsVars => (shell \in BOOLEAN)'
  BY DEF DetailsNext, detailsVars, Passes, ImportLibrary, StoreListing, DetailsArrive, UpsertManga,
         UpdateManga, FetchManga, SourceFails
<1>3. DetailsSound /\ shell \in BOOLEAN => DetailsTypeOK
  BY MangaDetailsAssumption DEF DetailsSound, DetailsTypeOK
<1> QED  BY <1>1, <1>2, <1>3, DetailsSoundAlways, PTL DEF DetailsSpec

LEMMA IconsTypes == IconsSpec => []IconsTypeOK
<1>1. IconsInit => iconDisk \subseteq Sites /\ missing \subseteq Sites
  BY DEF IconsInit
<1>2. iconDisk \subseteq Sites /\ missing \subseteq Sites /\ [IconsNext]_iconVars
          => (iconDisk \subseteq Sites /\ missing \subseteq Sites)'
  BY DEF IconsNext, iconVars, SourceIcon, IconFetched, RestartIcons
<1>3. IconsSound /\ iconDisk \subseteq Sites /\ missing \subseteq Sites => IconsTypeOK
  BY DEF IconsSound, IconsTypeOK
<1>4. IconsSpec => []IconsSound
  BY IconsSoundInit, IconsSoundNext, PTL DEF IconsSpec
<1> QED  BY <1>1, <1>2, <1>3, <1>4, PTL DEF IconsSpec

\* A command has come as far as the paths there are.
Commanded == stamp \in Nat /\ torn \in BOOLEAN /\ job.at \in 0..CommandEnded

LEMMA UpdateTypes == UpdateSpec => []UpdateTypeOK
<1> DEFINE n == Len(Payload)
<1>0. n \in Nat /\ n > 0 /\ CommandEnded = n + 1 /\ DOMAIN Payload = 1..n
  BY SelfUpdateAssumption DEF CommandEnded
<1>1. UpdateInit => Commanded
  <2>1. NoJob.at = 0 /\ 0 \in 0..CommandEnded
    BY <1>0 DEF NoJob
  <2>2. UpdateInit => stamp = 0 /\ torn \in BOOLEAN /\ job = NoJob
    BY DEF UpdateInit
  <2> QED  BY <2>1, <2>2 DEF Commanded
<1>2. UpdateSound /\ Commanded /\ [UpdateNext]_updateVars => Commanded'
  <2> SUFFICES ASSUME UpdateSound, Commanded, [UpdateNext]_updateVars PROVE Commanded'
    OBVIOUS
  <2>1. /\ before \in [Paths -> Nat] /\ stamp \in Nat /\ torn \in BOOLEAN /\ job.at \in 0..(n + 1)
        /\ job \in [name : {"none", "empty", "swap", "restore"}, at : Nat]
    BY <1>0 DEF UpdateSound, UpdateTyped, Commanded
  <2>2. Payload[1] \in Paths
    BY <1>0 DEF Paths
  <2>3. stamp' \in Nat
    BY <2>1, <2>2 DEF UpdateNext, updateVars, Fetch, ClearTree, ClearStamp, Cleared, Skip, MoveOut, MoveIn,
       StampPrevious, Rollback, RemoveLive, CopyBack, LeaveLive, RolledBack, CutOff
  <2>4. torn' \in BOOLEAN
    BY <2>1 DEF UpdateNext, updateVars, Fetch, ClearTree, ClearStamp, Cleared, Skip, MoveOut, MoveIn,
       StampPrevious, Rollback, RemoveLive, CopyBack, LeaveLive, RolledBack, CutOff
  <2>5. job'.at \in 0..(n + 1)
    <3>1. CASE UNCHANGED job
      BY <2>1, <3>1
    <3>2. CASE job' \in {NoJob, [name |-> "empty", at |-> 0], [name |-> "swap", at |-> 1], [name |-> "restore", at |-> 1]}
      BY <1>0, <3>2 DEF NoJob
    <3>3. CASE Onward /\ job.at \in DOMAIN Payload
      <4>1. job'.at = job.at + 1
        BY <2>1, <3>3 DEF Onward
      <4> QED  BY <1>0, <3>3, <4>1
    <3> QED
      BY <3>1, <3>2, <3>3
      DEF UpdateNext, updateVars, Fetch, ClearTree, ClearStamp, Cleared, Skip, MoveOut, MoveIn,
          StampPrevious, Rollback, RemoveLive, CopyBack, LeaveLive, RolledBack, CutOff, Swapping, Restoring
  <2> QED  BY <1>0, <2>3, <2>4, <2>5 DEF Commanded
<1>3. UpdateSound /\ Commanded => UpdateTypeOK
  BY DEF UpdateSound, UpdateTyped, Commanded, UpdateTypeOK
<1>4. UpdateSpec => []UpdateSound
  BY UpdateSoundAlways, PTL
<1> QED  BY <1>1, <1>2, <1>3, <1>4, PTL DEF UpdateSpec

(* Sessions are of an account there is, begun and used at times that have  *)
(* been, and a bucket of failures holds one.                               *)
SessionsTyped ==
    /\ time \in Nat \ {0} /\ passwords \in Nat
    /\ user # None => user.password \in 1..passwords /\ user.changedAt \in 1..time
    /\ \A s \in Sids : session[s] # None =>
          /\ session[s] \in [createdAt : Nat, seenAt : Nat]
          /\ session[s].createdAt <= session[s].seenAt /\ session[s].seenAt <= time
          /\ user # None
    /\ bucket # None =>
          /\ bucket.failures \in Nat \ {0} /\ bucket.firstAt \in Nat
          /\ bucket.firstAt <= time

LEMMA SessionsTypedInit == SessionsInit => SessionsTyped
BY SessionsAssumption DEF SessionsInit, SessionsTyped

LEMMA SessionsTypedNext ==
  ASSUME SessionsSound, SessionsTyped, [SessionsNext]_sessionVars
  PROVE  SessionsTyped'
<1>0. 1..opened \subseteq Sids /\ opened \in Nat
  BY SessionsAssumption DEF SessionsSound, Sids
<1>1. CASE UNCHANGED sessionVars
  BY <1>1 DEF SessionsTyped, sessionVars
<1>2. CASE SessionTick
  BY <1>2 DEF SessionsTyped, SessionTick
<1>3. CASE Sweep
  BY <1>3 DEF SessionsTyped, Sweep, Swept
<1>4. ASSUME NEW l \in Logins, NEW given \in 1..MaxPassword, Login(l, given) PROVE SessionsTyped'
  BY <1>4 DEF SessionsTyped, Login
<1>5. ASSUME NEW l \in Logins, LoginFails(l) PROVE SessionsTyped'
  <2>1. /\ bucket'.failures \in Nat \ {0} /\ bucket'.firstAt \in Nat
        /\ bucket'.firstAt <= time
    <3> DEFINE old == IF bucket = None THEN [failures |-> 0, firstAt |-> 0, lockedUntil |-> 0]
                      ELSE bucket
               past == time - old.firstAt > Window
    <3>1. old.failures \in Nat /\ old.firstAt \in Nat /\ old.firstAt <= time /\ time \in Nat
      BY DEF SessionsTyped
    <3>2. /\ bucket'.failures = IF past THEN 1 ELSE old.failures + 1
          /\ bucket'.firstAt = IF past THEN time ELSE old.firstAt
      BY <1>5 DEF LoginFails, LoginFailed
    <3> HIDE DEF old, past
    <3> QED  BY <3>1, <3>2
  <2> QED  BY <1>5, <2>1 DEF SessionsTyped, LoginFails
<1>6. ASSUME NEW l \in Logins, LoginSucceeds(l) PROVE SessionsTyped'
  <2>1. CASE user = None
    BY <1>6, <2>1 DEF SessionsTyped, LoginSucceeds
  <2>2. CASE user # None
    <3>1. \A s \in Sids : \/ session'[s] = session[s]
                          \/ session'[s] = [createdAt |-> time, seenAt |-> time]
      BY <1>6, <2>2 DEF LoginSucceeds, SessionsSound
    <3> QED  BY <1>6, <2>2, <3>1 DEF SessionsTyped, LoginSucceeds
  <2> QED  BY <2>1, <2>2
<1>7. ASSUME NEW s \in Sids, SessionRequest(s) PROVE SessionsTyped'
  <2>1. ASSUME NEW x \in Sids, session'[x] # None
        PROVE  /\ session'[x] \in [createdAt : Nat, seenAt : Nat]
               /\ session'[x].createdAt <= session'[x].seenAt /\ session'[x].seenAt <= time
               /\ user # None
    <3>1. CASE session'[x] = session[x]
      BY <2>1, <3>1 DEF SessionsTyped
    <3>2. CASE session'[x] # session[x]
      <4>1. x = s /\ session[s] # None /\ session'[x] = [session[s] EXCEPT !.seenAt = time]
        BY <1>7, <2>1, <3>2 DEF SessionRequest, Drop, Touch, SessionsSound
      <4> QED  BY <4>1 DEF SessionsTyped
    <3> QED  BY <3>1, <3>2
  <2> QED  BY <1>7, <2>1 DEF SessionsTyped, SessionRequest
<1>8. ASSUME NEW s \in Sids, Logout(s) PROVE SessionsTyped'
  BY <1>8 DEF SessionsTyped, Logout, Drop
<1>9. CASE ChangePassword
  <2>1. \A s \in Sids : session'[s] = None
    BY <1>9 DEF ChangePassword, Drop, Known
  <2>2. user' = [password |-> passwords + 1, changedAt |-> time] /\ passwords' = passwords + 1
    BY <1>9 DEF ChangePassword
  <2> QED  BY <1>9, <2>1, <2>2 DEF SessionsTyped, ChangePassword
<1>10. CASE RemoveUser
  <2>1. \A s \in Sids : session'[s] = None
    BY <1>10 DEF RemoveUser, Drop, Known
  <2> QED  BY <1>10, <2>1 DEF SessionsTyped, RemoveUser
<1>11. CASE AddUser
  BY <1>11 DEF SessionsTyped, AddUser
<1> QED  BY <1>1, <1>2, <1>3, <1>4, <1>5, <1>6, <1>7, <1>8, <1>9, <1>10, <1>11 DEF SessionsNext

LEMMA SessionsTypes == SessionsSpec => []SessionsTypeOK
<1>1. SessionsSound /\ SessionsTyped => SessionsTypeOK
  <2> SUFFICES ASSUME SessionsSound, SessionsTyped PROVE SessionsTypeOK
    OBVIOUS
  <2>1. \A s \in Known : s \in Sids /\ session[s] # None /\ s <= opened
    BY DEF Known, SessionsSound
  <2> QED  BY <2>1 DEF SessionsTyped, SessionsTypeOK
<1>2. SessionsSound /\ SessionsTyped /\ [SessionsNext]_sessionVars => SessionsTyped'
  BY SessionsTypedNext
<1> QED  BY <1>1, <1>2, SessionsTypedInit, SessionsSoundAlways, PTL DEF SessionsSpec

(* A build that runs is one there is, the file is at most as new as the    *)
(* newest, and nothing is on disk that was not written.                    *)
DatabaseTyped ==
    /\ build \in Builds \cup {0} /\ version \in 0..Top /\ shape \subseteq 1..Top
    /\ phase \in {"closed", "schema", "stampOld", "stampNew", "climb", "open"}
    /\ depth \in 0..1 /\ (begun => depth = 1) /\ nest \in 0..MaxDepth
    /\ written \in 0..Writes /\ onDisk \in 0..written

LEMMA TopIsNewest == Top \in Builds /\ Top \in Nat \ {0} /\ \A b \in Builds : b <= Top
<1>1. \E t \in Builds : \A b \in Builds : b <= t
  BY DatabaseAssumption, FiniteHasMax
<1> QED  BY <1>1, DatabaseAssumption DEF Top

LEMMA DatabaseTypedNext ==
  ASSUME DatabaseSound, DatabaseTyped, [DatabaseNext]_dbVars
  PROVE  DatabaseTyped'
<1> USE DatabaseAssumption, TopIsNewest DEF DatabaseTyped, fileVars, workVars
<1>0. /\ begun \in BOOLEAN /\ tables \in BOOLEAN
      /\ phase # "closed" => build \in Builds /\ build \in 1..Top
  BY DEF DatabaseSound, SwitchesTyped, FileSound
<1>1. CASE UNCHANGED dbVars
  BY <1>1 DEF dbVars
<1>2. ASSUME NEW b \in Builds, OpenDb(b) PROVE DatabaseTyped'
  BY <1>2 DEF OpenDb
<1>3. CASE CreateTables \/ TablesCutOff
  <2>1. UNCHANGED <<version, depth, begun, nest, written, onDisk>> /\ build \in 1..Top
    BY <1>0, <1>3 DEF CreateTables, TablesCutOff
  <2>2. 1..build \subseteq 1..Top
    BY <2>1
  <2>3. CASE CreateTables
    <3>1. PICK added \in IF half THEN SUBSET (1..build) ELSE {{}} :
            shape' = IF tables THEN shape \cup added ELSE 1..build
      BY <2>3 DEF CreateTables
    <3>2. shape' \subseteq 1..Top
      BY <2>2, <3>1
    <3>3. build' = build /\ phase' \in {"stampOld", "stampNew"}
      BY <2>3 DEF CreateTables
    <3> QED  BY <2>1, <3>2, <3>3
  <2>4. CASE TablesCutOff
    BY <2>1, <2>2, <2>4 DEF TablesCutOff
  <2> QED  BY <1>3, <2>3, <2>4
<1>4. CASE StampVersion
  <2>1. phase # "closed" /\ 1 \in 0..Top /\ build \in 0..Top
    BY <1>0, <1>4 DEF StampVersion
  <2>2. version' \in 0..Top
    BY <1>4, <2>1 DEF StampVersion
  <2>3. phase' = "climb" /\ UNCHANGED <<build, shape, depth, begun, nest, written, onDisk>>
    BY <1>4 DEF StampVersion
  <2> QED  BY <2>2, <2>3
<1>5. CASE Migrate
  <2>1. /\ phase # "closed" /\ build \in 1..Top /\ version < build
        /\ UNCHANGED <<depth, begun, nest, written, onDisk>>
    BY <1>0, <1>5 DEF Migrate
  <2>2. build' \in {build, 0} /\ phase' \in {phase, "closed"}
    BY <1>5 DEF Migrate
  <2>3. version + 1 \in 1..Top
    BY <2>1
  <2>4. version' \in {version, version + 1} /\ shape' \in {shape, shape \cup {version + 1}}
    BY <1>5 DEF Migrate
  <2>5. version' \in 0..Top /\ shape' \subseteq 1..Top
    BY <2>3, <2>4
  <2> QED  BY <2>1, <2>2, <2>5
<1>6. CASE Opened
  BY <1>6 DEF Opened
<1>7. CASE Transaction
  <2>1. nest' \in 0..MaxDepth /\ depth' \in 0..1 /\ (begun' => depth' = 1)
    BY <1>0, <1>7 DEF Transaction
  <2> QED  BY <1>7, <2>1 DEF Transaction
<1>8. CASE Write
  <2>1. written' \in 0..Writes /\ onDisk' \in 0..written'
    BY <1>0, <1>8 DEF Write
  <2> QED  BY <1>8, <2>1 DEF Write
<1>9. CASE Return
  <2>1. /\ nest' \in 0..MaxDepth /\ depth' \in 0..1 /\ (begun' => depth' = 1)
        /\ onDisk' \in 0..written'
    BY <1>0, <1>9 DEF Return
  <2> QED  BY <1>9, <2>1 DEF Return
<1>10. CASE Throw
  BY <1>0, <1>10 DEF Throw
<1>11. CASE Kill
  BY <1>0, <1>11 DEF Kill
<1> QED  BY <1>1, <1>2, <1>3, <1>4, <1>5, <1>6, <1>7, <1>8, <1>9, <1>10, <1>11 DEF DatabaseNext

LEMMA DatabaseTypes == DatabaseSpec => []DatabaseTypeOK
<1>1. DatabaseInit => DatabaseTyped
  BY DatabaseAssumption, TopIsNewest DEF DatabaseInit, DatabaseTyped
<1>2. DatabaseSound /\ DatabaseTyped /\ [DatabaseNext]_dbVars => DatabaseTyped'
  BY DatabaseTypedNext
<1>3. DatabaseSound /\ DatabaseTyped => DatabaseTypeOK
  BY DatabaseAssumption DEF DatabaseSound, SwitchesTyped, DatabaseTyped, DatabaseTypeOK
<1> QED  BY <1>1, <1>2, <1>3, DatabaseSoundAlways, PTL DEF DatabaseSpec

-----------------------------------------------------------------------------
(* Sites: no walk goes on past the pages of a shelf.                       *)

\* Counting pages: what fits into what there is, and one page more.
LEMMA Quotients ==
  ASSUME NEW m \in Nat, NEW p \in Nat, p > 0
  PROVE  m \div p \in Nat /\ \A n \in Nat : n * p <= m => n <= m \div p
<1>1. ASSUME NEW n \in Nat, n * p <= m PROVE n <= m \div p
  BY <1>1
<1>2. m \div p \in Nat
  OBVIOUS
<1> QED  BY <1>1, <1>2

LEMMA WholePages ==
  /\ MaxPublished \div PageSize \in Nat
  /\ \A n \in Nat : n * PageSize <= MaxPublished => n <= MaxPublished \div PageSize
BY SourceSitesAssumption, Quotients

LEMMA OneMorePage ==
  ASSUME NEW page \in Nat \ {0}, Offset(page) <= MaxPublished
  PROVE  page + 1 <= MaxPublished \div PageSize + 2
<1>1. page - 1 \in Nat /\ (page - 1) * PageSize <= MaxPublished
  BY DEF Offset
<1>2. page - 1 <= MaxPublished \div PageSize /\ MaxPublished \div PageSize \in Nat
  BY <1>1, WholePages
<1> QED  BY <1>2

LEMMA SliceTyped ==
  ASSUME NEW T, NEW s \in Seq(T), NEW from \in Nat
  PROVE  /\ SliceOf(s, from) \in Seq(T) /\ Len(SliceOf(s, from)) <= PageSize
         /\ SliceOf(s, from) # <<>> => Len(s) >= from + 1
         /\ Len(SliceOf(s, from)) >= PageSize => Len(s) >= from + PageSize
<1> DEFINE to == FewerOf(from + PageSize, Len(s))
<1>1. PageSize \in Nat \ {0} /\ Len(s) \in Nat
  BY SourceSitesAssumption
<1>2. to \in Nat /\ to <= from + PageSize /\ to <= Len(s)
  BY <1>1 DEF FewerOf
<1> HIDE DEF to
<1> DEFINE r == SubSeq(s, from + 1, to)
<1>3. r \in Seq(T) /\ Len(r) = IF from + 1 <= to THEN to - from ELSE 0
  <2>1. from + 1 \in 1..(Len(s) + 1) \/ from + 1 > to
    BY <1>1, <1>2
  <2> QED  BY <1>1, <1>2, <2>1, SubSeqProperties
<1>4. r # <<>> => Len(r) # 0
  BY <1>3, EmptySeq
<1> HIDE DEF r
<1> QED  BY <1>1, <1>2, <1>3, <1>4 DEF r, to, SliceOf

(* Readable is a fold over a sequence: what it holds is shown row by row,  *)
(* by the least number of rows for which it would not be so.               *)
Reads(s, f) ==
    [S \in SUBSET (DOMAIN s) |-> IF S = {} THEN <<>>
                                 ELSE IF s[Max(S)] \in site.odd THEN f[S \ {Max(S)}]
                                 ELSE Append(f[S \ {Max(S)}], s[Max(S)])]
Reading(s) == CHOOSE f : f = Reads(s, f)

LEMMA ReadableIsAFold == \A s : Readable(s) = Reading(s)[DOMAIN s]
BY Zenon DEF Readable, FoldLeft, MapThenFoldSet, Reading, Reads

\* What is kept of the first k: all of them that can be read, and no more.
ReadSoFar(T, s, k, r) ==
    /\ r \in Seq(T) /\ Len(r) <= k /\ (site.odd = {} => Len(r) = k)
    /\ \A i \in 1..k : s[i] \notin site.odd => \E j \in 1..Len(r) : r[j] = s[i]
    /\ \A j \in 1..Len(r) : r[j] \notin site.odd /\ \E i \in 1..k : r[j] = s[i]

LEMMA OneMoreRead ==
  ASSUME NEW T, NEW s \in Seq(T), NEW k \in 1..Len(s), NEW r, ReadSoFar(T, s, k - 1, r)
  PROVE  ReadSoFar(T, s, k, IF s[k] \in site.odd THEN r ELSE Append(r, s[k]))
<1>1. /\ k \in Nat /\ s[k] \in T /\ \A i \in 1..k : i = k \/ i \in 1..(k - 1)
      /\ r \in Seq(T) /\ Len(r) \in Nat
  BY DEF ReadSoFar
<1>2. CASE s[k] \in site.odd
  <2>1. site.odd # {}
    BY <1>2
  <2> QED  BY <1>1, <1>2, <2>1 DEF ReadSoFar
<1>3. CASE s[k] \notin site.odd
  <2> DEFINE b == Append(r, s[k])
             m == Len(r)
  <2>1. /\ b \in Seq(T) /\ Len(b) = m + 1 /\ b[m + 1] = s[k] /\ \A j \in 1..m : b[j] = r[j]
        /\ m \in Nat /\ m <= k - 1 /\ (site.odd = {} => m = k - 1)
    BY <1>1 DEF ReadSoFar
  <2>2. \A j \in 1..(m + 1) : j \in 1..m \/ j = m + 1
    BY <2>1
  <2>3. m + 1 \in 1..(m + 1) /\ m + 1 <= k /\ k \in 1..k
    BY <1>1, <2>1
  <2>4. /\ \A i \in 1..(k - 1) : s[i] \notin site.odd => \E j \in 1..m : r[j] = s[i]
        /\ \A j \in 1..m : r[j] \notin site.odd /\ \E i \in 1..(k - 1) : r[j] = s[i]
    BY DEF ReadSoFar
  <2> HIDE DEF b, m
  <2>5. \A i \in 1..k : s[i] \notin site.odd => \E j \in 1..(m + 1) : b[j] = s[i]
    <3> TAKE i \in 1..k
    <3>1. CASE i = k
      BY <2>1, <2>3, <3>1
    <3>2. CASE i \in 1..(k - 1) /\ s[i] \notin site.odd
      <4>1. PICK j \in 1..m : r[j] = s[i]
        BY <2>4, <3>2
      <4> QED  BY <2>1, <4>1
    <3> QED  BY <1>1, <3>1, <3>2
  <2>6. \A j \in 1..(m + 1) : b[j] \notin site.odd /\ \E i \in 1..k : b[j] = s[i]
    <3> TAKE j \in 1..(m + 1)
    <3>1. CASE j = m + 1
      BY <1>3, <2>1, <2>3, <3>1
    <3>2. CASE j \in 1..m
      <4>1. r[j] \notin site.odd /\ b[j] = r[j]
        BY <2>1, <2>4, <3>2
      <4>2. PICK i \in 1..(k - 1) : r[j] = s[i]
        BY <2>4, <3>2
      <4> QED  BY <1>1, <4>1, <4>2
    <3> QED  BY <2>2, <3>1, <3>2
  <2>7. site.odd = {} => Len(b) = k
    BY <1>1, <2>1
  <2>8. ReadSoFar(T, s, k, b)
    BY <2>1, <2>3, <2>5, <2>6, <2>7 DEF ReadSoFar
  <2> QED  BY <1>3, <2>8 DEF b
<1> QED  BY <1>2, <1>3

LEMMA ReadableReads ==
  ASSUME NEW T, NEW s \in Seq(T) PROVE ReadSoFar(T, s, Len(s), Readable(s))
<1> DEFINE n == Len(s)
           V == Seq(T)
           With(r, x) == IF x \in site.odd THEN r ELSE Append(r, x)
           g == [p \in V \X (1..n) |-> With(p[1], s[p[2]])]
<1>1. n \in Nat /\ DOMAIN s = 1..n /\ \A k \in 1..n : s[k] \in T
  OBVIOUS
<1>2. <<>> \in V
  OBVIOUS
<1>3. ASSUME NEW r \in V, NEW k \in 1..n
      PROVE  /\ <<r, k>> \in V \X (1..n) /\ g[<<r, k>>] = With(r, s[k]) /\ With(r, s[k]) \in V
  <2>1. <<r, k>> \in V \X (1..n) /\ g[<<r, k>>] = With(r, s[k])
    OBVIOUS
  <2>2. With(r, s[k]) \in V
    BY <1>1
  <2> QED  BY <2>1, <2>2
<1>4. g \in [V \X (1..n) -> V]
  <2>1. \A p \in V \X (1..n) : p[1] \in V /\ p[2] \in 1..n
    OBVIOUS
  <2> HIDE DEF V, With
  <2>2. \A p \in V \X (1..n) : With(p[1], s[p[2]]) \in V
    BY <2>1, <1>3
  <2> QED  BY <2>2
<1> HIDE DEF n, V, g
<1>5. PICK f : IsFold(f, n, V, <<>>, g)
  <2>1. n \in 0..n
    BY <1>1
  <2> QED  BY <1>1, <1>2, <1>4, <2>1, FoldsExist
<1>6. ASSUME NEW S \in SUBSET (1..n)
      PROVE  f[S] = IF S = {} THEN <<>> ELSE With(f[S \ {Max(S)}], s[Max(S)])
  <2> HIDE DEF With
  <2>1. f[S] = IF S = {} THEN <<>> ELSE g[<<f[S \ {Max(S)}], Max(S)>>]
    BY <1>5 DEF IsFold
  <2>2. CASE S # {}
    <3>1. Max(S) \in 1..n /\ S \ {Max(S)} \in SUBSET (1..n)
      BY <1>1, <2>2, MaxIsOne
    <3>2. f[S \ {Max(S)}] \in V
      BY <1>5, <3>1 DEF IsFold
    <3> QED  BY <2>1, <2>2, <3>1, <3>2, <1>3
  <2> QED  BY <2>1, <2>2
<1>7. f = Reads(s, f)
  <2>1. f = [S \in SUBSET (1..n) |-> f[S]]
    BY <1>5 DEF IsFold
  <2> QED  BY <1>1, <1>6, <2>1 DEF Reads
<1>8. Reading(s) = Reads(s, Reading(s))
  BY <1>7, Zenon DEF Reading
<1> DEFINE h == Reading(s)
<1> HIDE DEF h
<1>9. \A S \in SUBSET (1..n) : h[S] = IF S = {} THEN <<>> ELSE With(h[S \ {Max(S)}], s[Max(S)])
  BY <1>1, <1>8 DEF h, Reads
<1> HIDE DEF With
<1> DEFINE Bad == {k \in 0..n : ~ReadSoFar(T, s, k, h[1..k])}
<1>10. Bad = {}
  <2>1. SUFFICES ASSUME Bad # {} PROVE FALSE
    OBVIOUS
  <2>2. Bad \in SUBSET Nat
    BY <1>1
  <2>3. PICK k \in Bad : \A j \in Bad : k <= j
    <3> HIDE DEF Bad
    <3> QED  BY <2>1, <2>2, SmallestOf
  <2>4. CASE k = 0
    <3>1. 1..k = {}
      BY <2>4
    <3>2. h[1..k] = <<>>
      BY <1>9, <3>1
    <3>3. ReadSoFar(T, s, 0, <<>>)
      BY DEF ReadSoFar
    <3> QED  BY <2>3, <2>4, <3>2, <3>3
  <2>5. CASE k # 0
    <3>1. k \in 1..n /\ k - 1 \in 0..n /\ ~(k <= k - 1)
      BY <1>1, <2>3, <2>5
    <3>2. ReadSoFar(T, s, k - 1, h[1..(k - 1)])
      BY <2>3, <3>1
    <3>3. 1..k \in SUBSET (1..n) /\ k \in 1..k /\ k \in Nat /\ n \in Nat
      BY <1>1, <3>1
    <3>4. (1..k) \ {k} = 1..(k - 1) /\ 1..k # {}
      <4>1. \A i \in Nat : (1..i) \ {i} = 1..(i - 1)
        OBVIOUS
      <4> QED  BY <3>3, <4>1
    <3>5. Max(1..k) = k
      BY <3>3, MaxOfSome
    <3>6. h[1..k] = With(h[1..(k - 1)], s[k])
      BY <1>9, <3>3, <3>4, <3>5
    <3> DEFINE r == h[1..(k - 1)]
    <3> HIDE DEF r
    <3>7. ReadSoFar(T, s, k, With(r, s[k]))
      <4>1. k \in 1..Len(s) /\ ReadSoFar(T, s, k - 1, r)
        BY <3>1, <3>2 DEF n, r
      <4> QED  BY <4>1, OneMoreRead DEF With
    <3> QED  BY <2>3, <3>6, <3>7 DEF r
  <2> QED  BY <2>4, <2>5
<1>11. ReadSoFar(T, s, n, h[1..n])
  <2>1. n \in 0..n
    BY <1>1
  <2> QED  BY <1>10, <2>1
<1>12. Readable(s) = h[1..n]
  BY <1>1, ReadableIsAFold DEF h
<1> QED  BY <1>11, <1>12 DEF n

(* A walk: what it has got is of the shelf, which a page of news at most   *)
(* may have joined, and while it goes on it has come no further than the   *)
(* shelf has pages.                                                        *)
Walks == {"listing", "feed"}
News == IF visit.kind \in Walks THEN visit.news ELSE 0
Roomy == MaxPublished - PageSize
LastPage == MaxPublished \div PageSize + 3
WalkFields == {"kind", "page", "got", "from", "news", "clean"}
FeedFields == WalkFields \cup {"status", "whole"}

ShelfSound ==
    /\ shelf \in Seq(1..MaxPublished) /\ Len(shelf) <= Roomy + News
    /\ \A k \in DOMAIN shelf : shelf[k] <= Roomy + News

WalkSound ==
    /\ visit.kind \in Walks => visit.news \in 0..PageSize /\ visit.page \in 1..LastPage
    /\ visit.kind = "listing" =>
          /\ DOMAIN visit = WalkFields \cup {"more"}
          /\ visit.more => visit.page < LastPage
    /\ visit.kind = "feed" =>
          /\ DOMAIN visit = FeedFields
          /\ visit.status = "reading" => visit.page < LastPage
          /\ visit.status = "reading" /\ site.engine = "madara" =>
                visit.page <= Len(AttemptOrder(site.mode))

SitesTyped ==
    /\ site.engine \in Engines /\ site.mode \in Forms \cup {"auto"} /\ PageSize <= MaxPublished
    /\ ShelfSound /\ WalkSound

LEMMA SitesTypedInit == SitesInit => SitesTyped
<1> SUFFICES ASSUME SitesInit PROVE SitesTyped
  OBVIOUS
<1>0. MaxPublished \in Nat /\ PageSize \in Nat \ {0} /\ visit.kind = "none" /\ News = 0
  BY SourceSitesAssumption DEF SitesInit, NoVisit, News, Walks
<1>1. PICK n \in 0..Roomy : shelf = FirstOnes(n)
  BY DEF SitesInit, Roomy
<1>2. n \in Nat /\ n <= Roomy /\ Roomy <= MaxPublished /\ Roomy \in Nat
  BY <1>0, <1>1 DEF Roomy
<1> DEFINE s == [k \in 1..n |-> k]
<1>3. s \in Seq(1..MaxPublished) /\ Len(s) = n
  BY <1>0, <1>2
<1>4. shelf = [i \in 1..n |-> s[(n - i) + 1]]
  BY <1>1, <1>3 DEF FirstOnes, Reverse
<1>5. \A i \in 1..n : (n - i) + 1 \in 1..n /\ s[(n - i) + 1] = (n - i) + 1 /\ (n - i) + 1 <= Roomy
  BY <1>2
<1> HIDE DEF s
<1>6. shelf \in Seq(1..MaxPublished) /\ Len(shelf) = n /\ \A i \in 1..n : shelf[i] <= Roomy
  <2>1. \A i \in 1..n : shelf[i] \in 1..MaxPublished /\ shelf[i] <= Roomy
    BY <1>0, <1>2, <1>4, <1>5
  <2> QED  BY <1>2, <1>4, <2>1
<1>7. ShelfSound
  BY <1>0, <1>2, <1>6 DEF ShelfSound
<1>8. WalkSound
  BY <1>0 DEF WalkSound, Walks
<1>9. site.engine \in Engines /\ site.mode \in Forms \cup {"auto"} /\ PageSize <= MaxPublished
  <2>1. site.engine \in Engines /\ site.mode \in Forms \cup {"auto"}
    BY DEF SitesInit
  <2>2. PageSize <= MaxPublished
    BY <1>0, <1>2 DEF Roomy
  <2> QED  BY <2>1, <2>2
<1> QED  BY <1>7, <1>8, <1>9 DEF SitesTyped

(* A page that says another follows was within the shelf.                  *)
LEMMA ListingGoesOn ==
  ASSUME SitesTyped, NEW page \in Nat \ {0}, ListingPage(page).more
  PROVE  Offset(page) <= Len(shelf)
<1> DEFINE from == Offset(page)
           rows == SliceOf(shelf, from)
<1>0. /\ PageSize \in Nat \ {0} /\ from \in Nat /\ page * PageSize = from + PageSize
      /\ shelf \in Seq(1..MaxPublished) /\ Len(shelf) \in Nat /\ site.engine \in Engines
  BY SourceSitesAssumption DEF Offset, SitesTyped, ShelfSound
<1>1. /\ rows \in Seq(1..MaxPublished)
      /\ rows # <<>> => Len(shelf) >= from + 1
      /\ Len(rows) >= PageSize => Len(shelf) >= from + PageSize
  BY <1>0, SliceTyped
<1>2. Len(Readable(rows)) \in Nat /\ Len(Readable(rows)) <= Len(rows)
  BY <1>1, ReadableReads DEF ReadSoFar
<1>3. Len(Cards) \in Nat /\ Len(Cards) <= Len(shelf)
  BY <1>0 DEF Cards
<1>4. \A items, more : Answer(items, more).more = more
  BY DEF Answer
<1> DEFINE more == ListingPage(page).more
<1>5. CASE site.engine = "madara"
  <2>1. ListingPage(page) = MadaraList(from)
    BY <1>5 DEF ListingPage, MadaraListing, ListingViaLoadMore, Offset
  <2>2. Len(Cards) > from + PageSize
    <3>1. MadaraList(from).more = (Len(Cards) > from + PageSize)
      BY Zenon DEF MadaraList, Answer
    <3> QED  BY <2>1, <3>1
  <2> QED  BY <1>0, <1>3, <2>2
<1>6. CASE site.engine = "mangathemesia"
  <2>1. CASE site.client
    BY <1>6, <2>1 DEF ListingPage, ClientSearch, OnePage, Answer
  <2>2. CASE ~site.client
    <3>1. ListingPage(page) = ThemesiaList(page)
      BY <1>6, <2>2 DEF ListingPage
    <3>2. Len(Cards) > page * PageSize
      <4>1. ThemesiaList(page).more = (Len(Cards) > page * PageSize)
        BY Zenon DEF ThemesiaList, BrowseParam, ReadParam, Answer
      <4> QED  BY <3>1, <4>1
    <3> QED  BY <1>0, <1>3, <3>2
  <2> QED  BY <2>1, <2>2
<1>7. CASE site.engine = "keyoapp"
  BY <1>7 DEF ListingPage, KeyoappList, OnePage, Answer
<1>8. CASE site.engine = "mangacatalog"
  BY <1>8 DEF ListingPage, CatalogList, OnePage, Answer
<1>9. CASE site.engine = "iken"
  <2>1. Len(shelf) > page * PageSize
    BY <1>9 DEF ListingPage, IkenQuery, Answer
  <2> QED  BY <1>0, <2>1
<1>10. CASE site.engine = "mangahub"
  <2>1. Len(rows) = PageSize
    BY <1>10 DEF ListingPage, MangaHubList, Answer
  <2> QED  BY <1>0, <1>1, <2>1
<1>11. CASE site.engine = "comick"
  <2>1. Len(rows) >= PageSize
    BY <1>11 DEF ListingPage, ComicKList, Answer
  <2> QED  BY <1>0, <1>1, <2>1
<1>12. CASE site.engine = "weebcentral"
  <2>1. Len(Readable(rows)) >= PageSize
    BY <1>12 DEF ListingPage, WeebCentralList, Answer
  <2>2. Len(rows) \in Nat
    BY <1>1
  <2>3. Len(rows) >= PageSize
    BY <1>0, <1>2, <2>1, <2>2
  <2> QED  BY <1>0, <1>1, <2>3
<1>13. CASE site.engine = "mangadex"
  <2>1. from + PageSize < FewerOf(Len(shelf), MaxOffset)
    BY <1>13 DEF ListingPage, MangaDexList, Answer
  <2>2. FewerOf(Len(shelf), MaxOffset) <= Len(shelf)
    BY <1>0, SourceSitesAssumption DEF FewerOf
  <2>3. FewerOf(Len(shelf), MaxOffset) \in Nat
    BY <1>0, SourceSitesAssumption DEF FewerOf
  <2> HIDE DEF from
  <2> QED  BY <1>0, <2>1, <2>2, <2>3 DEF from
<1>14. CASE site.engine = "asura"
  <2>1. IF site.total THEN from + Len(rows) < Len(shelf) ELSE rows # <<>>
    BY <1>14 DEF ListingPage, AsuraList, Answer
  <2>2. Len(rows) \in Nat
    BY <1>1
  <2> HIDE DEF rows
  <2> QED  BY <1>0, <1>1, <2>1, <2>2
<1> QED  BY <1>0, <1>5, <1>6, <1>7, <1>8, <1>9, <1>10, <1>11, <1>12, <1>13, <1>14 DEF Engines

LEMMA ShelfStays ==
  ASSUME SitesTyped, UNCHANGED <<site, shelf>>, News' = News, WalkSound' PROVE SitesTyped'
BY DEF SitesTyped, ShelfSound, Roomy

LEMMA PageOnward ==
  ASSUME SitesTyped, NEW page \in Nat \ {0}, page < LastPage
  PROVE  /\ page + 1 \in 1..LastPage /\ 3 < LastPage
         /\ Offset(page) <= Len(shelf) => page + 1 < LastPage
<1>1. PageSize \in Nat \ {0} /\ MaxPublished \in Nat /\ PageSize <= MaxPublished
  BY SourceSitesAssumption DEF SitesTyped
<1>2. 1 <= MaxPublished \div PageSize /\ MaxPublished \div PageSize \in Nat
  <2>1. 1 * PageSize <= MaxPublished
    BY <1>1
  <2> QED  BY <2>1, WholePages
<1>3. ASSUME Offset(page) <= Len(shelf) PROVE page + 1 < LastPage
  <2>1. Len(shelf) \in Nat /\ Len(shelf) <= MaxPublished
    <3>1. News \in Nat /\ News <= PageSize
      BY <1>1 DEF SitesTyped, WalkSound, News
    <3>2. Len(shelf) <= Roomy + News /\ Len(shelf) \in Nat
      BY DEF SitesTyped, ShelfSound
    <3> QED  BY <1>1, <3>1, <3>2 DEF Roomy
  <2>2. Offset(page) \in Nat
    BY <1>1 DEF Offset
  <2>3. page + 1 <= MaxPublished \div PageSize + 2
    BY <1>1, <1>3, <2>1, <2>2, OneMorePage
  <2> QED  BY <1>2, <2>3 DEF LastPage
<1>4. LastPage \in Nat /\ 3 < LastPage
  BY <1>2 DEF LastPage
<1> QED  BY <1>3, <1>4

LEMMA LastPageHere == LastPage \in Nat /\ 1 < LastPage /\ PageSize \in Nat \ {0} /\ MaxPublished \in Nat
<1>1. MaxPublished \div PageSize \in Nat
  BY WholePages
<1> QED  BY <1>1, SourceSitesAssumption DEF LastPage

LEMMA InSeq == ASSUME NEW T, NEW s \in Seq(T) PROVE \A i \in 1..Len(s) : s[i] \in T
OBVIOUS

LEMMA WiderSeq == ASSUME NEW S, NEW T, NEW s \in Seq(T), \A x \in T : x \in S PROVE s \in Seq(S)
OBVIOUS

LEMMA OpenedSound ==
  ASSUME SitesTyped, OpenListing \/ OpenPopular \/ OpenFeed \/ GetPageList \/ Search
  PROVE  SitesTyped'
<1>0. UNCHANGED <<site, shelf>> /\ visit = NoVisit
  BY DEF OpenListing, OpenPopular, OpenFeed, GetPageList, Search
<1>1. News = 0
  BY <1>0 DEF News, Walks, NoVisit
<1>2. CASE OpenListing
  <2>1. visit' = [kind |-> "listing", page |-> 1, got |-> {}, more |-> TRUE,
                  from |-> ToSet(shelf), news |-> 0, clean |-> TRUE]
    BY <1>2 DEF OpenListing
  <2>2. /\ visit'.kind = "listing" /\ visit'.page = 1 /\ visit'.news = 0
        /\ DOMAIN visit' = WalkFields \cup {"more"}
    BY <2>1 DEF WalkFields
  <2>3. WalkSound' /\ News' = 0
    BY <2>2, LastPageHere DEF WalkSound, Walks, News
  <2> QED  BY <1>0, <1>1, <2>3, ShelfStays
<1>3. CASE OpenFeed
  <2>1. visit' = [kind |-> "feed", page |-> 1, got |-> <<>>, status |-> "reading",
                  from |-> ToSet(shelf), news |-> 0, clean |-> TRUE, whole |-> TRUE]
    BY <1>3 DEF OpenFeed
  <2>2. /\ visit'.kind = "feed" /\ visit'.page = 1 /\ visit'.news = 0
        /\ DOMAIN visit' = FeedFields
    BY <2>1 DEF WalkFields, FeedFields
  <2>3. 1 <= Len(AttemptOrder(site.mode))
    BY DEF SitesTyped, AttemptOrder, Forms
  <2>4. WalkSound' /\ News' = 0
    BY <1>0, <2>2, <2>3, LastPageHere DEF WalkSound, Walks, News
  <2> QED  BY <1>0, <1>1, <2>4, ShelfStays
<1>4. CASE visit'.kind \in {"popular", "pages", "search"}
  <2>1. WalkSound' /\ News' = 0
    BY <1>4 DEF WalkSound, Walks, News
  <2> QED  BY <1>0, <1>1, <2>1, ShelfStays
<1>5. OpenPopular => visit'.kind = "popular"
  BY DEF OpenPopular
<1>6. GetPageList => visit'.kind = "pages"
  BY DEF GetPageList
<1>7. Search => visit'.kind = "search"
  BY DEF Search
<1> QED  BY <1>2, <1>3, <1>4, <1>5, <1>6, <1>7

LEMMA ListPageSound == ASSUME SitesTyped, ListPage PROVE SitesTyped'
<1> DEFINE page == visit.page
           answer == ListingPage(page)
<1>1. /\ visit.kind = "listing" /\ visit.more /\ DOMAIN visit = WalkFields \cup {"more"}
      /\ page \in Nat \ {0} /\ page < LastPage /\ visit.news \in 0..PageSize
  BY LastPageHere DEF ListPage, SitesTyped, WalkSound, Walks
<1>2. visit' = [visit EXCEPT !.page = page + 1, !.got = @ \cup answer.items, !.more = answer.more]
  BY DEF ListPage
<1> HIDE DEF answer, page
<1>3. /\ visit'.kind = "listing" /\ visit'.news = visit.news /\ visit'.page = page + 1
      /\ visit'.more = answer.more /\ DOMAIN visit' = WalkFields \cup {"more"}
  BY <1>1, <1>2 DEF WalkFields
<1>4. page + 1 \in 1..LastPage /\ (answer.more => page + 1 < LastPage)
  <2>1. answer.more => Offset(page) <= Len(shelf)
    BY <1>1, ListingGoesOn DEF answer
  <2> QED  BY <1>1, <2>1, PageOnward
<1>5. WalkSound' /\ News' = News
  BY <1>1, <1>3, <1>4, LastPageHere DEF WalkSound, Walks, News
<1>6. UNCHANGED <<site, shelf>>
  BY DEF ListPage
<1> QED  BY <1>5, <1>6, ShelfStays

(* A feed that is asked once more stays within its pages.                  *)
StillFed == SitesTyped /\ visit.kind = "feed"

LEMMA FeedMoves ==
  ASSUME SitesTyped, visit.kind = "feed", visit.status = "reading", UNCHANGED <<site, shelf>>,
         visit'.kind = "feed", visit'.news = visit.news, DOMAIN visit' = FeedFields,
         \/ visit'.page = visit.page /\ visit'.status # "reading"
         \/ /\ visit'.page = visit.page + 1
            /\ visit'.status = "reading" =>
                  /\ visit'.page < LastPage
                  /\ site.engine = "madara" => visit'.page <= Len(AttemptOrder(site.mode))
  PROVE  StillFed'
<1>1. visit.page \in Nat \ {0} /\ visit.page < LastPage /\ visit.news \in 0..PageSize
  BY LastPageHere DEF SitesTyped, WalkSound, Walks
<1>2. visit'.page \in 1..LastPage
  BY <1>1, LastPageHere
<1>3. WalkSound' /\ News' = News
  BY <1>1, <1>2, LastPageHere DEF WalkSound, Walks, News
<1> QED  BY <1>3, ShelfStays DEF StillFed

LEMMA FedMeans ==
  ASSUME visit.kind = "feed", DOMAIN visit = FeedFields,
         NEW got, NEW ended \in BOOLEAN, NEW outside, Fed(got, ended, outside)
  PROVE  /\ visit'.kind = "feed" /\ visit'.news = visit.news /\ DOMAIN visit' = FeedFields
         /\ visit'.page = visit.page + 1
         /\ visit'.status = "reading" => ~ended
<1>1. FeedSettled(got, outside) # "reading"
  BY DEF FeedSettled
<1> QED  BY <1>1 DEF Fed, FeedFields, WalkFields

LEMMA FeedStepSound == ASSUME SitesTyped, FeedStep PROVE StillFed'
<1> DEFINE page == visit.page
           from == Offset(page)
           rows == SliceOf(shelf, from)
<1>0. /\ visit.kind = "feed" /\ visit.status = "reading" /\ DOMAIN visit = FeedFields
      /\ UNCHANGED <<site, shelf>> /\ site.engine \in Engines
      /\ page \in Nat \ {0} /\ page < LastPage
      /\ PageSize \in Nat \ {0} /\ from \in Nat
      /\ shelf \in Seq(1..MaxPublished) /\ Len(shelf) \in Nat
  <2>1. visit.kind = "feed" /\ visit.status = "reading" /\ UNCHANGED <<site, shelf>>
    BY DEF FeedStep
  <2>2. site.engine \in Engines /\ WalkSound /\ shelf \in Seq(1..MaxPublished)
    BY DEF SitesTyped, ShelfSound
  <2>3. DOMAIN visit = FeedFields /\ page \in 1..LastPage /\ page < LastPage
    BY <2>1, <2>2 DEF WalkSound, Walks
  <2>4. page \in Nat \ {0} /\ PageSize \in Nat \ {0} /\ Len(shelf) \in Nat
    BY <2>2, <2>3, LastPageHere
  <2>5. from \in Nat
    BY <2>4 DEF Offset
  <2> QED  BY <2>1, <2>2, <2>3, <2>4, <2>5
<1>1. rows # <<>> => Len(shelf) >= from + 1
  BY <1>0, SliceTyped
<1>2. Offset(page) <= Len(shelf) => page + 1 < LastPage
  BY <1>0, PageOnward
<1>3. ASSUME NEW got, NEW ended \in BOOLEAN, NEW outside, Fed(got, ended, outside),
             ~ended => /\ page + 1 < LastPage
                       /\ site.engine = "madara" => page + 1 <= Len(AttemptOrder(site.mode))
      PROVE  StillFed'
  BY <1>0, <1>3, FedMeans, FeedMoves
<1>4. CASE site.engine = "mangadex" /\ MangaDexFeed
  <2>1. PICK got, outside : Fed(got, FeedEnds(rows), outside)
    BY <1>4 DEF MangaDexFeed
  <2>2. FeedEnds(rows) \in BOOLEAN
    BY DEF FeedEnds
  <2>3. ~FeedEnds(rows) => page + 1 < LastPage
    BY <1>0, <1>1, <1>2 DEF FeedEnds
  <2> HIDE DEF page, from, rows
  <2> QED  BY <1>3, <1>4, <2>1, <2>2, <2>3
<1>5. CASE site.engine = "comick" /\ ComicKFeed
  <2> DEFINE got == visit.got \o rows
             ended == \/ rows = <<>>
                      \/ site.total /\ Len(got) >= Len(shelf)
                      \/ Len(rows) < PageSize
                      \/ visit.page = MaxFeedPages
  <2>1. Fed(got, ended, FALSE) /\ ended \in BOOLEAN
    BY <1>5 DEF ComicKFeed
  <2>2. ~ended => rows # <<>>
    OBVIOUS
  <2> HIDE DEF ended, got
  <2>3. ~ended => page + 1 < LastPage
    BY <1>0, <1>1, <1>2, <2>2
  <2> HIDE DEF page, from, rows
  <2> QED  BY <1>3, <1>5, <2>1, <2>3
<1>6. CASE site.engine = "iken" /\ IkenFeed
  <2>1. ASSUME NEW list, NEW whole, IkenSettled(list, whole)
        PROVE  StillFed'
    <3>1. \A got : FeedSettled(got, FALSE) # "reading"
      BY DEF FeedSettled
    <3>2. PICK got : visit' = [visit EXCEPT !.got = got, !.status = FeedSettled(got, FALSE), !.whole = whole]
      BY <2>1 DEF IkenSettled
    <3>3. /\ visit'.kind = "feed" /\ visit'.news = visit.news /\ DOMAIN visit' = FeedFields
          /\ visit'.page = visit.page /\ visit'.status # "reading"
      BY <1>0, <3>1, <3>2 DEF FeedFields, WalkFields
    <3> QED  BY <1>0, <3>3, FeedMoves
  <2>2. ASSUME NEW embedded, visit.page = 1, visit' = [visit EXCEPT !.page = 2, !.got = embedded]
        PROVE  StillFed'
    <3>1. /\ visit'.kind = "feed" /\ visit'.news = visit.news /\ DOMAIN visit' = FeedFields
          /\ visit'.page = visit.page + 1
      BY <1>0, <2>2 DEF FeedFields, WalkFields
    <3>2. 2 < LastPage
      BY <1>0, PageOnward, LastPageHere
    <3>3. visit'.page < LastPage /\ site.engine # "madara"
      BY <1>6, <2>2, <3>1, <3>2
    <3> QED  BY <1>0, <3>1, <3>3, FeedMoves
  <2>3. \/ \E list, whole : IkenSettled(list, whole)
        \/ \E embedded : visit.page = 1 /\ visit' = [visit EXCEPT !.page = 2, !.got = embedded]
    BY <1>6 DEF IkenFeed
  <2> QED  BY <2>1, <2>2, <2>3
<1>7. CASE site.engine = "madara" /\ MadaraFeed
  <2> DEFINE order == AttemptOrder(site.mode)
             got == MadaraRows(order[visit.page])
             ended == got # <<>> \/ visit.page = Len(order)
  <2>1. Fed(got, ended, FALSE) /\ ended \in BOOLEAN
    BY <1>7 DEF MadaraFeed
  <2>2. page <= Len(order)
    BY <1>0, <1>7 DEF SitesTyped, WalkSound
  <2>3. Len(order) \in {1, 3}
    BY DEF SitesTyped, AttemptOrder, Forms
  <2>4. 3 < LastPage /\ LastPage \in Nat
    BY <1>0, PageOnward, LastPageHere
  <2>5. ~ended => page # Len(order)
    OBVIOUS
  <2> HIDE DEF ended, got, order
  <2>6. ~ended => page + 1 <= Len(order) /\ page + 1 < LastPage
    <3>1. SUFFICES ASSUME ~ended PROVE page + 1 <= Len(order) /\ page + 1 < LastPage
      OBVIOUS
    <3>2. page \in Nat /\ page # Len(order)
      BY <1>0, <2>5, <3>1
    <3>3. \A m, l \in Nat : \A n \in {1, 3} :
             m <= n /\ m # n /\ 3 < l => m + 1 <= n /\ m + 1 < l
      OBVIOUS
    <3> HIDE DEF page
    <3> QED  BY <2>2, <2>3, <2>4, <3>2, <3>3
  <2> HIDE DEF page
  <2> QED  BY <1>3, <2>1, <2>6 DEF order
<1>8. CASE \E got : Fed(got, TRUE, FALSE)
  <2>1. TRUE \in BOOLEAN
    OBVIOUS
  <2> QED  BY <1>3, <1>8, <2>1
<1>9. CASE \/ site.engine = "mangahub" /\ MangaHubFeed
           \/ site.engine = "mangathemesia" /\ ThemesiaFeed
           \/ site.engine = "keyoapp" /\ KeyoappFeed
           \/ site.engine = "mangacatalog" /\ CatalogFeed
           \/ site.engine = "weebcentral" /\ WeebCentralFeed
           \/ site.engine = "asura" /\ AsuraFeed
  BY <1>8, <1>9 DEF MangaHubFeed, ThemesiaFeed, KeyoappFeed, CatalogFeed, WeebCentralFeed, AsuraFeed
<1>10. CASE site.engine = "mangadex"
  BY <1>4, <1>10 DEF FeedStep
<1>11. CASE site.engine = "comick"
  BY <1>5, <1>11 DEF FeedStep
<1>12. CASE site.engine = "iken"
  BY <1>6, <1>12 DEF FeedStep
<1>13. CASE site.engine = "madara"
  BY <1>7, <1>13 DEF FeedStep
<1>14. CASE site.engine = "mangahub"
  BY <1>9, <1>14 DEF FeedStep
<1>15. CASE site.engine = "mangathemesia"
  BY <1>9, <1>15 DEF FeedStep
<1>16. CASE site.engine = "keyoapp"
  BY <1>9, <1>16 DEF FeedStep
<1>17. CASE site.engine = "mangacatalog"
  BY <1>9, <1>17 DEF FeedStep
<1>18. CASE site.engine = "weebcentral"
  BY <1>9, <1>18 DEF FeedStep
<1>19. CASE site.engine = "asura"
  BY <1>9, <1>19 DEF FeedStep
<1>20. site.engine \in Engines
  BY <1>0
<1> HIDE DEF page, from, rows
<1> QED  BY <1>10, <1>11, <1>12, <1>13, <1>14, <1>15, <1>16, <1>17, <1>18, <1>19, <1>20 DEF Engines

LEMMA PublishSound == ASSUME SitesTyped, Publish PROVE SitesTyped'
<1> DEFINE x == IF shelf = <<>> THEN 1 ELSE shelf[1] + 1
           one == <<x>>
           limit == Roomy + News
<1>0. /\ PageSize \in Nat \ {0} /\ MaxPublished \in Nat /\ PageSize <= MaxPublished
      /\ visit.kind \in Walks /\ News = visit.news /\ News \in Nat /\ News < PageSize
      /\ limit \in Nat /\ limit + 1 <= MaxPublished
  <2>1. visit.kind \in Walks /\ News = visit.news /\ visit.news < PageSize
    BY DEF Publish, Walks, News
  <2>2. PageSize <= MaxPublished /\ visit.news \in 0..PageSize
    BY <2>1 DEF SitesTyped, WalkSound
  <2> QED  BY <2>1, <2>2, LastPageHere DEF Roomy
<1>1. /\ shelf \in Seq(1..MaxPublished) /\ Len(shelf) \in Nat /\ Len(shelf) <= limit
      /\ \A k \in 1..Len(shelf) : shelf[k] \in 1..MaxPublished /\ shelf[k] <= limit
      /\ shelf # <<>> => 1 \in 1..Len(shelf)
  <2>1. shelf \in Seq(1..MaxPublished) /\ Len(shelf) <= limit /\ \A k \in DOMAIN shelf : shelf[k] <= limit
    BY DEF SitesTyped, ShelfSound
  <2> HIDE DEF limit
  <2>2. Len(shelf) \in Nat /\ DOMAIN shelf = 1..Len(shelf)
    BY <2>1
  <2>3. shelf # <<>> => Len(shelf) # 0
    BY <2>1
  <2>4. \A k \in 1..Len(shelf) : shelf[k] \in 1..MaxPublished
    BY <2>1, InSeq
  <2> QED  BY <2>1, <2>2, <2>3, <2>4
<1>2. x \in 1..MaxPublished /\ x <= limit + 1
  BY <1>0, <1>1
<1>3. shelf' = one \o shelf /\ UNCHANGED site /\ visit' = [visit EXCEPT !.news = @ + 1]
  BY DEF Publish
<1>4. one \in Seq(1..MaxPublished) /\ Len(one) = 1 /\ one[1] = x
  BY <1>2
<1> HIDE DEF x, one, limit
<1>5. /\ shelf' \in Seq(1..MaxPublished) /\ Len(shelf') = 1 + Len(shelf)
      /\ \A i \in 1..(1 + Len(shelf)) : shelf'[i] = IF i <= 1 THEN one[i] ELSE shelf[i - 1]
  <2>1. shelf' = one \o shelf /\ shelf \in Seq(1..MaxPublished)
    BY <1>1, <1>3
  <2>2. /\ one \o shelf \in Seq(1..MaxPublished) /\ Len(one \o shelf) = Len(one) + Len(shelf)
        /\ \A i \in 1..(Len(one) + Len(shelf)) :
              (one \o shelf)[i] = IF i <= Len(one) THEN one[i] ELSE shelf[i - Len(one)]
    BY <1>4, <2>1, ConcatProperties
  <2> QED  BY <1>4, <2>1, <2>2
<1>6. \A i \in 1..(1 + Len(shelf)) : shelf'[i] <= limit + 1
  <2> TAKE i \in 1..(1 + Len(shelf))
  <2>1. CASE i = 1
    BY <1>2, <1>4, <1>5, <2>1
  <2>2. CASE i # 1
    <3>1. i - 1 \in 1..Len(shelf) /\ ~(i <= 1)
      <4>1. Len(shelf) \in Nat
        BY <1>1
      <4> QED  BY <2>2, <4>1
    <3>2. shelf'[i] = shelf[i - 1] /\ shelf[i - 1] \in Nat /\ shelf[i - 1] <= limit
      <4>1. shelf'[i] = shelf[i - 1]
        BY <1>5, <3>1
      <4>2. shelf[i - 1] \in 1..MaxPublished /\ shelf[i - 1] <= limit
        BY <1>1, <3>1
      <4> QED  BY <4>1, <4>2
    <3> QED  BY <1>0, <3>2
  <2> QED  BY <2>1, <2>2
<1>7. /\ visit'.kind = visit.kind /\ visit'.news = visit.news + 1 /\ visit'.page = visit.page
      /\ DOMAIN visit' = DOMAIN visit /\ visit'.more = visit.more /\ visit'.status = visit.status
  <2>1. "news" \in DOMAIN visit
    BY <1>0 DEF SitesTyped, WalkSound, Walks, WalkFields, FeedFields
  <2> QED  BY <1>3, <2>1
<1>8. News' = News + 1 /\ visit'.news \in 0..PageSize
  BY <1>0, <1>7 DEF News
<1>9. ShelfSound'
  <2>1. Roomy + News' = limit + 1
    BY <1>0, <1>8 DEF limit, Roomy
  <2>2. DOMAIN shelf' = 1..(1 + Len(shelf)) /\ Len(shelf') <= limit + 1
    BY <1>0, <1>1, <1>5
  <2> QED  BY <1>5, <1>6, <2>1, <2>2 DEF ShelfSound, Roomy
<1>10. WalkSound'
  BY <1>0, <1>3, <1>7, <1>8 DEF SitesTyped, WalkSound, Walks
<1> QED  BY <1>3, <1>9, <1>10 DEF SitesTyped

LEMMA WithdrawSound == ASSUME SitesTyped, Withdraw PROVE SitesTyped'
<1> DEFINE limit == Roomy + News
           n == Len(shelf)
           T == {x \in 1..MaxPublished : x <= limit}
<1>0. /\ PageSize \in Nat \ {0} /\ MaxPublished \in Nat /\ PageSize <= MaxPublished
      /\ visit.kind \in Walks /\ News = visit.news /\ News \in Nat /\ News <= PageSize
      /\ limit \in Nat
  <2>1. visit.kind \in Walks /\ News = visit.news
    BY DEF Withdraw, Walks, News
  <2>2. PageSize <= MaxPublished /\ visit.news \in 0..PageSize
    BY <2>1 DEF SitesTyped, WalkSound
  <2> QED  BY <2>1, <2>2, LastPageHere DEF Roomy
<1>1. /\ shelf \in Seq(1..MaxPublished) /\ n \in Nat /\ n <= limit /\ DOMAIN shelf = 1..n
      /\ \A i \in 1..n : shelf[i] \in T
  <2>1. shelf \in Seq(1..MaxPublished) /\ n <= limit /\ \A i \in DOMAIN shelf : shelf[i] <= limit
    BY DEF SitesTyped, ShelfSound
  <2> HIDE DEF limit
  <2>2. n \in Nat /\ DOMAIN shelf = 1..n
    BY <2>1
  <2>3. \A i \in 1..n : shelf[i] \in 1..MaxPublished
    BY <2>1, InSeq
  <2> QED  BY <2>1, <2>2, <2>3
<1>2. PICK k \in 1..n : shelf' = RemoveAt(shelf, k)
  BY <1>1 DEF Withdraw
<1>3. UNCHANGED site /\ visit' = [visit EXCEPT !.clean = FALSE]
  BY DEF Withdraw
<1> DEFINE b == SubSeq(shelf, 1, k - 1)
           c == SubSeq(shelf, k + 1, n)
<1> HIDE DEF limit, n, T
<1>4. /\ b \in Seq(T) /\ Len(b) = k - 1
  <2>1. \A i \in 1..(k - 1) : shelf[i] \in T
    BY <1>1
  <2> QED  BY <1>1, <2>1, SubSeqProperties
<1>5. /\ c \in Seq(T) /\ Len(c) = n - k
  <2>1. \A i \in (k + 1)..n : shelf[i] \in T
    BY <1>1
  <2>2. k + 1 \in Int /\ n \in Int
    BY <1>1
  <2>3. c \in Seq(T) /\ Len(c) = IF k + 1 <= n THEN n - (k + 1) + 1 ELSE 0
    BY <2>1, <2>2, SubSeqProperties
  <2> QED  BY <1>1, <2>3
<1>6. shelf' = b \o c
  BY <1>2 DEF RemoveAt, n
<1> HIDE DEF b, c
<1>7. shelf' \in Seq(T) /\ Len(shelf') = n - 1
  <2>1. b \o c \in Seq(T) /\ Len(b \o c) = Len(b) + Len(c)
    BY <1>4, <1>5, ConcatProperties
  <2>2. n \in Nat /\ k \in 1..n
    BY <1>1
  <2> QED  BY <1>4, <1>5, <1>6, <2>1, <2>2
<1>8. /\ visit'.kind = visit.kind /\ visit'.news = visit.news /\ visit'.page = visit.page
      /\ DOMAIN visit' = DOMAIN visit /\ visit'.more = visit.more /\ visit'.status = visit.status
  BY <1>3
<1>9. News' = News
  BY <1>8 DEF News
<1>10. ShelfSound'
  <2>1. shelf' \in Seq(1..MaxPublished) /\ \A i \in DOMAIN shelf' : shelf'[i] <= limit
    <3>1. \A x \in T : x \in 1..MaxPublished /\ x <= limit
      BY DEF T
    <3>2. \A i \in DOMAIN shelf' : shelf'[i] \in T
      BY <1>7
    <3>3. shelf' \in Seq(1..MaxPublished)
      BY <1>7, <3>1, WiderSeq
    <3> QED  BY <3>1, <3>2, <3>3
  <2>2. Len(shelf') <= limit
    BY <1>0, <1>1, <1>7
  <2>3. limit = Roomy + News'
    BY <1>9 DEF limit
  <2> QED  BY <2>1, <2>2, <2>3 DEF ShelfSound, Roomy
<1>11. WalkSound'
  BY <1>0, <1>3, <1>8 DEF SitesTyped, WalkSound, Walks
<1> QED  BY <1>3, <1>10, <1>11 DEF SitesTyped

LEMMA SitesTypedNext == SitesTyped /\ [SitesNext]_siteVars => SitesTyped'
<1> SUFFICES ASSUME SitesTyped, [SitesNext]_siteVars PROVE SitesTyped'
  OBVIOUS
<1>1. CASE UNCHANGED <<site, shelf, visit>>
  BY <1>1 DEF SitesTyped, ShelfSound, WalkSound, News, Roomy
<1>2. CASE (\E a \in Asks : Ask(a) \/ RefreshKey(a) \/ AskAgain(a)) \/ KeyExpires \/ UNCHANGED siteVars
  BY <1>1, <1>2 DEF Ask, RefreshKey, AskAgain, KeyExpires, siteVars
<1> QED  BY <1>2, OpenedSound, ListPageSound, FeedStepSound, PublishSound, WithdrawSound DEF SitesNext, StillFed


LEMMA SitesTypes == SitesSpec => []SitesTypeOK
<1> DEFINE Keyed == mhub \in {"none", "stale", "fresh"}
           Ind == KeySound /\ SitesTyped /\ Keyed
<1>1. SitesInit => Keyed
  BY DEF SitesInit
<1>2. Keyed /\ [SitesNext]_siteVars => Keyed'
  BY DEF SitesNext, siteVars, OpenListing, ListPage, OpenPopular, OpenFeed, FeedStep, Publish,
         Withdraw, GetPageList, Search, Ask, RefreshKey, AskAgain, KeyExpires
<1>3. Ind => SitesTypeOK
  <2> SUFFICES ASSUME KeySound, SitesTyped, Keyed PROVE SitesTypeOK
    OBVIOUS
  <2>1. asks \in [Asks -> [at : {"idle", "renew", "again", "done", "nokey", "failed"},
                          key : {"unasked", "brought", "missed", "died"}]]
    BY DEF KeySound, AskStates
  <2>2. shelf \in Seq(1..MaxPublished)
    BY DEF SitesTyped, ShelfSound
  <2>3. visit.kind \in {"listing", "feed"} => visit.page \in 1..(MaxPublished \div PageSize + 3)
    BY DEF SitesTyped, WalkSound, Walks, LastPage
  <2> QED  BY <2>1, <2>2, <2>3 DEF SitesTypeOK
<1> HIDE DEF Keyed
<1>4. SitesInit => Ind
  BY KeySoundInit, SitesTypedInit, <1>1
<1>5. Ind /\ [SitesNext]_siteVars => Ind'
  BY KeySoundNext, SitesTypedNext, <1>2
<1> HIDE DEF Ind
<1> QED  BY <1>3, <1>4, <1>5, PTL DEF SitesSpec

-----------------------------------------------------------------------------
(* Sites: what a listing has shown.                                        *)

LEMMA LinkHasWords == Linked
<1> DEFINE chain == <<"broken", "h3 a", "a">>
           card == {"h3 a", "a"}
           there == {i \in DOMAIN chain : Parses(chain[i]) /\ chain[i] \in card}
<1>1. there = {2, 3}
  <2>1. DOMAIN chain = {1, 2, 3} /\ chain[1] = "broken" /\ chain[2] = "h3 a" /\ chain[3] = "a"
    OBVIOUS
  <2>2. "broken" \notin card /\ chain[2] \in card /\ chain[3] \in card
    OBVIOUS
  <2>3. Parses("h3 a") /\ Parses("a")
    BY DEF Parses
  <2> HIDE DEF chain, card
  <2> QED  BY <2>1, <2>2, <2>3
<1> HIDE DEF there
<1>2. Min(there) = 2
  BY <1>1 DEF Min
<1>3. FirstIn(card, chain) = chain[Min(there)]
  BY Zenon DEF FirstIn, there
<1>4. chain[2] = "h3 a"
  OBVIOUS
<1>5. Linked = (FirstIn(card, chain) = "h3 a")
  BY Zenon DEF Linked
<1> HIDE DEF chain, card
<1> QED  BY <1>2, <1>3, <1>4, <1>5

LEMMA CardsShown ==
  ASSUME site.markup \in {"theme", "skin"}, site.markup = "theme" \/ site.override = "skin"
  PROVE  Cards = shelf
<1>1. site.markup \in Widen(site.override, "theme")
  BY DEF Widen, Parses
<1> QED  BY <1>1, LinkHasWords DEF Cards

LEMMA SliceHolds ==
  ASSUME NEW T, NEW s \in Seq(T), NEW from \in Nat
  PROVE  /\ \A k \in 1..Len(s) : from < k /\ k <= from + PageSize => s[k] \in ToSet(SliceOf(s, from))
         /\ Len(SliceOf(s, from)) < PageSize => Len(s) < from + PageSize
         /\ SliceOf(s, from) = <<>> => Len(s) <= from
<1> DEFINE to == FewerOf(from + PageSize, Len(s))
           r == SliceOf(s, from)
<1>1. PageSize \in Nat \ {0} /\ Len(s) \in Nat
  BY SourceSitesAssumption
<1>2. /\ to \in Nat /\ to <= from + PageSize /\ to <= Len(s)
      /\ to = from + PageSize \/ to = Len(s)
  BY <1>1 DEF FewerOf
<1> HIDE DEF to
<1>3. /\ r \in Seq(T) /\ Len(r) = (IF from + 1 <= to THEN to - from ELSE 0)
      /\ \A i \in 1..(to - from) : r[i] = s[from + i]
  <2>1. r = SubSeq(s, from + 1, to)
    BY DEF SliceOf, to
  <2> HIDE DEF r
  <2>2. CASE from + 1 <= to
    <3>1. \A i \in (from + 1)..to : s[i] \in T
      BY <1>1, <1>2
    <3>2. from + 1 \in Int /\ to \in Int /\ to - (from + 1) + 1 = to - from
      BY <1>2
    <3>3. r \in Seq(T) /\ Len(r) = to - from /\ \A i \in 1..(to - from) : r[i] = s[from + 1 + i - 1]
      BY <2>1, <2>2, <3>1, <3>2, SubSeqProperties
    <3>4. \A i \in 1..(to - from) : from + 1 + i - 1 = from + i
      BY <1>2
    <3> QED  BY <2>2, <3>3, <3>4
  <2>3. CASE ~(from + 1 <= to)
    BY <1>1, <1>2, <2>1, <2>3, SubSeqProperties
  <2> QED  BY <2>2, <2>3
<1> HIDE DEF r
<1>4. ASSUME NEW k \in 1..Len(s), from < k, k <= from + PageSize
      PROVE  s[k] \in ToSet(r)
  <2>1. k - from \in 1..(to - from) /\ from + (k - from) = k /\ from + 1 <= to
    BY <1>1, <1>2, <1>4
  <2>2. r[k - from] = s[k] /\ k - from \in 1..Len(r)
    BY <1>3, <2>1
  <2> QED  BY <1>3, <2>2 DEF ToSet
<1>5. Len(r) < PageSize => Len(s) < from + PageSize
  BY <1>1, <1>2, <1>3
<1>6. r = <<>> => Len(s) <= from
  <2>1. r = <<>> => Len(r) = 0
    OBVIOUS
  <2> QED  BY <1>1, <1>2, <1>3, <2>1
<1> QED  BY <1>4, <1>5, <1>6 DEF r

LEMMA ReadableHolds ==
  ASSUME NEW T, NEW s \in Seq(T), NEW x \in ToSet(s), x \notin site.odd
  PROVE  x \in ToSet(Readable(s))
<1>1. PICK i \in 1..Len(s) : s[i] = x
  BY DEF ToSet
<1>2. /\ Readable(s) \in Seq(T)
      /\ \A j \in 1..Len(s) : s[j] \notin site.odd => \E k \in 1..Len(Readable(s)) : Readable(s)[k] = s[j]
  BY ReadableReads DEF ReadSoFar
<1>3. PICK k \in 1..Len(Readable(s)) : Readable(s)[k] = x
  BY <1>1, <1>2
<1> QED  BY <1>2, <1>3 DEF ToSet

\* Sites that show all they have on one page.
WholeOnOne ==
    \/ site.engine \in {"keyoapp", "mangacatalog"}
    \/ site.engine = "mangathemesia" /\ site.client

\* The cards of the site can be told and, on Weeb Central, all of them read.
Legible ==
    /\ site.markup = "theme" \/ site.override = "skin"
    /\ site.engine = "weebcentral" => site.odd = {}

InReach(k) == site.engine = "mangadex" => k <= MaxOffset

(* A page shows what stands in its part of the shelf, and where no page is *)
(* said to follow, all that stands after it.                               *)
LEMMA PageShows ==
  ASSUME SitesTyped, site.markup \in {"theme", "skin"}, Legible,
         NEW page \in Nat \ {0}, WholeOnOne => page = 1,
         NEW k \in DOMAIN shelf, shelf[k] \notin site.odd, InReach(k), Offset(page) < k,
         ListingPage(page).more => k <= Offset(page) + PageSize
  PROVE  shelf[k] \in ListingPage(page).items
<1> DEFINE from == Offset(page)
           rows == SliceOf(shelf, from)
           x == shelf[k]
           near == k <= from + PageSize
<1>0. /\ PageSize \in Nat \ {0} /\ from \in Nat /\ page * PageSize = from + PageSize
      /\ shelf \in Seq(1..MaxPublished) /\ Len(shelf) \in Nat /\ site.engine \in Engines
      /\ k \in 1..Len(shelf) /\ Cards = shelf
  BY SourceSitesAssumption, CardsShown DEF Offset, SitesTyped, ShelfSound, Legible
<1>1. /\ rows \in Seq(1..MaxPublished) /\ Len(rows) \in Nat /\ Len(rows) <= PageSize
      /\ near => x \in ToSet(rows)
      /\ Len(rows) < PageSize => Len(shelf) < from + PageSize
      /\ rows = <<>> => Len(shelf) <= from
  BY <1>0, SliceTyped, SliceHolds
<1>2. near => x \in ToSet(Readable(rows))
  BY <1>1, ReadableHolds
<1>3. x \in ToSet(shelf) /\ x \in ToSet(Readable(shelf))
  <2>1. x \in ToSet(shelf)
    BY <1>0 DEF ToSet
  <2> QED  BY <1>0, <2>1, ReadableHolds
<1>4. /\ ~near => /\ Len(shelf) > from + PageSize /\ Len(rows) = PageSize /\ rows # <<>>
                   /\ from + Len(rows) < Len(shelf)
      /\ ListingPage(page).more => near
  BY <1>0, <1>1
<1> HIDE DEF rows, x, near
<1>5. CASE site.engine = "madara"
  <2>1. ListingPage(page) = MadaraList(from)
    BY <1>0, <1>5 DEF ListingPage, MadaraListing, ListingViaLoadMore, Offset
  <2>2. MadaraList(from).items = ToSet(Readable(rows)) /\ MadaraList(from).more = (Len(shelf) > from + PageSize)
    BY <1>0, Zenon DEF MadaraList, Answer, rows
  <2>3. near
    BY <1>0, <1>4, <2>1, <2>2
  <2> QED  BY <1>2, <2>1, <2>2, <2>3 DEF x
<1>6. CASE WholeOnOne
  <2>1. ListingPage(page) \in {Answer(shelf, FALSE), Answer(Readable(shelf), FALSE)}
    <3>1. ~(page > 1) /\ Cards = shelf
      BY <1>0, <1>6
    <3> QED  BY <1>6, <3>1 DEF WholeOnOne, ListingPage, ClientSearch, KeyoappList, CatalogList, OnePage
  <2>2. \A items : Answer(items, FALSE).items = ToSet(items)
    BY DEF Answer
  <2> QED  BY <1>3, <2>1, <2>2 DEF x
<1>7. CASE site.engine = "mangathemesia" /\ ~site.client
  <2>1. ListingPage(page) = ThemesiaList(page)
    BY <1>0, <1>7 DEF ListingPage
  <2>2. ThemesiaList(page).items = ToSet(Readable(rows)) /\ ThemesiaList(page).more = (Len(shelf) > page * PageSize)
    BY <1>0, Zenon DEF ThemesiaList, Answer, rows, BrowseParam, ReadParam
  <2>3. near
    BY <1>0, <1>4, <2>1, <2>2
  <2> QED  BY <1>2, <2>1, <2>2, <2>3 DEF x
<1>8. CASE site.engine = "iken"
  <2>1. ListingPage(page) = IkenQuery(page)
    BY <1>0, <1>8 DEF ListingPage
  <2>2. IkenQuery(page).items = ToSet(Readable(rows)) /\ IkenQuery(page).more = (Len(shelf) > page * PageSize)
    BY <1>0, Zenon DEF IkenQuery, Answer, rows
  <2>3. near
    BY <1>0, <1>4, <2>1, <2>2
  <2> QED  BY <1>2, <2>1, <2>2, <2>3 DEF x
<1>9. CASE site.engine = "mangahub"
  <2>1. ListingPage(page) = MangaHubList(page)
    BY <1>0, <1>9 DEF ListingPage
  <2>2. MangaHubList(page).items = ToSet(rows) /\ MangaHubList(page).more = (Len(rows) = PageSize)
    BY <1>0, Zenon DEF MangaHubList, Answer, rows
  <2>3. near
    BY <1>0, <1>4, <2>1, <2>2
  <2> QED  BY <1>1, <2>1, <2>2, <2>3 DEF x
<1>10. CASE site.engine = "comick"
  <2>1. ListingPage(page) = ComicKList(page)
    BY <1>0, <1>10 DEF ListingPage
  <2>2. ComicKList(page).items = ToSet(rows) /\ ComicKList(page).more = (Len(rows) >= PageSize)
    BY <1>0, Zenon DEF ComicKList, Answer, rows
  <2>3. ~near => Len(rows) >= PageSize
    BY <1>0, <1>1, <1>4
  <2>4. near
    BY <1>4, <2>1, <2>2, <2>3, Zenon
  <2> QED  BY <1>1, <2>1, <2>2, <2>4 DEF x
<1>11. CASE site.engine = "weebcentral"
  <2>1. ListingPage(page) = WeebCentralList(page)
    BY <1>0, <1>11 DEF ListingPage
  <2>2. WeebCentralList(page).items = ToSet(Readable(rows)) /\ WeebCentralList(page).more = (Len(Readable(rows)) >= PageSize)
    BY <1>0, Zenon DEF WeebCentralList, Answer, rows
  <2>3. Len(Readable(rows)) = Len(rows)
    BY <1>1, <1>11, ReadableReads DEF ReadSoFar, Legible
  <2>4. ~near => Len(Readable(rows)) >= PageSize
    BY <1>0, <1>1, <1>4, <2>3
  <2>5. near
    BY <1>4, <2>1, <2>2, <2>4, Zenon
  <2> QED  BY <1>2, <2>1, <2>2, <2>5 DEF x
<1>12. CASE site.engine = "mangadex"
  <2> DEFINE end == FewerOf(Len(shelf), MaxOffset)
  <2>1. k <= MaxOffset /\ MaxOffset \in Nat /\ ~(from >= MaxOffset)
    BY <1>0, <1>12, SourceSitesAssumption DEF InReach
  <2>2. k <= end
    BY <1>0, <2>1 DEF FewerOf
  <2>3. ListingPage(page) = MangaDexList(page)
    BY <1>12 DEF ListingPage
  <2>4. MangaDexList(page) = Answer(rows, from + PageSize < end)
    BY <2>1, Zenon DEF MangaDexList, rows
  <2>5. Answer(rows, from + PageSize < end).items = ToSet(rows)
        /\ Answer(rows, from + PageSize < end).more = (from + PageSize < end)
    BY Zenon DEF Answer
  <2>6. ~near => from + PageSize < end
    <3>1. end \in Nat
      BY <1>0, <2>1 DEF FewerOf
    <3> HIDE DEF end
    <3> QED  BY <1>0, <2>2, <3>1 DEF near
  <2> HIDE DEF end
  <2>7. near
    BY <1>4, <2>3, <2>4, <2>5, <2>6
  <2> QED  BY <1>1, <2>3, <2>4, <2>5, <2>7 DEF x
<1>13. CASE site.engine = "asura"
  <2> DEFINE more == IF site.total THEN from + Len(rows) < Len(shelf) ELSE rows # <<>>
  <2>1. ListingPage(page) = AsuraList(page)
    BY <1>13 DEF ListingPage
  <2>2. AsuraList(page).items = ToSet(rows) /\ AsuraList(page).more = more
    BY Zenon DEF AsuraList, Answer, rows
  <2>3. ~near => more
    BY <1>4
  <2> HIDE DEF more
  <2>4. near
    BY <1>4, <2>1, <2>2, <2>3, Zenon
  <2> QED  BY <1>1, <2>1, <2>2, <2>4 DEF x
<1> QED  BY <1>0, <1>5, <1>6, <1>7, <1>8, <1>9, <1>10, <1>11, <1>12, <1>13
         DEF Engines, WholeOnOne, x

(* Until something is taken away, the first of a shelf is its newest, what *)
(* was there when a listing was opened is there still, and what of it the  *)
(* pages asked for stood before, or all of it once none follows, is shown. *)
NewestFirst == \A k \in DOMAIN shelf : shelf[k] <= shelf[1]
StillThere == \A x \in visit.from : \E k \in DOMAIN shelf : shelf[k] = x
PassedIsShown ==
    \A k \in DOMAIN shelf :
        shelf[k] \in visit.from \ site.odd /\ InReach(k) /\ (visit.more => k <= Offset(visit.page))
            => shelf[k] \in visit.got

ShownSound ==
    /\ site.markup \in {"theme", "skin"}
    /\ visit.kind = "none" => NewestFirst
    /\ visit.kind = "listing" =>
          /\ visit.clean => NewestFirst /\ StillThere /\ (Legible => PassedIsShown)
          /\ WholeOnOne /\ visit.more => visit.page = 1
    /\ PopularIsNotEmpty

LEMMA ShownSoundInit == SitesInit => ShownSound
<1> SUFFICES ASSUME SitesInit PROVE ShownSound
  OBVIOUS
<1>1. site.markup \in {"theme", "skin"} /\ visit.kind = "none"
  BY DEF SitesInit, NoVisit
<1>2. PICK n \in 0..(MaxPublished - PageSize) : shelf = FirstOnes(n)
  BY DEF SitesInit
<1>3. n \in Nat
  BY <1>2, SourceSitesAssumption
<1> DEFINE s == [k \in 1..n |-> k]
<1>4. s \in Seq(Nat) /\ Len(s) = n
  BY <1>3
<1>5. shelf = [i \in 1..n |-> s[(n - i) + 1]]
  BY <1>2, <1>4 DEF FirstOnes, Reverse
<1>6. \A i \in 1..n : (n - i) + 1 \in 1..n /\ s[(n - i) + 1] = (n - i) + 1 /\ (n - i) + 1 <= n /\ 1 \in 1..n
  BY <1>3
<1> HIDE DEF s
<1>7. \A i \in 1..n : shelf[i] = (n - i) + 1 /\ shelf[i] <= n /\ 1 \in 1..n
  BY <1>5, <1>6
<1>8. NewestFirst
  <2>1. \A i \in 1..n : shelf[1] = (n - 1) + 1 /\ shelf[i] <= n
    BY <1>7
  <2>2. (n - 1) + 1 = n /\ DOMAIN shelf = 1..n
    BY <1>3, <1>5
  <2> QED  BY <2>1, <2>2 DEF NewestFirst
<1> QED  BY <1>1, <1>8 DEF ShownSound, PopularIsNotEmpty

LEMMA OpenListingShows == ASSUME SitesTyped, ShownSound, OpenListing PROVE ShownSound'
<1>1. /\ UNCHANGED <<site, shelf>> /\ visit.kind = "none"
      /\ visit'.kind = "listing" /\ visit'.from = ToSet(shelf) /\ visit'.page = 1 /\ visit'.more
  BY DEF OpenListing, NoVisit
<1>2. NewestFirst'
  BY <1>1 DEF ShownSound, NewestFirst
<1>3. StillThere'
  BY <1>1 DEF StillThere, ToSet
<1>4. PassedIsShown'
  <2>1. Offset(visit'.page) = 0
    BY <1>1, SourceSitesAssumption DEF Offset
  <2>2. \A k \in DOMAIN shelf' : ~(k <= 0)
    BY <1>1 DEF SitesTyped, ShelfSound
  <2> QED  BY <1>1, <2>1, <2>2 DEF PassedIsShown
<1>5. site'.markup \in {"theme", "skin"} /\ PopularIsNotEmpty'
  BY <1>1 DEF ShownSound, PopularIsNotEmpty
<1> QED  BY <1>1, <1>2, <1>3, <1>4, <1>5 DEF ShownSound

LEMMA OpenPopularShows == ASSUME SitesTyped, ShownSound, OpenPopular PROVE ShownSound'
<1>1. PICK featured \in {<<>>, SliceOf(shelf, 0)} :
         visit' = [kind |-> "popular", got |-> ToSet(KeyoappPopular(featured))]
  BY DEF OpenPopular
<1>2. UNCHANGED <<site, shelf>> /\ shelf \in Seq(1..MaxPublished)
  BY DEF OpenPopular, SitesTyped, ShelfSound
<1>3. visit'.kind = "popular" /\ visit'.got = ToSet(KeyoappPopular(featured))
  BY <1>1
<1>4. ASSUME site.markup = "theme", visit'.got = {} PROVE Readable(shelf) = <<>>
  <2>1. featured \in Seq(1..MaxPublished)
    <3>1. <<>> \in Seq(1..MaxPublished) /\ SliceOf(shelf, 0) \in Seq(1..MaxPublished)
      BY <1>2, SliceTyped
    <3> QED  BY <1>1, <3>1
  <2>2. Readable(featured) \in Seq(1..MaxPublished) /\ Readable(shelf) \in Seq(1..MaxPublished)
    BY <1>2, <2>1, ReadableReads DEF ReadSoFar
  <2>3. \A s \in Seq(1..MaxPublished) : ToSet(s) = {} => s = <<>>
    BY DEF ToSet
  <2>4. Cards = shelf
    BY <1>4, CardsShown
  <2>5. Readable(featured) = <<>>
    <3>1. Readable(featured) # <<>> => KeyoappPopular(featured) = Readable(featured)
      BY DEF KeyoappPopular
    <3> QED  BY <1>3, <1>4, <2>2, <2>3, <3>1
  <2>6. KeyoappPopular(featured) = Readable(shelf)
    BY <2>4, <2>5 DEF KeyoappPopular
  <2>7. ToSet(Readable(shelf)) = {}
    BY <1>3, <1>4, <2>6
  <2> QED  BY <2>2, <2>3, <2>7
<1>5. PopularIsNotEmpty'
  <2>1. Readable(shelf)' = Readable(shelf)
    BY <1>2 DEF Readable, FoldLeft, MapThenFoldSet
  <2> QED  BY <1>2, <1>4, <2>1 DEF PopularIsNotEmpty
<1> QED  BY <1>2, <1>3, <1>5 DEF ShownSound

LEMMA WholeEnds == ASSUME WholeOnOne, NEW page PROVE ~ListingPage(page).more
<1>1. \A items : ~Answer(items, FALSE).more
  BY DEF Answer
<1>2. \E items : ListingPage(page) = Answer(items, FALSE)
  BY DEF WholeOnOne, ListingPage, ClientSearch, KeyoappList, CatalogList, OnePage
<1> QED  BY <1>1, <1>2

LEMMA NextOffset ==
  ASSUME NEW n \in Nat \ {0} PROVE Offset(n + 1) = Offset(n) + PageSize /\ Offset(n) \in Nat
<1>1. \A m, p \in Nat : (m + 1) * p = m * p + p /\ m * p \in Nat
  OBVIOUS
<1>2. n - 1 \in Nat /\ (n + 1) - 1 = (n - 1) + 1 /\ PageSize \in Nat
  BY SourceSitesAssumption
<1>3. ((n - 1) + 1) * PageSize = (n - 1) * PageSize + PageSize /\ (n - 1) * PageSize \in Nat
  BY <1>1, <1>2
<1> QED  BY <1>2, <1>3 DEF Offset

LEMMA ListPageShows == ASSUME SitesTyped, ShownSound, ListPage PROVE ShownSound'
<1> DEFINE page == visit.page
           answer == ListingPage(page)
<1>1. /\ visit.kind = "listing" /\ visit.more /\ DOMAIN visit = WalkFields \cup {"more"}
      /\ page \in Nat \ {0} /\ (WholeOnOne => page = 1) /\ UNCHANGED <<site, shelf>>
  BY LastPageHere DEF ListPage, SitesTyped, WalkSound, Walks, ShownSound
<1>2. visit' = [visit EXCEPT !.page = page + 1, !.got = @ \cup answer.items, !.more = answer.more]
  BY DEF ListPage
<1> HIDE DEF answer
<1>3. /\ visit'.kind = "listing" /\ visit'.page = page + 1 /\ visit'.got = visit.got \cup answer.items
      /\ visit'.more = answer.more /\ visit'.from = visit.from /\ visit'.clean = visit.clean
  BY <1>1, <1>2 DEF WalkFields
<1>4. ASSUME visit.clean PROVE NewestFirst' /\ StillThere'
  BY <1>1, <1>3, <1>4 DEF ShownSound, NewestFirst, StillThere
<1>5. ASSUME visit.clean, Legible PROVE PassedIsShown'
  <2>1. SUFFICES ASSUME NEW k \in DOMAIN shelf', shelf'[k] \in visit'.from \ site'.odd, InReach(k)',
                        visit'.more => k <= Offset(visit'.page)
                 PROVE  shelf'[k] \in visit'.got
    BY DEF PassedIsShown
  <2>2. k \in DOMAIN shelf /\ shelf[k] \in visit.from \ site.odd /\ InReach(k)
    BY <1>1, <1>3, <2>1 DEF InReach
  <2>3. answer.more => k <= Offset(page + 1)
    <3>1. Offset(visit'.page) = Offset(page + 1)
      BY <1>3
    <3> QED  BY <1>3, <2>1, <3>1, Zenon
  <2>4. Offset(page + 1) = Offset(page) + PageSize /\ Offset(page) \in Nat /\ k \in Nat
    <3>1. k \in Nat
      BY <2>2 DEF SitesTyped, ShelfSound
    <3> QED  BY <1>1, <3>1, NextOffset
  <2>5. shelf[k] \in visit.got \cup answer.items
    <3>1. CASE k <= Offset(page)
      BY <1>1, <1>5, <2>2, <3>1 DEF ShownSound, PassedIsShown
    <3>2. CASE Offset(page) < k
      <4>1. site.markup \in {"theme", "skin"} /\ (ListingPage(page).more => k <= Offset(page) + PageSize)
        BY <2>3, <2>4 DEF ShownSound, answer
      <4> QED  BY <1>1, <1>5, <2>2, <3>2, <4>1, PageShows DEF answer
    <3> QED  BY <2>4, <3>1, <3>2
  <2> QED  BY <1>1, <1>3, <2>5
<1>6. Legible' = Legible /\ WholeOnOne' = WholeOnOne
  BY <1>1 DEF Legible, WholeOnOne
<1>7. WholeOnOne => ~visit'.more
  BY <1>3, WholeEnds DEF answer
<1>8. site'.markup \in {"theme", "skin"} /\ PopularIsNotEmpty'
  BY <1>1, <1>3 DEF ShownSound, PopularIsNotEmpty
<1> QED  BY <1>3, <1>4, <1>5, <1>6, <1>7, <1>8 DEF ShownSound

LEMMA PublishShows == ASSUME SitesTyped, ShownSound, Publish PROVE ShownSound'
<1> DEFINE x == IF shelf = <<>> THEN 1 ELSE shelf[1] + 1
           one == <<x>>
<1>1. /\ visit.kind \in Walks /\ UNCHANGED site /\ shelf' = one \o shelf
      /\ visit' = [visit EXCEPT !.news = @ + 1]
  BY DEF Publish, Walks
<1>2. /\ visit'.kind = visit.kind /\ visit'.page = visit.page /\ visit'.got = visit.got
      /\ visit'.more = visit.more /\ visit'.from = visit.from /\ visit'.clean = visit.clean
  BY <1>1 DEF SitesTyped, WalkSound, Walks, WalkFields, FeedFields
<1>3. /\ shelf \in Seq(1..MaxPublished) /\ Len(shelf) \in Nat /\ DOMAIN shelf = 1..Len(shelf)
      /\ \A k \in DOMAIN shelf : shelf[k] \in Nat /\ 1 \in DOMAIN shelf /\ shelf # <<>>
      /\ shelf # <<>> => 1 \in DOMAIN shelf
  <2>1. shelf \in Seq(1..MaxPublished)
    BY DEF SitesTyped, ShelfSound
  <2>2. Len(shelf) \in Nat /\ DOMAIN shelf = 1..Len(shelf) /\ (shelf # <<>> => Len(shelf) # 0)
    BY <2>1
  <2>3. \A k \in 1..Len(shelf) : shelf[k] \in 1..MaxPublished
    BY <2>1, InSeq
  <2>4. \A k \in 1..Len(shelf) : shelf # <<>> /\ 1 \in 1..Len(shelf)
    BY <2>2
  <2>5. shelf # <<>> => 1 \in 1..Len(shelf)
    BY <2>2
  <2> QED  BY <2>1, <2>2, <2>3, <2>4, <2>5
<1>4. one \in Seq(Nat) /\ Len(one) = 1 /\ one[1] = x /\ x \in Nat
  <2>1. shelf # <<>> => shelf[1] \in Nat
    BY <1>3
  <2> QED  BY <2>1
<1> HIDE DEF one
<1>5. /\ DOMAIN shelf' = 1..(1 + Len(shelf)) /\ shelf'[1] = x
      /\ \A i \in 1..(1 + Len(shelf)) : i # 1 => i - 1 \in DOMAIN shelf /\ shelf'[i] = shelf[i - 1]
  <2>1. shelf \in Seq(Nat)
    BY <1>3, SourceSitesAssumption
  <2>2. /\ one \o shelf \in Seq(Nat) /\ Len(one \o shelf) = Len(one) + Len(shelf)
        /\ \A i \in 1..(Len(one) + Len(shelf)) :
              (one \o shelf)[i] = IF i <= Len(one) THEN one[i] ELSE shelf[i - Len(one)]
    BY <1>4, <2>1, ConcatProperties
  <2> QED  BY <1>1, <1>3, <1>4, <2>2
<1>6. CASE visit.kind = "listing" /\ visit.clean
  <2>1. NewestFirst /\ StillThere /\ (Legible => PassedIsShown)
    BY <1>6 DEF ShownSound
  <2>2. \A k \in DOMAIN shelf : shelf[k] \in Nat /\ shelf[k] < x
    <3> TAKE k \in DOMAIN shelf
    <3>1. shelf # <<>> /\ shelf[k] <= shelf[1] /\ shelf[k] \in Nat /\ 1 \in DOMAIN shelf
      BY <1>3, <2>1 DEF NewestFirst
    <3>2. shelf[1] \in Nat
      BY <1>3, <3>1
    <3> QED  BY <3>1, <3>2
  <2> HIDE DEF x
  <2>3. x \notin visit.from
    BY <1>4, <2>1, <2>2 DEF StillThere
  <2>4. NewestFirst'
    <3> SUFFICES ASSUME NEW i \in 1..(1 + Len(shelf)) PROVE shelf'[i] <= x
      BY <1>5 DEF NewestFirst
    <3>1. CASE i = 1
      BY <1>4, <1>5, <3>1
    <3>2. CASE i # 1
      BY <1>4, <1>5, <2>2, <3>2
    <3> QED  BY <3>1, <3>2
  <2>5. StillThere'
    <3> SUFFICES ASSUME NEW y \in visit.from PROVE \E i \in DOMAIN shelf' : shelf'[i] = y
      BY <1>2 DEF StillThere
    <3>1. PICK k \in DOMAIN shelf : shelf[k] = y
      BY <2>1 DEF StillThere
    <3>2. k + 1 \in 1..(1 + Len(shelf)) /\ k + 1 # 1 /\ (k + 1) - 1 = k
      BY <1>3
    <3> QED  BY <1>5, <3>1, <3>2
  <2>6. ASSUME Legible PROVE PassedIsShown'
    <3> SUFFICES ASSUME NEW i \in 1..(1 + Len(shelf)), shelf'[i] \in visit.from \ site.odd, InReach(i),
                        visit.more => i <= Offset(visit.page)
                 PROVE  shelf'[i] \in visit.got
      BY <1>1, <1>2, <1>5 DEF PassedIsShown, InReach, Offset
    <3>1. i # 1
      BY <1>5, <2>3
    <3>2. i - 1 \in DOMAIN shelf /\ shelf'[i] = shelf[i - 1]
      BY <1>5, <3>1
    <3>3. InReach(i - 1)
      BY SourceSitesAssumption DEF InReach
    <3>4. visit.more => i - 1 <= Offset(visit.page)
      <4>1. visit.page \in Nat
        BY <1>6, LastPageHere DEF SitesTyped, WalkSound, Walks
      <4>2. Offset(visit.page) \in Int
        BY <4>1, SourceSitesAssumption DEF Offset
      <4> HIDE DEF Offset
      <4> QED  BY <4>2
    <3> QED  BY <2>1, <2>6, <3>2, <3>3, <3>4 DEF PassedIsShown
  <2>7. Legible' = Legible
    BY <1>1 DEF Legible
  <2> QED  BY <1>1, <1>2, <1>6, <2>4, <2>5, <2>6, <2>7 DEF ShownSound, PopularIsNotEmpty, WholeOnOne
<1>7. CASE ~(visit.kind = "listing" /\ visit.clean)
  BY <1>1, <1>2, <1>7 DEF ShownSound, PopularIsNotEmpty, WholeOnOne, Walks
<1> QED  BY <1>6, <1>7

LEMMA WithdrawShows == ASSUME SitesTyped, ShownSound, Withdraw PROVE ShownSound'
<1>1. visit.kind \in Walks /\ UNCHANGED site /\ visit' = [visit EXCEPT !.clean = FALSE]
  BY DEF Withdraw, Walks
<1>2. "clean" \in DOMAIN visit
  BY <1>1 DEF SitesTyped, WalkSound, Walks, WalkFields, FeedFields
<1>3. /\ visit'.kind = visit.kind /\ visit'.page = visit.page /\ visit'.more = visit.more /\ ~visit'.clean
  BY <1>1, <1>2
<1> QED  BY <1>1, <1>3 DEF ShownSound, PopularIsNotEmpty, WholeOnOne, Walks

LEMMA ShownSoundNext == SitesTyped /\ ShownSound /\ [SitesNext]_siteVars => ShownSound'
<1> SUFFICES ASSUME SitesTyped, ShownSound, [SitesNext]_siteVars PROVE ShownSound'
  OBVIOUS
<1>1. CASE UNCHANGED <<site, shelf, visit>>
  <2>1. NewestFirst' = NewestFirst /\ StillThere' = StillThere /\ WholeOnOne' = WholeOnOne
    BY <1>1, Zenon DEF NewestFirst, StillThere, WholeOnOne
  <2>2. PassedIsShown' = PassedIsShown /\ Legible' = Legible
    BY <1>1, Zenon DEF PassedIsShown, InReach, Offset, Legible
  <2>3. PopularIsNotEmpty' = PopularIsNotEmpty
    <3>1. Readable(shelf)' = Readable(shelf)
      BY <1>1 DEF Readable, FoldLeft, MapThenFoldSet
    <3> QED  BY <1>1, <3>1 DEF PopularIsNotEmpty
  <2> QED  BY <1>1, <2>1, <2>2, <2>3, Zenon DEF ShownSound
<1>2. CASE (\E a \in Asks : Ask(a) \/ RefreshKey(a) \/ AskAgain(a)) \/ KeyExpires \/ UNCHANGED siteVars
  BY <1>1, <1>2 DEF Ask, RefreshKey, AskAgain, KeyExpires, siteVars
<1>3. ASSUME UNCHANGED site, visit'.kind \in {"feed", "pages", "search"} PROVE ShownSound'
  BY <1>3 DEF ShownSound, PopularIsNotEmpty
<1>4. CASE OpenFeed \/ GetPageList \/ Search
  <2>1. UNCHANGED site
    BY <1>4 DEF OpenFeed, GetPageList, Search
  <2>2. OpenFeed => visit'.kind = "feed"
    BY DEF OpenFeed
  <2>3. GetPageList => visit'.kind = "pages"
    BY DEF GetPageList
  <2>4. Search => visit'.kind = "search"
    BY DEF Search
  <2> QED  BY <1>3, <1>4, <2>1, <2>2, <2>3, <2>4
<1>5. CASE FeedStep
  <2>1. UNCHANGED site
    BY <1>5 DEF FeedStep
  <2>2. visit'.kind = "feed"
    BY <1>5, FeedStepSound DEF StillFed
  <2> QED  BY <1>3, <2>1, <2>2
<1> QED  BY <1>2, <1>4, <1>5, OpenListingShows, OpenPopularShows, ListPageShows, PublishShows,
            WithdrawShows DEF SitesNext

LEMMA SitesTypedAlways == SitesSpec => []SitesTyped
BY SitesTypedInit, SitesTypedNext, PTL DEF SitesSpec

(* A listing read to its end has shown every title that was there when it  *)
(* was opened and is within reach, and a Popular tab is empty only on a    *)
(* site that has nothing, on every engine, for any size of page, offset    *)
(* and shelf, whatever is published meanwhile (sources/themes, sites).     *)
THEOREM ListingsShowAll == SitesSpec => [](ListingIsWhole /\ PopularIsNotEmpty)
<1>1. ShownSound => ListingIsWhole /\ PopularIsNotEmpty
  <2> SUFFICES ASSUME ShownSound, visit.kind = "listing", ~visit.more, visit.clean, Legible,
                      NEW x \in visit.from \ site.odd, site.engine = "mangadex" => Within(MaxOffset, x)
               PROVE  x \in visit.got
    BY DEF ListingIsWhole, Legible, ShownSound
  <2>1. StillThere /\ PassedIsShown
    BY DEF ShownSound
  <2>2. \E k \in DOMAIN shelf : shelf[k] = x /\ InReach(k)
    BY <2>1 DEF StillThere, InReach, Within
  <2> QED  BY <2>1, <2>2 DEF PassedIsShown
<1> QED  BY <1>1, ShownSoundInit, ShownSoundNext, SitesTypedAlways, PTL DEF SitesSpec

-----------------------------------------------------------------------------
(* Backups as files.                                                       *)

(* What is read came of one of the ways to read, and only an archive is a file. *)
LEMMA ReadOrRefused ==
  /\ NoFile.kind = "nothing" /\ Refused.kind = "refused"
  /\ \A value : Read(value).kind = "read"
BY DEF NoFile, Refused, Read

LEMMA ArchivesTypedNext == ArchivesTypeOK /\ [ArchivesNext]_archiveVars => ArchivesTypeOK'
<1> SUFFICES ASSUME ArchivesTypeOK, [ArchivesNext]_archiveVars PROVE ArchivesTypeOK'
  OBVIOUS
<1>1. CASE UNCHANGED archiveVars
  BY <1>1 DEF archiveVars, ArchivesTypeOK
<1>2. ASSUME source = NoFile, UNCHANGED file, outcome'.kind \in {"read", "refused"},
             source'.kind \in {"document", "tachibk", "validate", "upload"}
      PROVE  ArchivesTypeOK'
  BY <1>2, ReadOrRefused DEF ArchivesTypeOK
<1>3. CASE WriteBackupZip
  BY <1>3 DEF WriteBackupZip, ArchivesTypeOK
<1>4. CASE HarmFile
  <2>1. source.kind = "archive" /\ UNCHANGED outcome
    BY <1>4 DEF HarmFile
  <2>2. \E harm : source' = [source EXCEPT !.harm = harm]
    BY <1>4 DEF HarmFile
  <2>3. source'.kind = source.kind
    BY <2>2
  <2> QED  BY <2>1, <2>3 DEF ArchivesTypeOK
<1>5. CASE OpenArchive
  <2>1. outcome' = ReadBackup(file) /\ UNCHANGED <<source, file>>
    BY <1>5 DEF OpenArchive
  <2>2. ReadBackup(file).kind \in {"read", "refused"}
    BY ReadOrRefused DEF ReadBackup, ReadBackupZip
  <2> QED  BY <2>1, <2>2 DEF ArchivesTypeOK
<1>6. CASE OpenDocument
  <2>1. \A raw : ParseDocument(raw).kind \in {"read", "refused"}
    BY ReadOrRefused DEF ParseDocument
  <2>2. source = NoFile /\ UNCHANGED file /\ source'.kind = "document"
        /\ \E raw : outcome' = ParseDocument(raw)
    BY <1>6 DEF OpenDocument
  <2> QED  BY <1>2, <2>1, <2>2
<1>7. CASE OpenTachibk
  <2>1. source = NoFile /\ UNCHANGED file /\ source'.kind = "tachibk"
        /\ \E value : outcome' = Read(value)
    BY <1>7 DEF OpenTachibk
  <2> QED  BY <1>2, <2>1, ReadOrRefused
<1>8. CASE ValidateBackup
  <2>1. source = NoFile /\ UNCHANGED file /\ source'.kind = "validate"
        /\ \E value : outcome' = Read(value)
    BY <1>8 DEF ValidateBackup
  <2> QED  BY <1>2, <2>1, ReadOrRefused
<1>9. CASE UploadGraphQL
  <2>1. \A cells, path : ReadMultipartRequest(cells, path).kind \in {"read", "refused"}
    BY ReadOrRefused DEF ReadMultipartRequest
  <2>2. source = NoFile /\ UNCHANGED file /\ source'.kind = "upload"
        /\ \E cells, path : outcome' = ReadMultipartRequest(cells, path)
    BY <1>9 DEF UploadGraphQL
  <2> QED  BY <1>2, <2>1, <2>2
<1> QED  BY <1>1, <1>3, <1>4, <1>5, <1>6, <1>7, <1>8, <1>9 DEF ArchivesNext

LEMMA ArchivesTypes == ArchivesSpec => []ArchivesTypeOK
<1>1. ArchivesInit => ArchivesTypeOK
  BY DEF ArchivesInit, NoFile, ArchivesTypeOK
<1> QED  BY <1>1, ArchivesTypedNext, PTL DEF ArchivesSpec

-----------------------------------------------------------------------------
(* The parts together.                                                     *)

(* Each part moves by its own steps or not at all, so that what it keeps   *)
(* alone it keeps among the others.                                        *)
LEMMA PartsStart ==
  ServerInit => /\ HttpInit /\ LibraryInit /\ DetailsInit /\ SessionsInit
                /\ RegistryInit /\ IconsInit /\ UpdateInit /\ DatabaseInit
                /\ ScheduleInit /\ SitesInit /\ ServicesInit /\ ListingsInit
                /\ ArchivesInit
BY DEF ServerInit

LEMMA PartsMove ==
  [ServerNext]_serverVars =>
      /\ [HttpNext]_httpVars /\ [LibraryNext]_libraryVars
      /\ [DetailsNext]_detailsVars /\ [SessionsNext]_sessionVars
      /\ [RegistryNext]_registryVars /\ [IconsNext]_iconVars
      /\ [UpdateNext]_updateVars /\ [DatabaseNext]_dbVars
      /\ [ScheduleNext]_scheduleVars /\ [SitesNext]_siteVars
      /\ [ServicesNext]_serviceVars /\ [ListingsNext]_listingVars
      /\ [ArchivesNext]_archiveVars
<1> SUFFICES ASSUME [ServerNext]_serverVars
             PROVE  /\ [HttpNext]_httpVars /\ [LibraryNext]_libraryVars
                    /\ [DetailsNext]_detailsVars /\ [SessionsNext]_sessionVars
                    /\ [RegistryNext]_registryVars /\ [IconsNext]_iconVars
                    /\ [UpdateNext]_updateVars /\ [DatabaseNext]_dbVars
                    /\ [ScheduleNext]_scheduleVars /\ [SitesNext]_siteVars
                    /\ [ServicesNext]_serviceVars /\ [ListingsNext]_listingVars
                    /\ [ArchivesNext]_archiveVars
  OBVIOUS
<1>1. CASE UNCHANGED serverVars
  BY <1>1 DEF serverVars
<1>2. CASE ServerNext
  <2>1. [HttpNext]_httpVars
    BY <1>2 DEF ServerNext
  <2>2. [LibraryNext]_libraryVars
    BY <1>2 DEF ServerNext
  <2>3. [DetailsNext]_detailsVars
    BY <1>2 DEF ServerNext
  <2>4. [SessionsNext]_sessionVars
    BY <1>2 DEF ServerNext
  <2>5. [RegistryNext]_registryVars
    BY <1>2 DEF ServerNext
  <2>6. [IconsNext]_iconVars
    BY <1>2 DEF ServerNext
  <2>7. [UpdateNext]_updateVars
    BY <1>2 DEF ServerNext
  <2>8. [DatabaseNext]_dbVars
    BY <1>2 DEF ServerNext
  <2>9. [ScheduleNext]_scheduleVars
    BY <1>2 DEF ServerNext
  <2>10. [SitesNext]_siteVars
    BY <1>2 DEF ServerNext
  <2>11. [ServicesNext]_serviceVars
    BY <1>2 DEF ServerNext
  <2>12. [ListingsNext]_listingVars
    BY <1>2 DEF ServerNext
  <2>13. [ArchivesNext]_archiveVars
    BY <1>2 DEF ServerNext
  <2> QED  BY <2>1, <2>2, <2>3, <2>4, <2>5, <2>6, <2>7, <2>8, <2>9, <2>10, <2>11, <2>12, <2>13
<1> QED  BY <1>1, <1>2

(* Whatever the server does, what each part keeps is of its kind: numbers  *)
(* within their bounds, rows of titles there are, no more permits, pages   *)
(* or waits than are allowed, for any values of the constants.             *)
THEOREM ServerStaysTyped == ServerSpec => []ServerTypesOK
<1>1. ServerSpec => /\ HttpSpec /\ LibrarySpec /\ DetailsSpec /\ SessionsSpec
                    /\ RegistrySpec /\ IconsSpec /\ ScheduleSpec /\ UpdateSpec
                    /\ DatabaseSpec /\ SitesSpec /\ ServicesSpec /\ ArchivesSpec
                    /\ ListingsSpec
  BY PartsStart, PartsMove, PTL
     DEF ServerSpec, HttpSpec, LibrarySpec, DetailsSpec, SessionsSpec, RegistrySpec, IconsSpec,
         ScheduleSpec, UpdateSpec, DatabaseSpec, SitesSpec, ServicesSpec, ArchivesSpec, ListingsSpec
<1>2. RegistrySound => RegistryTypeOK
  BY DEF RegistrySound
<1>3. ScheduleSound => ScheduleTypeOK
  BY DEF ScheduleSound, ScheduleTypeOK
<1>4. ListingsSound => ListingsTypeOK
  <2> SUFFICES ASSUME ListingsSound PROVE ListingsTypeOK
    OBVIOUS
  <2>1. /\ query.of \in {"nothing", "chapters", "mangas"} /\ late \subseteq Catalogues
        /\ stored \in [Listable -> TitleRow]
    BY DEF ListingsSound
  <2>2. CASE browsing = NoCall
    BY <2>1, <2>2 DEF ListingsTypeOK, NoCall
  <2>3. CASE BrowsingSound(browsing)
    BY <2>1, <2>3 DEF ListingsTypeOK, BrowsingSound, BrowsingShape
  <2> QED  BY <2>2, <2>3 DEF ListingsSound
<1>5. HttpTypeOK /\ LibraryTypeOK /\ DetailsTypeOK /\ SessionsTypeOK /\ RegistryTypeOK
      /\ IconsTypeOK /\ ScheduleTypeOK /\ UpdateTypeOK /\ DatabaseTypeOK /\ SitesTypeOK
      /\ ServicesTypeOK /\ ArchivesTypeOK /\ ListingsTypeOK => ServerTypesOK
  BY DEF ServerTypesOK
<1> QED  BY <1>1, <1>2, <1>3, <1>4, <1>5, HttpTypesKept, LibraryHoldsTogether, DetailsTypes,
            SessionsTypes, RegistrySoundAlways, IconsTypes, ScheduleSoundAlways, UpdateTypes,
            DatabaseTypes, SitesTypes, ServicesTypes, ArchivesTypes, ListingsStaySound, PTL

(* The categories of an account are in order, its bindings name the titles *)
(* they were made for, its sign-ins are its own and its calls to a service *)
(* come to what they say, in the server as a whole, for any titles,        *)
(* archives, size of a batch, tabs and attempts (category.ts, apply.ts,    *)
(* track.ts, oauth.ts, anilist.ts, myanimelist.ts).                        *)
THEOREM AccountStaysSound == ServerSpec => []AccountIsSound
<1>1. ServerSpec => LibrarySpec /\ ServicesSpec
  BY PartsStart, PartsMove, PTL DEF ServerSpec, LibrarySpec, ServicesSpec
<1>2. CategoriesInOrder /\ BindingsAreRight /\ ServicesAreUsed => AccountIsSound
  BY DEF AccountIsSound
<1> QED  BY <1>1, <1>2, CategoriesStandInOrder, BindingsStayRight, ServicesWellUsed, PTL

(* A request finds its host open, an icon is fetched once, a key that died *)
(* is renewed and the next archive is never long behind the last, for any  *)
(* number of hosts, permits, sites, slots and questions and any intervals  *)
(* (http.ts, icons.ts, mangahub.ts, schedule.ts).                          *)
THEOREM BackgroundStaysSound == ServerSpec => []BackgroundIsSound
<1>1. ServerSpec => HttpSpec /\ IconsSpec /\ SitesSpec /\ ScheduleSpec
  BY PartsStart, PartsMove, PTL
     DEF ServerSpec, HttpSpec, IconsSpec, SitesSpec, ScheduleSpec
<1>2. FirstAttemptFindsHostOpen /\ WarmedOnce /\ KeyIsRenewed /\ NoLongGap
          => BackgroundIsSound
  BY DEF BackgroundIsSound
<1> QED  BY <1>1, <1>2, FirstAttemptsFindTheHostOpen, IconsAreWarmedOnce, KeysAreRenewed,
            ArchivesKeepComing, PTL

(* Wherever the process stops, sessions stay ended, choices stand and the  *)
(* files of the installation and of the database are whole again           *)
(* (sessions.ts, registry.ts, update.ts, migrations.ts, open.ts).          *)
THEOREM KillsStayMended == ServerSpec => []KillsAreMended
<1>1. ServerSpec => SessionsSpec /\ RegistrySpec /\ UpdateSpec /\ DatabaseSpec
  BY PartsStart, PartsMove, PTL
     DEF ServerSpec, SessionsSpec, RegistrySpec, UpdateSpec, DatabaseSpec
<1>2. EndedStaysEnded /\ ChoicesStand /\ RollbackUndoes /\ DatabaseIsWhole
          => KillsAreMended
  BY DEF KillsAreMended
<1> QED  BY <1>1, <1>2, EndedSessionsStayEnded, ChoicesAlwaysStand,
            RollbackAlwaysUndoes, DatabaseStaysWhole, PTL

(* No step of any part breaks what was promised before it: a restore that  *)
(* succeeds brings its whole archive, a title keeps its date and what was  *)
(* read, a listing takes nothing from what is stored, a host is left its   *)
(* pause and there stays an archive to restore from (apply.ts, library.ts, *)
(* search.ts, http.ts, schedule.ts).                                       *)
THEOREM PromisesStayKept == ServerSpec => PromisesAreKept
<1> DEFINE Promised == /\ focus = "library" => RestoreIsWhole
                       /\ focus = "details" => DateHolds
                       /\ focus = "listings" => ListingTakesNothing
                       /\ focus = "http" => StartsSpaced
                       /\ focus = "schedule" => SomethingToRestore
<1>1. ServerSpec => LibrarySpec /\ DetailsSpec /\ HttpSpec /\ ScheduleSpec /\ ListingsSpec
  BY PartsStart, PartsMove, PTL
     DEF ServerSpec, LibrarySpec, DetailsSpec, HttpSpec, ScheduleSpec, ListingsSpec
<1>2. LibrarySound /\ ReadingSound /\ DetailsSound /\ HttpSound /\ ScheduleSound /\ ListingsSound
          /\ [ServerNext]_serverVars => [Promised]_serverVars
  BY PartsMove, SuccessIsWhole, DatesHoldNext, SpacedNext, RestorableNext, ListingsStep, TakesNothing
<1>3. ServerSpec => [][Promised]_serverVars
  BY <1>1, <1>2, LibrarySoundAlways, ReadingSoundAlways, DetailsSoundAlways,
     HttpSoundAlways, ScheduleSoundAlways, ListingsStaySound, PTL DEF ServerSpec
<1> QED  BY <1>3 DEF PromisesAreKept

===============================================================================
