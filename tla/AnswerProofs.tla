---------------------------- MODULE AnswerProofs ----------------------------
(***************************************************************************)
(* What is proved of the tools and citations of one answer (AgentAnswer),  *)
(* and that ConversationStream implements AnswerView step by step, for any *)
(* number of calls, sources, runs, pieces of text, events and faults.      *)
(***************************************************************************)
EXTENDS AgentAnswer, ConversationStream, ListingsProofs

-----------------------------------------------------------------------------
(* The tools and the citations.                                            *)

\* What a call is numbered from holds its sources.
LEMMA EntriesExtend ==
  ASSUME tokens \in Seq(Sources), NEW found \in Seq(Sources)
  PROVE  /\ Entries(found) \in Seq(Sources)
         /\ Len(tokens) <= Len(Entries(found))
         /\ \A n \in 1 .. Len(tokens) : Entries(found)[n] = tokens[n]
         /\ \A k \in DOMAIN found : \E n \in DOMAIN Entries(found) : Entries(found)[n] = found[k]
         /\ IsInjective(tokens) => IsInjective(Entries(found))
<1> DEFINE S == ToSet(found) \ ToSet(tokens)
           new == InOrder(found, S)
           old == Len(tokens)
           c == Cardinality(S)
<1>1. S \in SUBSET ToSet(found) /\ S \subseteq Sources
  BY DEF ToSet
<1>2. /\ c \in Nat
      /\ new \in [1 .. c -> S]
      /\ \A x \in S : \E k \in 1 .. c : new[k] = x
      /\ IsInjective(new)
  BY <1>1, InOrderLists, Zenon
<1> HIDE DEF new
<1> HIDE DEF c
<1>3. new \in Seq(Sources) /\ Len(new) = c
  <2>1. new \in [1 .. c -> Sources]
    BY <1>1, <1>2
  <2> QED BY <1>2, <2>1
<1>4. Entries(found) = tokens \o new
  BY DEF Entries, new
<1>5. /\ Entries(found) \in Seq(Sources) /\ Len(Entries(found)) = old + c /\ old \in Nat
      /\ \A n \in 1 .. old : Entries(found)[n] = tokens[n]
      /\ \A n \in old + 1 .. old + c : Entries(found)[n] = new[n - old]
  <2>1. old \in Nat /\ DOMAIN tokens = 1 .. old
    OBVIOUS
  <2>2. /\ tokens \o new \in Seq(Sources) /\ Len(tokens \o new) = old + c
        /\ \A i \in 1 .. old + c :
             (tokens \o new)[i] = IF i <= old THEN tokens[i] ELSE new[i - old]
    BY <1>3, ConcatProperties, Zenon
  <2>3. \A i \in 1 .. old : i <= old /\ i \in 1 .. old + c
    BY <1>2, <2>1
  <2>4. \A i \in old + 1 .. old + c : ~(i <= old) /\ i \in 1 .. old + c
    BY <1>2, <2>1
  <2> QED BY <1>4, <2>1, <2>2, <2>3, <2>4
<1>6. ASSUME NEW k \in DOMAIN found
      PROVE  \E n \in DOMAIN Entries(found) : Entries(found)[n] = found[k]
  <2>1. CASE found[k] \in ToSet(tokens)
    <3>1. PICK n \in 1 .. old : tokens[n] = found[k]
      BY <2>1 DEF ToSet
    <3> QED BY <1>2, <1>5, <3>1
  <2>2. CASE found[k] \notin ToSet(tokens)
    <3>1. found[k] \in S
      BY <2>2 DEF ToSet
    <3>2. PICK m \in 1 .. c : new[m] = found[k]
      BY <1>2, <3>1
    <3>3. PICK n \in Nat : n = old + m
      BY <1>2, <1>5
    <3>4. n \in old + 1 .. old + c /\ n - old = m
      BY <1>2, <1>5, <3>3
    <3>5. Entries(found)[n] = found[k] /\ n \in DOMAIN Entries(found)
      BY <1>2, <1>5, <3>2, <3>4
    <3> QED BY <3>5
  <2> QED BY <2>1, <2>2
<1>7. ASSUME IsInjective(tokens) PROVE IsInjective(Entries(found))
  <2> SUFFICES ASSUME NEW a \in DOMAIN Entries(found), NEW b \in DOMAIN Entries(found),
                      Entries(found)[a] = Entries(found)[b]
               PROVE  a = b
    BY Zenon DEF IsInjective
  <2>0. a \in Nat /\ b \in Nat /\ c \in Nat /\ old \in Nat
        /\ a \in 1 .. old + c /\ b \in 1 .. old + c
    BY <1>2, <1>5
  <2>1. \A n \in 1 .. old : Entries(found)[n] \in ToSet(tokens) /\ Entries(found)[n] = tokens[n]
    BY <1>5 DEF ToSet
  <2>2. \A n \in old + 1 .. old + c :
          n - old \in 1 .. c /\ Entries(found)[n] = new[n - old] /\ Entries(found)[n] \notin ToSet(tokens)
    <3> TAKE n \in old + 1 .. old + c
    <3>1. n - old \in 1 .. c
      BY <2>0
    <3>2. new[n - old] \in S
      BY <1>2, <3>1
    <3> QED BY <1>5, <3>1, <3>2
  <2>3. CASE a \in 1 .. old /\ b \in 1 .. old
    BY <1>7, <2>1, <2>3 DEF IsInjective
  <2>4. CASE a \in old + 1 .. old + c /\ b \in old + 1 .. old + c
    <3>1. new[a - old] = new[b - old] /\ a - old \in 1 .. c /\ b - old \in 1 .. c
      BY <2>2, <2>4
    <3>2. DOMAIN new = 1 .. c
      BY <1>2
    <3>3. a - old = b - old
      BY <1>2, <3>1, <3>2 DEF IsInjective
    <3> QED BY <2>0, <3>3
  <2>5. CASE a \in 1 .. old /\ b \in old + 1 .. old + c
    BY <2>1, <2>2, <2>5
  <2>6. CASE b \in 1 .. old /\ a \in old + 1 .. old + c
    BY <2>1, <2>2, <2>6
  <2> QED BY <2>0, <2>3, <2>4, <2>5, <2>6
<1> QED BY <1>2, <1>5, <1>6, <1>7

\* What a call returns: its sources, each with an id that the registry gives it.
LEMMA NumberedIs ==
  ASSUME tokens \in Seq(Sources), NEW found \in Seq(Sources)
  PROVE  LET out == Numbered(Entries(found), found)
         IN  /\ out \in Output
             /\ \A k \in DOMAIN out :
                  /\ out[k][2] \in DOMAIN Entries(found)
                  /\ Entries(found)[out[k][2]] = out[k][1]
<1> DEFINE reg == Entries(found)
           out == Numbered(reg, found)
<1>1. reg \in Seq(Sources) /\ \A k \in DOMAIN found : \E n \in DOMAIN reg : reg[n] = found[k]
  BY EntriesExtend
<1> HIDE DEF reg
<1>2. \A k \in DOMAIN found :
        IdOf(reg, found[k]) \in DOMAIN reg /\ reg[IdOf(reg, found[k])] = found[k]
  BY <1>1 DEF IdOf
<1>3. out = [k \in DOMAIN found |-> <<found[k], IdOf(reg, found[k])>>]
  BY DEF Numbered
<1>4. out \in Seq(Sources \X Nat)
  <2>1. \A k \in DOMAIN found : <<found[k], IdOf(reg, found[k])>> \in Sources \X Nat
    BY <1>1, <1>2
  <2>2. DOMAIN found = 1 .. Len(found) /\ Len(found) \in Nat
    OBVIOUS
  <2>3. out \in [1 .. Len(found) -> Sources \X Nat]
    BY <1>3, <2>1, <2>2
  <2> QED BY <2>2, <2>3
<1>5. \A k \in DOMAIN out : out[k][2] \in DOMAIN reg /\ reg[out[k][2]] = out[k][1]
  BY <1>2, <1>3
<1> QED BY <1>4, <1>5 DEF reg, Output

\* The types, without what AnswerTypeOK says of the fetches that run.
AnswerTypes ==
  /\ calls \in [Calls -> CallType]
  /\ gate \in [active : Nat, waiters : Seq(Task)]
  /\ fetching \in SUBSET Task
  /\ tokens \in Seq(Sources)
  /\ DOMAIN evidence \subseteq Sources /\ evidence \in [DOMAIN evidence -> Nat]
  /\ text \in Seq(Nat)
  /\ answer \in AnswerType
  /\ access \subseteq Anchors

\* A result of one fetch leaves the calls with their types.
LEMMA ResultTypes ==
  ASSUME AnswerTypes, NEW c \in Calls, NEW i \in Nat, NEW v \in {"ok", "failed"}
  PROVE  /\ [calls EXCEPT ![c].res[i] = v] \in [Calls -> CallType]
         /\ [calls EXCEPT ![c].next = i, ![c].res[i] = v] \in [Calls -> CallType]
<1> DEFINE old == calls[c].res
<1>1. PICK new : new = [old EXCEPT ![i] = v]
  OBVIOUS
<1>2. old \in Seq({"none", "ok", "failed"})
  BY DEF AnswerTypes, CallType
<1>3. new \in Seq({"none", "ok", "failed"})
  <2>1. PICK n \in Nat : n = Len(old) /\ old \in [1 .. n -> {"none", "ok", "failed"}]
    BY <1>2
  <2>2. new \in [1 .. n -> {"none", "ok", "failed"}]
    BY <1>1, <2>1
  <2> QED BY <2>2, FunctionIsList, Zenon
<1>4. [calls EXCEPT ![c].res[i] = v] = [calls EXCEPT ![c].res = new]
  BY <1>1 DEF AnswerTypes, CallType
<1>5. [calls EXCEPT ![c].next = i, ![c].res[i] = v]
        = [calls EXCEPT ![c].next = i, ![c].res = new]
  BY <1>1 DEF AnswerTypes, CallType
<1>6. [calls EXCEPT ![c].res = new] \in [Calls -> CallType]
  BY <1>3 DEF AnswerTypes, CallType
<1>7. [calls EXCEPT ![c].next = i, ![c].res = new] \in [Calls -> CallType]
  BY <1>3 DEF AnswerTypes, CallType
<1> QED BY <1>4, <1>5, <1>6, <1>7

\* So does what a call returns, and it adds sources to the registry.
LEMMA ReturnsTypes ==
  ASSUME AnswerTypes, NEW c \in Calls, NEW found \in Seq(Sources), Returns(c, found)
  PROVE  calls' \in [Calls -> CallType] /\ tokens' \in Seq(Sources)
<1> DEFINE out == Numbered(Entries(found), found)
<1>1. out \in Output /\ Entries(found) \in Seq(Sources)
  BY EntriesExtend, NumberedIs DEF AnswerTypes
<1> HIDE DEF out
<1>2. calls' = [calls EXCEPT ![c].stage = "out", ![c].output = out]
  BY DEF Returns, out
<1>3. calls' \in [Calls -> CallType]
  BY <1>1, <1>2 DEF AnswerTypes, CallType
<1> QED BY <1>1, <1>3 DEF Returns

\* What a fetch call returns are sources.
LEMMA FetchedIs ==
  ASSUME AnswerTypes, NEW c \in Calls
  PROVE  Fetched(c) \in Seq(Sources)
<1> DEFINE asked == calls[c].urls
           S == {asked[i] : i \in {j \in DOMAIN asked : calls[c].res[j] = "ok"}}
<1>1. asked \in Seq(Urls)
  BY DEF AnswerTypes, CallType
<1>2. S \in SUBSET ToSet(asked)
  BY DEF ToSet
<1>3. S \subseteq Sources
  BY <1>1 DEF Sources
<1>4. Cardinality(S) \in Nat /\ InOrder(asked, S) \in [1 .. Cardinality(S) -> S]
  BY <1>1, <1>2, InOrderLists, Zenon
<1>5. Fetched(c) = InOrder(asked, S)
  BY DEF Fetched
<1> HIDE DEF S
<1>6. PICK n \in Nat : n = Cardinality(S)
  BY <1>4
<1>7. InOrder(asked, S) \in [1 .. n -> Sources]
  BY <1>3, <1>4, <1>6
<1> QED BY <1>5, <1>7

\* What a search returns are sources.
LEMMA FoundIs ==
  ASSUME AnswerAssumption, AnswerTypes,
         NEW found \in {<<>>} \cup
               UNION {[1 .. n -> access] : n \in 1 .. Cardinality(access)}
  PROVE  found \in Seq(Sources)
<1>1. IsFiniteSet(access) /\ Cardinality(access) \in Nat
  BY FS_Subset, FS_CardinalityType DEF AnswerAssumption, AnswerTypes
<1>2. CASE found = <<>>
  BY <1>2
<1>3. CASE found # <<>>
  <2>1. PICK n \in 1 .. Cardinality(access) : found \in [1 .. n -> access]
    BY <1>3
  <2>2. n \in Nat
    BY <1>1
  <2>3. found \in [1 .. n -> Sources]
    BY <2>1 DEF AnswerTypes, Sources
  <2> QED BY <2>2, <2>3
<1> QED BY <1>2, <1>3

\* A task takes a slot, or a place in the queue.
LEMMA AcquireTypes ==
  ASSUME AnswerAssumption, AnswerTypes, NEW t \in Task, Acquire(t)
  PROVE  gate' \in [active : Nat, waiters : Seq(Task)] /\ fetching' \in SUBSET Task
<1>0. \A s \in Seq(Task) : Append(s, t) \in Seq(Task)
  BY AppendProperties
<1>1. CASE gate.active < GateLimit
  <2>1. PICK n \in Nat : n = gate.active + 1
    BY DEF AnswerTypes
  <2>2. gate' = [gate EXCEPT !.active = n] /\ fetching' = fetching \cup {t}
    BY <1>1, <2>1 DEF Acquire
  <2> QED BY <2>2 DEF AnswerTypes
<1>2. CASE ~(gate.active < GateLimit)
  <2>1. PICK w \in Seq(Task) : w = Append(gate.waiters, t)
    BY <1>0 DEF AnswerTypes
  <2>2. gate' = [gate EXCEPT !.waiters = w] /\ fetching' = fetching
    BY <1>2, <2>1 DEF Acquire
  <2> QED BY <2>2 DEF AnswerTypes
<1> QED BY <1>1, <1>2

\* A slot is given back, or to the first that waits.
LEMMA ReleaseTypes ==
  ASSUME AnswerTypes, NEW t \in Task, Release(t)
  PROVE  gate' \in [active : Nat, waiters : Seq(Task)] /\ fetching' \in SUBSET Task
<1>1. CASE gate.waiters # <<>>
  <2>1. Head(gate.waiters) \in Task /\ Tail(gate.waiters) \in Seq(Task)
    BY <1>1, HeadTailProperties DEF AnswerTypes
  <2> QED BY <1>1, <2>1 DEF Release, AnswerTypes
<1>2. CASE gate.waiters = <<>>
  BY <1>2 DEF Release, AnswerTypes
<1> QED BY <1>1, <1>2

\* Cited lists the markers that were used, once each.
LEMMA CitedLists ==
  ASSUME AnswerAssumption, AnswerTypes, NEW raw \in Seq(Nat)
  PROVE  /\ Cited(raw) \in Seq(Nat)
         /\ \A n \in DOMAIN Cited(raw) : Cited(raw)[n] \in ToSet(raw)
         /\ \A i \in DOMAIN raw : \E n \in DOMAIN Cited(raw) : Cited(raw)[n] = raw[i]
         /\ IsInjective(Cited(raw))
<1> DEFINE S == ToSet(raw)
           c == Cardinality(S)
<1>1. /\ c \in Nat
      /\ Cited(raw) \in [1 .. c -> S]
      /\ \A x \in S : \E k \in 1 .. c : Cited(raw)[k] = x
      /\ IsInjective(Cited(raw))
  BY InOrderLists, Zenon DEF Cited
<1> HIDE DEF c
<1>2. S \subseteq Nat /\ \A i \in DOMAIN raw : raw[i] \in S
  BY DEF ToSet
<1>3. Cited(raw) \in [1 .. c -> Nat]
  BY <1>1, <1>2
<1>4. Cited(raw) \in Seq(Nat)
  BY <1>1, <1>3, FunctionIsList, Zenon
<1>5. DOMAIN Cited(raw) = 1 .. c
  BY <1>3
<1>6. \A n \in DOMAIN Cited(raw) : Cited(raw)[n] \in ToSet(raw)
  BY <1>1, <1>5
<1>7. \A i \in DOMAIN raw : \E n \in DOMAIN Cited(raw) : Cited(raw)[n] = raw[i]
  BY <1>1, <1>2, <1>5
<1> QED BY <1>1, <1>4, <1>6, <1>7

\* The types hold at first.
LEMMA TypesInit == AnswerInit => AnswerTypes
BY DEF AnswerInit, AnswerTypes, NoCall, NoAnswer, CallType, Output, AnswerType

\* Every action keeps the types.
LEMMA TypesNext ==
  ASSUME AnswerAssumption, AnswerTypes, [AnswerNext]_answerVars
  PROVE  AnswerTypes'
<1> USE DEF AnswerTypes
<1>1. ASSUME NEW c \in Calls, CallFetch(c) PROVE AnswerTypes'
  <2>1. PICK us \in UNION {[1 .. n -> Urls] : n \in 1 .. MaxBatch} :
          calls' = [calls EXCEPT ![c] = [NoCall EXCEPT
                      !.stage = "fetch", !.urls = us,
                      !.res = [i \in DOMAIN us |-> "none"]]]
    BY <1>1 DEF CallFetch
  <2>2. PICK n \in 1 .. MaxBatch : us \in [1 .. n -> Urls]
    OBVIOUS
  <2>3. n \in Nat
    BY DEF AnswerAssumption
  <2>4. us \in Seq(Urls) /\ [i \in DOMAIN us |-> "none"] \in Seq({"none", "ok", "failed"})
    <3>1. [i \in DOMAIN us |-> "none"] \in [1 .. n -> {"none", "ok", "failed"}]
      BY <2>2
    <3> QED BY <2>2, <2>3, <3>1, FunctionIsList, Zenon
  <2>5. [NoCall EXCEPT !.stage = "fetch", !.urls = us, !.res = [i \in DOMAIN us |-> "none"]]
          \in CallType
    <3>1. PICK res \in Seq({"none", "ok", "failed"}) : res = [i \in DOMAIN us |-> "none"]
      BY <2>4
    <3>2. <<>> \in Output
      BY DEF Output
    <3> QED BY <2>4, <3>1, <3>2 DEF NoCall, CallType
  <2> QED BY <1>1, <2>1, <2>5 DEF CallFetch
<1>2. ASSUME NEW c \in Calls, CallSearch(c) PROVE AnswerTypes'
  BY <1>2 DEF CallSearch, CallType
<1>3. ASSUME NEW c \in Calls, TakeUrl(c) PROVE AnswerTypes'
  <2>1. PICK i \in Nat : i = calls[c].next + 1
    BY DEF CallType
  <2>2. <<c, i>> \in Task
    BY DEF Task
  <2>3. CASE calls[c].urls[i] \in Allowed
    <3>1. Acquire(<<c, i>>) /\ calls' = [calls EXCEPT ![c].next = i]
      BY <1>3, <2>1, <2>3 DEF TakeUrl
    <3>2. gate' \in [active : Nat, waiters : Seq(Task)] /\ fetching' \in SUBSET Task
      BY <2>2, <3>1, AcquireTypes
    <3>3. calls' \in [Calls -> CallType]
      BY <3>1 DEF CallType
    <3> QED BY <1>3, <3>2, <3>3 DEF TakeUrl
  <2>4. CASE calls[c].urls[i] \notin Allowed
    <3>1. calls' = [calls EXCEPT ![c].next = i, ![c].res[i] = "failed"]
          /\ UNCHANGED <<gate, fetching>>
      BY <1>3, <2>1, <2>4 DEF TakeUrl
    <3>2. calls' \in [Calls -> CallType]
      BY <3>1, ResultTypes
    <3> QED BY <1>3, <3>1, <3>2 DEF TakeUrl
  <2> QED BY <2>3, <2>4
<1>4. ASSUME NEW c \in Calls, NEW i \in 1 .. MaxBatch, FetchEnds(c, i) PROVE AnswerTypes'
  <2>1. <<c, i>> \in Task /\ Release(<<c, i>>)
    BY <1>4 DEF FetchEnds
  <2>2. gate' \in [active : Nat, waiters : Seq(Task)] /\ fetching' \in SUBSET Task
    BY <2>1, ReleaseTypes
  <2>4. PICK v \in {"ok", "failed"} : calls' = [calls EXCEPT ![c].res[i] = v]
    BY <1>4 DEF FetchEnds
  <2>5. i \in Nat
    BY DEF AnswerAssumption
  <2>3. calls' \in [Calls -> CallType]
    BY <2>4, <2>5, ResultTypes
  <2> QED BY <1>4, <2>2, <2>3 DEF FetchEnds
<1>5. ASSUME NEW c \in Calls, FetchReturns(c) PROVE AnswerTypes'
  <2>1. calls' \in [Calls -> CallType] /\ tokens' \in Seq(Sources)
    BY <1>5, FetchedIs, ReturnsTypes DEF FetchReturns
  <2> QED BY <1>5, <2>1 DEF FetchReturns
<1>6. ASSUME NEW c \in Calls, SearchReturns(c) PROVE AnswerTypes'
  <2>1. PICK found \in {<<>>} \cup
               UNION {[1 .. n -> access] : n \in 1 .. Cardinality(access)} : Returns(c, found)
    BY <1>6 DEF SearchReturns
  <2>2. found \in Seq(Sources)
    BY FoundIs
  <2>3. calls' \in [Calls -> CallType] /\ tokens' \in Seq(Sources)
    BY <2>1, <2>2, ReturnsTypes
  <2> QED BY <1>6, <2>3 DEF SearchReturns
<1>7. ASSUME NEW c \in Calls, ToolHook(c) PROVE AnswerTypes'
  <2> DEFINE ids == {calls[c].output[k] : k \in DOMAIN calls[c].output}
             new == {e[1] : e \in ids}
  <2>1. \A e \in ids : e[1] \in Sources /\ e[2] \in Nat
    BY DEF CallType, Output
  <2>2. \A s \in new : (CHOOSE e \in ids : e[1] = s) \in ids
    OBVIOUS
  <2> HIDE DEF ids
  <2>3. new \subseteq Sources
    BY <2>1
  <2>4. \A s \in new : (CHOOSE e \in ids : e[1] = s)[2] \in Nat
    BY <2>1, <2>2
  <2> HIDE DEF new
  <2>5. evidence' = [s \in DOMAIN evidence \cup new |->
                       IF s \in new THEN (CHOOSE e \in ids : e[1] = s)[2]
                       ELSE evidence[s]]
    BY <1>7 DEF ToolHook, ids, new
  <2>6. DOMAIN evidence' \subseteq Sources /\ evidence' \in [DOMAIN evidence' -> Nat]
    BY <2>3, <2>4, <2>5
  <2>7. calls' \in [Calls -> CallType]
    BY <1>7 DEF ToolHook, CallType
  <2> QED BY <1>7, <2>6, <2>7 DEF ToolHook
<1>8. CASE WriteMark
  BY <1>8 DEF WriteMark
<1>9. CASE QueryEnds
  <2>1. PICK turn \in 1 .. Len(text) + 1 :
          answer' = [answer EXCEPT
            !.state = "ended",
            !.raw = IF turn > Len(text) THEN text ELSE SubSeq(text, turn, Len(text))]
    BY <1>9 DEF QueryEnds
  <2>2. SubSeq(text, turn, Len(text)) \in Seq(Nat)
    BY SubSeqProperties
  <2>3. answer' \in AnswerType
    BY <2>1, <2>2 DEF AnswerType
  <2> QED BY <1>9, <2>3 DEF QueryEnds
<1>10. CASE QueryFails
  BY <1>10 DEF QueryFails, AnswerType
<1>11. CASE Materialize
  <2> DEFINE raw == answer.raw
             order == Cited(raw)
             marks == [i \in DOMAIN raw |-> IdOf(order, raw[i])]
  <2>1. CASE \E i \in DOMAIN raw : Known(raw[i]) = {}
    <3>1. answer' = [answer EXCEPT !.state = "failed"]
      BY <1>11, <2>1 DEF Materialize
    <3> QED BY <1>11, <3>1 DEF Materialize, AnswerType
  <2>2. CASE raw = <<>> /\ DOMAIN evidence # {}
    <3>1. answer' = [answer EXCEPT !.state = "failed"]
      BY <1>11, <2>2 DEF Materialize
    <3> QED BY <1>11, <3>1 DEF Materialize, AnswerType
  <2>3. CASE ~(raw = <<>> /\ DOMAIN evidence # {}) /\ \A i \in DOMAIN raw : Known(raw[i]) # {}
    <3>1. answer' = [answer EXCEPT !.state = "completed", !.marks = marks,
                                   !.citations = Citations(order)]
      BY <1>11, <2>3 DEF Materialize
    <3>2. raw \in Seq(Nat)
      BY DEF AnswerType
    <3>3. /\ order \in Seq(Nat)
          /\ \A n \in DOMAIN order : order[n] \in ToSet(raw)
          /\ \A i \in DOMAIN raw : \E n \in DOMAIN order : order[n] = raw[i]
      BY <3>2, CitedLists, Zenon
    <3> HIDE DEF raw, order, marks
    <3>4. marks \in Seq(Nat)
      <4>1. \A i \in DOMAIN raw : IdOf(order, raw[i]) \in Nat
        BY <3>3 DEF IdOf
      <4>2. DOMAIN raw = 1 .. Len(raw) /\ Len(raw) \in Nat
        BY <3>2
      <4>3. marks \in [1 .. Len(raw) -> Nat]
        BY <4>1, <4>2 DEF marks
      <4> QED BY <4>2, <4>3, FunctionIsList, Zenon
    <3>5. Citations(order) \in Seq(Sources)
      <4>1. \A n \in DOMAIN order : Known(order[n]) # {}
        BY <2>3, <3>3 DEF ToSet
      <4>2. \A n \in DOMAIN order : SourceOf(order[n]) \in Sources
        BY <4>1 DEF SourceOf, Known
      <4>3. DOMAIN order = 1 .. Len(order) /\ Len(order) \in Nat
        BY <3>3
      <4>4. Citations(order) \in [1 .. Len(order) -> Sources]
        BY <4>2, <4>3 DEF Citations
      <4> QED BY <4>3, <4>4, FunctionIsList, Zenon
    <3>6. answer' \in AnswerType
      BY <3>1, <3>4, <3>5 DEF AnswerType
    <3> QED BY <1>11, <3>6 DEF Materialize
  <2> QED BY <2>1, <2>2, <2>3
<1>12. CASE StoreCitations
  <2> DEFINE cs == answer.citations
  <2>1. cs \in Seq(Sources)
    BY DEF AnswerType
  <2>2. \A S \in SUBSET ToSet(cs) : InOrder(cs, S) \in Seq(Sources)
    <3> TAKE S \in SUBSET ToSet(cs)
    <3>1. Cardinality(S) \in Nat /\ InOrder(cs, S) \in [1 .. Cardinality(S) -> S]
      BY <2>1, InOrderLists, Zenon
    <3>2. S \subseteq Sources
      BY <2>1 DEF ToSet
    <3>3. InOrder(cs, S) \in [1 .. Cardinality(S) -> Sources]
      BY <3>1, <3>2
    <3> QED BY <3>1, <3>3, FunctionIsList, Zenon
  <2>3. Ordinals(cs) \in Seq(Sources)
    <3>1. InOrder(cs, ToSet(cs) \cap access) \in Seq(Sources)
          /\ InOrder(cs, ToSet(cs) \cap Urls) \in Seq(Sources)
      BY <2>2
    <3> QED BY <3>1, ConcatProperties DEF Ordinals
  <2> HIDE DEF cs
  <2>4. answer' = [answer EXCEPT !.state = "stored", !.stored = Ordinals(cs)]
    BY <1>12 DEF StoreCitations, cs
  <2>5. answer' \in AnswerType
    BY <2>3, <2>4 DEF AnswerType
  <2> QED BY <1>12, <2>5 DEF StoreCitations
<1>13. CASE LoseAccess
  BY <1>13 DEF LoseAccess
<1>14. CASE UNCHANGED answerVars
  BY <1>14 DEF answerVars
<1> QED
  BY <1>1, <1>2, <1>3, <1>4, <1>5, <1>6, <1>7, <1>8, <1>9, <1>10, <1>11, <1>12,
     <1>13, <1>14 DEF AnswerNext

\* The tasks that wait for a slot.
Waiting == ToSet(gate.waiters)

\* A task that runs or waits belongs to a fetch call and has no result; none does both,
\* nor waits twice; and the calls have not begun what comes after `next`.
TasksInv ==
  /\ \A t \in fetching \cup Waiting :
       /\ calls[t[1]].stage = "fetch" /\ t[2] \in 1 .. calls[t[1]].next
       /\ calls[t[1]].res[t[2]] = "none"
  /\ fetching \cap Waiting = {} /\ IsInjective(gate.waiters)
  /\ \A c \in Calls : calls[c].stage = "fetch" =>
       /\ Len(calls[c].res) = Len(calls[c].urls) /\ calls[c].next <= Len(calls[c].urls)
       /\ \A i \in calls[c].next + 1 .. Len(calls[c].res) : calls[c].res[i] = "none"

\* As many slots are taken as fetches run, at most GateLimit; tasks wait only if none is
\* free.
SlotsInv ==
  /\ IsFiniteSet(fetching) /\ gate.active = Cardinality(fetching)
  /\ gate.active <= GateLimit
  /\ gate.waiters # <<>> => gate.active = GateLimit

\* Acquire keeps the gate, and adds its task to those under way.
LEMMA AcquireKeeps ==
  ASSUME AnswerAssumption, AnswerTypes, TasksInv, SlotsInv,
         NEW t \in Task, t \notin fetching \cup Waiting, Acquire(t)
  PROVE  /\ SlotsInv'
         /\ fetching' \cup Waiting' = fetching \cup Waiting \cup {t}
         /\ fetching' \cap Waiting' = {} /\ IsInjective(gate.waiters')
<1>0. GateLimit \in Nat /\ gate.active \in Nat
  BY DEF AnswerAssumption, AnswerTypes
<1>1. CASE gate.active < GateLimit
  <2>1. gate.waiters' = gate.waiters /\ gate.active' = gate.active + 1
        /\ fetching' = fetching \cup {t}
    BY <1>1 DEF Acquire, AnswerTypes
  <2>2. gate.waiters = <<>>
    BY <1>0, <1>1 DEF SlotsInv
  <2>3. IsFiniteSet(fetching') /\ Cardinality(fetching') = Cardinality(fetching) + 1
    BY <2>1, FS_AddElement DEF SlotsInv
  <2>4. SlotsInv'
    BY <1>0, <1>1, <2>1, <2>2, <2>3 DEF SlotsInv
  <2>5. Waiting' = Waiting
    BY <2>1 DEF Waiting
  <2> QED BY <2>1, <2>4, <2>5 DEF TasksInv
<1>2. CASE ~(gate.active < GateLimit)
  <2> DEFINE w == gate.waiters
             n == Len(w)
  <2>1. gate.waiters' = Append(w, t) /\ gate.active' = gate.active /\ fetching' = fetching
    BY <1>2 DEF Acquire, AnswerTypes
  <2>2. w \in Seq(Task) /\ n \in Nat /\ DOMAIN w = 1 .. n
    BY DEF AnswerTypes
  <2>3. /\ DOMAIN gate.waiters' = 1 .. n + 1
        /\ \A k \in 1 .. n : gate.waiters'[k] = w[k]
        /\ gate.waiters'[n + 1] = t
    BY <2>1, <2>2
  <2> HIDE DEF w, n
  <2>4. PICK m \in Nat : m = n + 1
    BY <2>2
  <2>5. 1 .. m = 1 .. n \cup {m} /\ m \notin 1 .. n
    BY <2>2, <2>4
  <2>6. \A k \in 1 .. n : w[k] \in Waiting
    BY <2>2 DEF Waiting, ToSet, w
  <2>7. IsInjective(w)
    BY DEF TasksInv, w
  <2>8. IsInjective(gate.waiters')
    BY <2>2, <2>3, <2>4, <2>5, <2>6, <2>7 DEF IsInjective
  <2>9. Waiting' = Waiting \cup {t}
    <3>1. Waiting = {w[k] : k \in 1 .. n}
      BY <2>2 DEF Waiting, ToSet, w
    <3>2. Waiting' = {gate.waiters'[k] : k \in 1 .. m}
      BY <2>3, <2>4 DEF Waiting, ToSet
    <3> QED BY <2>3, <2>4, <2>5, <3>1, <3>2
  <2>10. SlotsInv'
    BY <1>0, <1>2, <2>1 DEF SlotsInv
  <2> QED BY <2>1, <2>8, <2>9, <2>10 DEF TasksInv
<1> QED BY <1>1, <1>2

\* Release keeps the gate, and removes its task.
LEMMA ReleaseKeeps ==
  ASSUME AnswerAssumption, AnswerTypes, TasksInv, SlotsInv,
         NEW t \in fetching, Release(t)
  PROVE  /\ SlotsInv'
         /\ fetching' \cup Waiting' = (fetching \cup Waiting) \ {t}
         /\ fetching' \cap Waiting' = {} /\ IsInjective(gate.waiters')
<1> DEFINE w == gate.waiters
           n == Len(w)
<1>0. GateLimit \in Nat /\ gate.active \in Nat
  BY DEF AnswerAssumption, AnswerTypes
<1>1. w \in Seq(Task) /\ n \in Nat /\ DOMAIN w = 1 .. n /\ IsInjective(w)
  BY DEF AnswerTypes, TasksInv
<1>2. IsFiniteSet(fetching \ {t}) /\ Cardinality(fetching \ {t}) = Cardinality(fetching) - 1
      /\ Cardinality(fetching) \in Nat \ {0}
  <2>1. Cardinality(fetching) # 0 /\ Cardinality(fetching) \in Nat
    BY FS_EmptySet, FS_CardinalityType DEF SlotsInv
  <2> QED BY <2>1, FS_RemoveElement DEF SlotsInv
<1>3. CASE w # <<>>
  <2>1. gate.waiters' = Tail(w) /\ gate.active' = gate.active
        /\ fetching' = (fetching \ {t}) \cup {Head(w)}
    BY <1>3 DEF Release, AnswerTypes
  <2>2. n # 0 /\ Head(w) = w[1] /\ DOMAIN Tail(w) = 1 .. n - 1
        /\ \A k \in 1 .. n - 1 : Tail(w)[k] = w[k + 1]
    BY <1>1, <1>3
  <2> HIDE DEF w, n
  <2>3. \A k \in 1 .. n : w[k] \in Waiting
    BY <1>1 DEF Waiting, ToSet, w
  <2>4. w[1] \in Waiting /\ w[1] \notin fetching
    <3>1. 1 \in 1 .. n
      BY <1>1, <2>2
    <3>2. w[1] \in Waiting
      BY <2>3, <3>1
    <3> QED BY <3>2 DEF TasksInv
  <2>5. IsFiniteSet(fetching') /\ Cardinality(fetching') = Cardinality(fetching)
    <3>1. w[1] \notin fetching \ {t}
      BY <2>4
    <3>2. fetching' = (fetching \ {t}) \cup {w[1]}
      BY <2>1, <2>2
    <3>3. IsFiniteSet(fetching') /\ Cardinality(fetching') = Cardinality(fetching \ {t}) + 1
      BY <1>2, <3>1, <3>2, FS_AddElement
    <3> QED BY <1>2, <3>3
  <2>6. \A a, b \in 1 .. n : w[a] = w[b] => a = b
    BY <1>1 DEF IsInjective
  <2>7. IsInjective(gate.waiters')
    <3>1. \A k \in 1 .. n - 1 : k + 1 \in 1 .. n /\ k \in Nat
      BY <1>1
    <3>2. \A a, b \in 1 .. n - 1 : Tail(w)[a] = Tail(w)[b] => a + 1 = b + 1
      BY <2>2, <2>6, <3>1
    <3>3. \A a, b \in 1 .. n - 1 : a + 1 = b + 1 => a = b
      BY <3>1
    <3> QED BY <2>1, <2>2, <3>2, <3>3 DEF IsInjective
  <2>8. Waiting' = Waiting \ {w[1]}
    <3>1. Waiting = {w[k] : k \in 1 .. n}
      BY <1>1 DEF Waiting, ToSet, w
    <3>2. Waiting' = {w[k + 1] : k \in 1 .. n - 1}
      <4>1. Waiting' = {Tail(w)[k] : k \in 1 .. n - 1}
        BY <2>1, <2>2 DEF Waiting, ToSet
      <4> QED BY <2>2, <4>1
    <3>3. \A k \in 1 .. n - 1 : k + 1 \in 1 .. n /\ k + 1 # 1
      BY <1>1
    <3>4. \A k \in 1 .. n : k # 1 => k - 1 \in 1 .. n - 1 /\ (k - 1) + 1 = k
      BY <1>1
    <3>5. 1 \in 1 .. n
      BY <1>1, <2>2
    <3>6. ASSUME NEW x \in Waiting' PROVE x \in Waiting \ {w[1]}
      <4>1. PICK k \in 1 .. n - 1 : x = w[k + 1]
        BY <3>2
      <4> QED BY <2>3, <2>6, <3>3, <3>5, <4>1
    <3>7. ASSUME NEW x \in Waiting \ {w[1]} PROVE x \in Waiting'
      <4>1. PICK k \in 1 .. n : x = w[k] /\ k # 1
        BY <3>1
      <4>2. PICK j \in 1 .. n - 1 : j + 1 = k
        BY <3>4, <4>1
      <4> QED BY <3>2, <4>1, <4>2
    <3> QED BY <3>6, <3>7
  <2>9. gate.active = GateLimit
    BY <1>3 DEF SlotsInv, w
  <2>10. SlotsInv'
    BY <1>0, <2>1, <2>5, <2>9 DEF SlotsInv
  <2> QED BY <2>1, <2>2, <2>4, <2>7, <2>8, <2>10 DEF TasksInv
<1>4. CASE w = <<>>
  <2>1. gate.waiters' = w /\ gate.active' = gate.active - 1 /\ fetching' = fetching \ {t}
    BY <1>0, <1>2, <1>4 DEF Release, AnswerTypes, SlotsInv
  <2>2. SlotsInv'
    BY <1>0, <1>2, <1>4, <2>1 DEF SlotsInv
  <2>3. Waiting' = Waiting /\ Waiting = {}
    BY <1>1, <1>4, <2>1 DEF Waiting, ToSet
  <2> QED BY <1>1, <2>1, <2>2, <2>3
<1> QED BY <1>3, <1>4

\* The invariant of the gate.
GateInv == TasksInv /\ SlotsInv

\* What changes no task.
LEMMA TasksFrame ==
  ASSUME AnswerTypes, GateInv, UNCHANGED <<gate, fetching>>,
         \A c \in Calls : calls'[c].stage = "fetch" => calls'[c] = calls[c],
         \A c \in Calls : calls[c].stage = "fetch" /\ (\E i : <<c, i>> \in fetching \cup Waiting)
                            => calls'[c] = calls[c]
  PROVE  GateInv'
<1>1. Waiting' = Waiting
  BY DEF Waiting
<1>2. ASSUME NEW t \in fetching' \cup Waiting'
      PROVE  /\ calls'[t[1]].stage = "fetch" /\ t[2] \in 1 .. calls'[t[1]].next
             /\ calls'[t[1]].res[t[2]] = "none"
  <2>1. t \in fetching \cup Waiting
    BY <1>1
  <2>2. t \in Task
    BY <2>1 DEF AnswerTypes, Waiting, ToSet
  <2>3. t[1] \in Calls /\ t = <<t[1], t[2]>>
    BY <2>2 DEF Task
  <2>4. calls[t[1]].stage = "fetch"
    BY <2>1 DEF GateInv, TasksInv
  <2>5. calls'[t[1]] = calls[t[1]]
    BY <2>1, <2>3, <2>4
  <2> QED BY <2>1, <2>5 DEF GateInv, TasksInv
<1>3. ASSUME NEW c \in Calls, calls'[c].stage = "fetch"
      PROVE  /\ Len(calls'[c].res) = Len(calls'[c].urls) /\ calls'[c].next <= Len(calls'[c].urls)
             /\ \A i \in calls'[c].next + 1 .. Len(calls'[c].res) : calls'[c].res[i] = "none"
  <2>1. calls'[c] = calls[c]
    BY <1>3
  <2> QED BY <1>3, <2>1 DEF GateInv, TasksInv
<1>4. SlotsInv'
  BY DEF GateInv, SlotsInv
<1> QED BY <1>1, <1>2, <1>3, <1>4 DEF GateInv, TasksInv

\* The gate is free at first.
LEMMA GateInit == AnswerAssumption /\ AnswerInit => GateInv
<1> SUFFICES ASSUME AnswerAssumption, AnswerInit PROVE GateInv
  OBVIOUS
<1>1. Waiting = {}
  BY DEF AnswerInit, Waiting, ToSet
<1>2. TasksInv
  BY <1>1 DEF AnswerInit, TasksInv, NoCall, IsInjective
<1>3. SlotsInv
  BY FS_EmptySet DEF AnswerInit, SlotsInv, AnswerAssumption
<1> QED BY <1>2, <1>3 DEF GateInv

\* What is under way are tasks.
LEMMA TaskOf ==
  ASSUME AnswerTypes, NEW t \in fetching \cup Waiting
  PROVE  t \in Task /\ t[1] \in Calls /\ t[2] \in Nat /\ t = <<t[1], t[2]>>
<1>1. t \in Task
  BY DEF AnswerTypes, Waiting, ToSet
<1> QED BY <1>1 DEF Task

\* A worker that takes a url.
LEMMA TakeUrlGate ==
  ASSUME AnswerAssumption, AnswerTypes, GateInv, NEW c \in Calls, TakeUrl(c)
  PROVE  GateInv'
<1>1. PICK i \in Nat : i = calls[c].next + 1
  BY DEF AnswerTypes, CallType
<1>2. /\ calls[c].stage = "fetch" /\ calls[c].next \in Nat
      /\ calls[c].next < Len(calls[c].urls) /\ Len(calls[c].urls) \in Nat
  BY DEF TakeUrl, AnswerTypes, CallType
<1>3. /\ Len(calls[c].res) = Len(calls[c].urls) /\ i <= Len(calls[c].urls)
      /\ i \in calls[c].next + 1 .. Len(calls[c].res) /\ calls[c].res[i] = "none"
      /\ i \in DOMAIN calls[c].res
  <2>1. Len(calls[c].res) = Len(calls[c].urls)
        /\ \A j \in calls[c].next + 1 .. Len(calls[c].res) : calls[c].res[j] = "none"
    BY <1>2 DEF GateInv, TasksInv
  <2>2. DOMAIN calls[c].res = 1 .. Len(calls[c].res)
    BY DEF AnswerTypes, CallType
  <2> QED BY <1>1, <1>2, <2>1, <2>2
<1>4. <<c, i>> \in Task /\ <<c, i>> \notin fetching \cup Waiting
  <2>1. \A t \in fetching \cup Waiting : t[2] \in 1 .. calls[t[1]].next
    BY DEF GateInv, TasksInv
  <2>2. ~(i \in 1 .. calls[c].next)
    BY <1>1, <1>2
  <2> QED BY <2>1, <2>2 DEF Task
<1>5. CASE calls[c].urls[i] \in Allowed
  <2>1. Acquire(<<c, i>>) /\ calls' = [calls EXCEPT ![c].next = i]
    BY <1>1, <1>5 DEF TakeUrl
  <2>2. /\ SlotsInv'
        /\ fetching' \cup Waiting' = fetching \cup Waiting \cup {<<c, i>>}
        /\ fetching' \cap Waiting' = {} /\ IsInjective(gate.waiters')
    BY <1>4, <2>1, AcquireKeeps DEF GateInv
  <2>3. /\ calls'[c].stage = "fetch" /\ calls'[c].next = i /\ calls'[c].res = calls[c].res
        /\ calls'[c].urls = calls[c].urls
        /\ \A d \in Calls : d # c => calls'[d] = calls[d]
    BY <1>2, <2>1 DEF AnswerTypes, CallType
  <2>4. ASSUME NEW t \in fetching' \cup Waiting'
        PROVE  /\ calls'[t[1]].stage = "fetch" /\ t[2] \in 1 .. calls'[t[1]].next
               /\ calls'[t[1]].res[t[2]] = "none"
    <3>1. CASE t = <<c, i>>
      <4>1. i \in 1 .. i
        BY <1>1, <1>2
      <4> QED BY <1>3, <2>3, <3>1, <4>1
    <3>2. CASE t # <<c, i>>
      <4>1. t \in fetching \cup Waiting
        BY <2>2, <3>2
      <4>2. t[1] \in Calls
        BY <4>1, TaskOf
      <4>3. /\ calls[t[1]].stage = "fetch" /\ t[2] \in 1 .. calls[t[1]].next
            /\ calls[t[1]].res[t[2]] = "none"
        BY <4>1 DEF GateInv, TasksInv
      <4>4. t[1] = c => t[2] \in 1 .. i
        BY <1>1, <1>2, <4>3
      <4> QED BY <2>3, <4>2, <4>3, <4>4
    <3> QED BY <3>1, <3>2
  <2>5. ASSUME NEW d \in Calls, calls'[d].stage = "fetch"
        PROVE  /\ Len(calls'[d].res) = Len(calls'[d].urls)
               /\ calls'[d].next <= Len(calls'[d].urls)
               /\ \A j \in calls'[d].next + 1 .. Len(calls'[d].res) : calls'[d].res[j] = "none"
    <3>1. CASE d # c
      BY <2>3, <2>5, <3>1 DEF GateInv, TasksInv
    <3>2. CASE d = c
      <4>1. \A j \in i + 1 .. Len(calls[c].res) : j \in calls[c].next + 1 .. Len(calls[c].res)
        BY <1>1, <1>2, <1>3
      <4>2. \A j \in i + 1 .. Len(calls[c].res) : calls[c].res[j] = "none"
        BY <1>2, <4>1 DEF GateInv, TasksInv
      <4> QED BY <1>3, <2>3, <3>2, <4>2
    <3> QED BY <3>1, <3>2
  <2> QED BY <2>2, <2>4, <2>5 DEF GateInv, TasksInv
<1>6. CASE calls[c].urls[i] \notin Allowed
  <2>1. calls' = [calls EXCEPT ![c].next = i, ![c].res[i] = "failed"]
        /\ UNCHANGED <<gate, fetching>>
    BY <1>1, <1>6 DEF TakeUrl
  <2>2. PICK new : new = [calls[c].res EXCEPT ![i] = "failed"]
    OBVIOUS
  <2>3. Len(new) = Len(calls[c].res) /\ \A j \in DOMAIN calls[c].res : j # i => new[j] = calls[c].res[j]
    <3>1. calls[c].res \in Seq({"none", "ok", "failed"})
      BY DEF AnswerTypes, CallType
    <3> QED BY <2>2, <3>1, ExceptSeq
  <2>4. /\ calls'[c].stage = "fetch" /\ calls'[c].next = i /\ calls'[c].res = new
        /\ calls'[c].urls = calls[c].urls
        /\ \A d \in Calls : d # c => calls'[d] = calls[d]
    BY <1>2, <2>1, <2>2 DEF AnswerTypes, CallType
  <2>5. Waiting' = Waiting
    BY <2>1 DEF Waiting
  <2>6. ASSUME NEW t \in fetching \cup Waiting
        PROVE  /\ calls'[t[1]].stage = "fetch" /\ t[2] \in 1 .. calls'[t[1]].next
               /\ calls'[t[1]].res[t[2]] = "none"
    <3>1. t[1] \in Calls /\ t = <<t[1], t[2]>> /\ t[2] \in Nat
      BY TaskOf
    <3>2. /\ calls[t[1]].stage = "fetch" /\ t[2] \in 1 .. calls[t[1]].next
          /\ calls[t[1]].res[t[2]] = "none"
      BY DEF GateInv, TasksInv
    <3>3. t[1] = c => t[2] \in 1 .. i /\ t[2] # i /\ t[2] \in 1 .. Len(calls[c].res)
      BY <1>1, <1>2, <1>3, <3>2
    <3>4. DOMAIN calls[c].res = 1 .. Len(calls[c].res)
      BY DEF AnswerTypes, CallType
    <3>5. t[1] = c => new[t[2]] = "none"
      BY <2>3, <3>2, <3>3, <3>4
    <3> QED BY <2>4, <3>1, <3>2, <3>3, <3>5
  <2>7. ASSUME NEW d \in Calls, calls'[d].stage = "fetch"
        PROVE  /\ Len(calls'[d].res) = Len(calls'[d].urls)
               /\ calls'[d].next <= Len(calls'[d].urls)
               /\ \A j \in calls'[d].next + 1 .. Len(calls'[d].res) : calls'[d].res[j] = "none"
    <3>1. CASE d # c
      BY <2>4, <2>7, <3>1 DEF GateInv, TasksInv
    <3>2. CASE d = c
      <4>1. \A j \in i + 1 .. Len(calls[c].res) :
              j \in calls[c].next + 1 .. Len(calls[c].res) /\ j # i /\ j \in 1 .. Len(calls[c].res)
        BY <1>1, <1>2, <1>3
      <4>2. DOMAIN calls[c].res = 1 .. Len(calls[c].res)
        BY DEF AnswerTypes, CallType
      <4>3. \A j \in i + 1 .. Len(calls[c].res) : new[j] = "none"
        BY <1>2, <2>3, <4>1, <4>2 DEF GateInv, TasksInv
      <4> QED BY <1>3, <2>3, <2>4, <3>2, <4>3
    <3> QED BY <3>1, <3>2
  <2>8. SlotsInv'
    BY <2>1 DEF GateInv, SlotsInv
  <2> QED BY <2>1, <2>5, <2>6, <2>7, <2>8 DEF GateInv, TasksInv
<1> QED BY <1>5, <1>6

\* A fetch that ends.
LEMMA FetchEndsGate ==
  ASSUME AnswerAssumption, AnswerTypes, GateInv,
         NEW c \in Calls, NEW i \in 1 .. MaxBatch, FetchEnds(c, i)
  PROVE  GateInv'
<1>0. i \in Nat
  BY DEF AnswerAssumption
<1>1. <<c, i>> \in fetching /\ Release(<<c, i>>)
  BY DEF FetchEnds
<1>2. /\ SlotsInv'
      /\ fetching' \cup Waiting' = (fetching \cup Waiting) \ {<<c, i>>}
      /\ fetching' \cap Waiting' = {} /\ IsInjective(gate.waiters')
  BY <1>1, ReleaseKeeps DEF GateInv
<1>3. PICK v \in {"ok", "failed"} : calls' = [calls EXCEPT ![c].res[i] = v]
  BY DEF FetchEnds
<1>4. PICK new : new = [calls[c].res EXCEPT ![i] = v]
  OBVIOUS
<1>5. Len(new) = Len(calls[c].res) /\ \A j \in DOMAIN calls[c].res : j # i => new[j] = calls[c].res[j]
  <2>1. calls[c].res \in Seq({"none", "ok", "failed"})
    BY DEF AnswerTypes, CallType
  <2>2. Len(new) = Len(calls[c].res) /\ DOMAIN new = DOMAIN calls[c].res
    BY <1>4, <2>1
  <2> QED BY <1>4, <2>2
<1>6. /\ calls'[c].stage = calls[c].stage /\ calls'[c].next = calls[c].next
      /\ calls'[c].res = new /\ calls'[c].urls = calls[c].urls
      /\ \A d \in Calls : d # c => calls'[d] = calls[d]
  BY <1>3, <1>4 DEF AnswerTypes, CallType
<1>7. /\ calls[c].stage = "fetch" /\ i \in 1 .. calls[c].next
      /\ Len(calls[c].res) = Len(calls[c].urls) /\ calls[c].next <= Len(calls[c].urls)
      /\ \A j \in calls[c].next + 1 .. Len(calls[c].res) : calls[c].res[j] = "none"
  <2>1. calls[c].stage = "fetch" /\ i \in 1 .. calls[c].next
    BY <1>1 DEF GateInv, TasksInv
  <2> QED BY <2>1 DEF GateInv, TasksInv
<1>8. /\ DOMAIN calls[c].res = 1 .. Len(calls[c].res) /\ calls[c].next \in Nat
      /\ Len(calls[c].res) \in Nat
  BY DEF AnswerTypes, CallType
<1>9. ASSUME NEW t \in fetching' \cup Waiting'
      PROVE  /\ calls'[t[1]].stage = "fetch" /\ t[2] \in 1 .. calls'[t[1]].next
             /\ calls'[t[1]].res[t[2]] = "none"
  <2>1. t \in fetching \cup Waiting /\ t # <<c, i>>
    BY <1>2
  <2>2. t[1] \in Calls /\ t = <<t[1], t[2]>> /\ t[2] \in Nat
    BY <2>1, TaskOf
  <2>3. /\ calls[t[1]].stage = "fetch" /\ t[2] \in 1 .. calls[t[1]].next
        /\ calls[t[1]].res[t[2]] = "none"
    BY <2>1 DEF GateInv, TasksInv
  <2>4. t[1] = c => t[2] # i /\ t[2] \in DOMAIN calls[c].res
    BY <1>7, <1>8, <2>1, <2>2, <2>3
  <2> QED BY <1>5, <1>6, <2>2, <2>3, <2>4
<1>10. ASSUME NEW d \in Calls, calls'[d].stage = "fetch"
       PROVE  /\ Len(calls'[d].res) = Len(calls'[d].urls)
              /\ calls'[d].next <= Len(calls'[d].urls)
              /\ \A j \in calls'[d].next + 1 .. Len(calls'[d].res) : calls'[d].res[j] = "none"
  <2>1. CASE d # c
    BY <1>6, <1>10, <2>1 DEF GateInv, TasksInv
  <2>2. CASE d = c
    <3>1. \A j \in calls[c].next + 1 .. Len(calls[c].res) : j # i /\ j \in DOMAIN calls[c].res
      BY <1>7, <1>8
    <3>2. \A j \in calls[c].next + 1 .. Len(calls[c].res) : new[j] = "none"
      BY <1>5, <1>7, <3>1
    <3> QED BY <1>5, <1>6, <1>7, <2>2, <3>2
  <2> QED BY <2>1, <2>2
<1> QED BY <1>2, <1>9, <1>10 DEF GateInv, TasksInv

\* Every step keeps the invariant of the gate.
LEMMA GateNext ==
  ASSUME AnswerAssumption, AnswerTypes, GateInv, [AnswerNext]_answerVars
  PROVE  GateInv'
<1>1. ASSUME NEW c \in Calls, CallFetch(c) PROVE GateInv'
  <2>1. PICK us \in UNION {[1 .. n -> Urls] : n \in 1 .. MaxBatch} :
          calls' = [calls EXCEPT ![c] = [NoCall EXCEPT
                      !.stage = "fetch", !.urls = us,
                      !.res = [i \in DOMAIN us |-> "none"]]]
    BY <1>1 DEF CallFetch
  <2>2. PICK n \in 1 .. MaxBatch : us \in [1 .. n -> Urls]
    OBVIOUS
  <2>3. n \in Nat
    BY DEF AnswerAssumption
  <2>4. PICK res : res = [i \in DOMAIN us |-> "none"]
    OBVIOUS
  <2>5. us \in Seq(Urls) /\ Len(us) = n
    BY <2>2, <2>3, FunctionIsList, Zenon
  <2>6. res \in [1 .. n -> {"none"}] /\ DOMAIN us = 1 .. n
    BY <2>2, <2>4
  <2>7. Len(res) = n /\ \A i \in 1 .. n : res[i] = "none"
    <3>1. Len(res) = n
      BY <2>3, <2>6, FunctionIsList, Zenon
    <3> QED BY <2>6, <3>1
  <2>8. /\ calls'[c].stage = "fetch" /\ calls'[c].urls = us /\ calls'[c].res = res
        /\ calls'[c].next = 0 /\ \A d \in Calls : d # c => calls'[d] = calls[d]
    BY <2>1, <2>4 DEF NoCall, AnswerTypes
  <2>9. calls[c].stage = "idle" /\ UNCHANGED <<gate, fetching>>
    BY <1>1 DEF CallFetch
  <2>10. Waiting' = Waiting
    BY <2>9 DEF Waiting
  <2>11. ASSUME NEW t \in fetching \cup Waiting
         PROVE  /\ calls'[t[1]].stage = "fetch" /\ t[2] \in 1 .. calls'[t[1]].next
                /\ calls'[t[1]].res[t[2]] = "none"
    <3>1. t[1] \in Calls
      BY TaskOf
    <3>2. /\ calls[t[1]].stage = "fetch" /\ t[2] \in 1 .. calls[t[1]].next
          /\ calls[t[1]].res[t[2]] = "none"
      BY DEF GateInv, TasksInv
    <3> QED BY <2>8, <2>9, <3>1, <3>2
  <2>12. ASSUME NEW d \in Calls, calls'[d].stage = "fetch"
         PROVE  /\ Len(calls'[d].res) = Len(calls'[d].urls)
                /\ calls'[d].next <= Len(calls'[d].urls)
                /\ \A j \in calls'[d].next + 1 .. Len(calls'[d].res) : calls'[d].res[j] = "none"
    <3>1. CASE d # c
      BY <2>8, <2>12, <3>1 DEF GateInv, TasksInv
    <3>2. CASE d = c
      BY <2>3, <2>5, <2>7, <2>8, <3>2
    <3> QED BY <3>1, <3>2
  <2>13. SlotsInv'
    BY <2>9 DEF GateInv, SlotsInv
  <2> QED BY <2>9, <2>10, <2>11, <2>12, <2>13 DEF GateInv, TasksInv
<1>2. ASSUME NEW c \in Calls, CallSearch(c) PROVE GateInv'
  <2>1. /\ calls'[c].stage = "search" /\ calls[c].stage = "idle"
        /\ \A d \in Calls : d # c => calls'[d] = calls[d]
        /\ UNCHANGED <<gate, fetching>>
    BY <1>2 DEF CallSearch, AnswerTypes, CallType
  <2> QED BY <2>1, TasksFrame
<1>3. ASSUME NEW c \in Calls, TakeUrl(c) PROVE GateInv'
  BY <1>3, TakeUrlGate
<1>4. ASSUME NEW c \in Calls, NEW i \in 1 .. MaxBatch, FetchEnds(c, i) PROVE GateInv'
  BY <1>4, FetchEndsGate
<1>5. ASSUME NEW c \in Calls, FetchReturns(c) PROVE GateInv'
  <2>1. /\ calls'[c].stage = "out"
        /\ \A d \in Calls : d # c => calls'[d] = calls[d]
        /\ UNCHANGED <<gate, fetching>>
    BY <1>5 DEF FetchReturns, Returns, AnswerTypes, CallType
  <2>2. ASSUME NEW i, <<c, i>> \in fetching \cup Waiting PROVE FALSE
    <3>1. /\ calls[c].stage = "fetch" /\ i \in 1 .. calls[c].next /\ calls[c].res[i] = "none"
      BY <2>2 DEF GateInv, TasksInv
    <3>2. calls[c].next \in Nat /\ Len(calls[c].urls) \in Nat
          /\ DOMAIN calls[c].urls = 1 .. Len(calls[c].urls)
      BY DEF AnswerTypes, CallType
    <3>3. calls[c].next <= Len(calls[c].urls)
      BY <3>1 DEF GateInv, TasksInv
    <3>4. i \in DOMAIN calls[c].urls
      BY <3>1, <3>2, <3>3
    <3>5. i \in Finished(c)
      BY <1>5, <3>4 DEF FetchReturns
    <3> QED BY <3>1, <3>5 DEF Finished
  <2> QED BY <2>1, <2>2, TasksFrame
<1>6. ASSUME NEW c \in Calls, SearchReturns(c) PROVE GateInv'
  <2>1. /\ calls'[c].stage = "out" /\ calls[c].stage = "search"
        /\ \A d \in Calls : d # c => calls'[d] = calls[d]
        /\ UNCHANGED <<gate, fetching>>
    BY <1>6 DEF SearchReturns, Returns, AnswerTypes, CallType
  <2> QED BY <2>1, TasksFrame
<1>7. ASSUME NEW c \in Calls, ToolHook(c) PROVE GateInv'
  <2>1. /\ calls'[c].stage = "done" /\ calls[c].stage = "out"
        /\ \A d \in Calls : d # c => calls'[d] = calls[d]
        /\ UNCHANGED <<gate, fetching>>
    BY <1>7 DEF ToolHook, AnswerTypes, CallType
  <2> QED BY <2>1, TasksFrame
<1>8. CASE WriteMark \/ QueryEnds \/ QueryFails \/ Materialize \/ StoreCitations \/ LoseAccess
           \/ UNCHANGED answerVars
  <2>1. UNCHANGED <<calls, gate, fetching>>
    BY <1>8 DEF WriteMark, QueryEnds, QueryFails, Materialize, StoreCitations, LoseAccess,
                answerVars
  <2> QED BY <2>1, TasksFrame
<1> QED
  BY <1>1, <1>2, <1>3, <1>4, <1>5, <1>6, <1>7, <1>8 DEF AnswerNext

\* No source has two ids; what was returned, and what was recorded as evidence, has the
\* id the registry gives it; and what the hook has seen is evidence.
RegistryInv ==
  /\ IsInjective(tokens)
  /\ \A c \in Calls : calls[c].stage \in {"out", "done"} =>
       \A k \in DOMAIN calls[c].output :
         /\ calls[c].output[k][2] \in DOMAIN tokens
         /\ tokens[calls[c].output[k][2]] = calls[c].output[k][1]
  /\ \A c \in Calls : calls[c].stage = "done" =>
       \A k \in DOMAIN calls[c].output : calls[c].output[k][1] \in DOMAIN evidence
  /\ \A s \in DOMAIN evidence :
       evidence[s] \in DOMAIN tokens /\ tokens[evidence[s]] = s

\* Once the answer is accepted, its markers number its citations, each citation once; and
\* what is stored is in that order, where no passage was dropped and none is mixed with pages.
CitedInv ==
  answer.state \in {"completed", "stored"} =>
    /\ IsInjective(answer.citations)
    /\ \A i \in DOMAIN answer.raw :
         /\ answer.raw[i] \in DOMAIN tokens
         /\ answer.marks[i] \in DOMAIN answer.citations
         /\ answer.citations[answer.marks[i]] = tokens[answer.raw[i]]
    /\ answer.citations = <<>> => DOMAIN evidence = {}
    /\ (/\ answer.state = "stored"
        /\ \/ ToSet(answer.citations) \subseteq Urls
           \/ ToSet(answer.citations) \subseteq Anchors
              /\ Len(answer.stored) = Len(answer.citations))
       => answer.stored = answer.citations

\* What only adds sources at the end of the registry, and no output.
LEMMA RegistryFrame ==
  ASSUME AnswerTypes, AnswerTypes', RegistryInv, IsInjective(tokens'),
         evidence' = evidence,
         \A n \in DOMAIN tokens : n \in DOMAIN tokens' /\ tokens'[n] = tokens[n],
         \A c \in Calls : calls'[c].stage \in {"out", "done"} =>
            \/ calls'[c].stage = calls[c].stage /\ calls'[c].output = calls[c].output
            \/ /\ calls'[c].stage = "out"
               /\ \A k \in DOMAIN calls'[c].output :
                    /\ calls'[c].output[k][2] \in DOMAIN tokens'
                    /\ tokens'[calls'[c].output[k][2]] = calls'[c].output[k][1]
  PROVE  RegistryInv'
<1>1. ASSUME NEW c \in Calls, calls'[c].stage \in {"out", "done"},
             NEW k \in DOMAIN calls'[c].output
      PROVE  /\ calls'[c].output[k][2] \in DOMAIN tokens'
             /\ tokens'[calls'[c].output[k][2]] = calls'[c].output[k][1]
  <2>1. CASE calls'[c].stage = calls[c].stage /\ calls'[c].output = calls[c].output
    <3>1. /\ calls[c].output[k][2] \in DOMAIN tokens
          /\ tokens[calls[c].output[k][2]] = calls[c].output[k][1]
      BY <1>1, <2>1 DEF RegistryInv
    <3> QED BY <2>1, <3>1
  <2> QED BY <1>1, <2>1
<1>2. ASSUME NEW c \in Calls, calls'[c].stage = "done", NEW k \in DOMAIN calls'[c].output
      PROVE  calls'[c].output[k][1] \in DOMAIN evidence'
  <2>1. calls'[c].stage = calls[c].stage /\ calls'[c].output = calls[c].output
    BY <1>2
  <2> QED BY <1>2, <2>1 DEF RegistryInv
<1>3. ASSUME NEW s \in DOMAIN evidence
      PROVE  evidence[s] \in DOMAIN tokens' /\ tokens'[evidence[s]] = s
  BY DEF RegistryInv
<1> QED BY <1>1, <1>2, <1>3 DEF RegistryInv

\* A call that returns numbers its sources.
LEMMA ReturnsRegistry ==
  ASSUME AnswerTypes, AnswerTypes', RegistryInv, NEW c \in Calls, NEW found \in Seq(Sources),
         Returns(c, found), UNCHANGED evidence
  PROVE  RegistryInv'
<1> DEFINE reg == Entries(found)
           out == Numbered(reg, found)
<1>1. /\ reg \in Seq(Sources) /\ Len(tokens) <= Len(reg)
      /\ \A n \in 1 .. Len(tokens) : reg[n] = tokens[n]
      /\ IsInjective(tokens) => IsInjective(reg)
  BY EntriesExtend DEF AnswerTypes
<1>2. \A k \in DOMAIN out : out[k][2] \in DOMAIN reg /\ reg[out[k][2]] = out[k][1]
  BY NumberedIs DEF AnswerTypes
<1>3. tokens' = reg /\ calls' = [calls EXCEPT ![c].stage = "out", ![c].output = out]
  BY DEF Returns
<1> HIDE DEF reg, out
<1>4. \A n \in DOMAIN tokens : n \in DOMAIN tokens' /\ tokens'[n] = tokens[n]
  <2>1. DOMAIN tokens = 1 .. Len(tokens) /\ Len(tokens) \in Nat
        /\ DOMAIN reg = 1 .. Len(reg) /\ Len(reg) \in Nat
    BY <1>1 DEF AnswerTypes
  <2> QED BY <1>1, <1>3, <2>1
<1>5. /\ calls'[c].stage = "out" /\ calls'[c].output = out
      /\ \A d \in Calls : d # c => calls'[d] = calls[d]
  BY <1>3 DEF AnswerTypes, CallType
<1>6. IsInjective(tokens')
  BY <1>1, <1>3 DEF RegistryInv
<1>7. ASSUME NEW d \in Calls, calls'[d].stage \in {"out", "done"}
      PROVE  \/ calls'[d].stage = calls[d].stage /\ calls'[d].output = calls[d].output
             \/ /\ calls'[d].stage = "out"
                /\ \A k \in DOMAIN calls'[d].output :
                     /\ calls'[d].output[k][2] \in DOMAIN tokens'
                     /\ tokens'[calls'[d].output[k][2]] = calls'[d].output[k][1]
  <2>1. CASE d = c
    <3>1. calls'[d].stage = "out" /\ calls'[d].output = out
      BY <1>5, <2>1
    <3>2. \A k \in DOMAIN out : out[k][2] \in DOMAIN tokens' /\ tokens'[out[k][2]] = out[k][1]
      BY <1>2, <1>3
    <3> QED BY <3>1, <3>2, Zenon
  <2>2. CASE d # c
    BY <1>5, <2>2
  <2> QED BY <2>1, <2>2
<1> QED BY <1>4, <1>6, <1>7, RegistryFrame

\* The hook records as evidence what a call returned.
LEMMA HookRegistry ==
  ASSUME AnswerTypes, AnswerTypes', RegistryInv, NEW c \in Calls, ToolHook(c)
  PROVE  RegistryInv'
<1> DEFINE out == calls[c].output
           ids == {out[k] : k \in DOMAIN out}
           new == {e[1] : e \in ids}
<1>1. /\ calls[c].stage = "out" /\ tokens' = tokens
      /\ calls'[c].stage = "done" /\ calls'[c].output = out
      /\ \A d \in Calls : d # c => calls'[d] = calls[d]
  BY DEF ToolHook, AnswerTypes, CallType
<1>2. evidence' = [s \in DOMAIN evidence \cup new |->
                     IF s \in new THEN (CHOOSE e \in ids : e[1] = s)[2] ELSE evidence[s]]
  BY DEF ToolHook
<1>3. \A e \in ids : e[2] \in DOMAIN tokens /\ tokens[e[2]] = e[1]
  BY <1>1 DEF RegistryInv
<1>4. \A k \in DOMAIN out : out[k][1] \in new
  OBVIOUS
<1> HIDE DEF ids
<1>5. \A s \in new : (CHOOSE e \in ids : e[1] = s) \in ids /\ (CHOOSE e \in ids : e[1] = s)[1] = s
  OBVIOUS
<1>6. DOMAIN evidence' = DOMAIN evidence \cup new
  BY <1>2
<1>7. ASSUME NEW s \in DOMAIN evidence'
      PROVE  evidence'[s] \in DOMAIN tokens /\ tokens[evidence'[s]] = s
  <2>1. CASE s \in new
    <3>1. evidence'[s] = (CHOOSE e \in ids : e[1] = s)[2]
      BY <1>2, <2>1
    <3> QED BY <1>3, <1>5, <2>1, <3>1
  <2>2. CASE s \notin new
    <3>1. evidence'[s] = evidence[s] /\ s \in DOMAIN evidence
      BY <1>2, <2>2
    <3> QED BY <3>1 DEF RegistryInv
  <2> QED BY <2>1, <2>2
<1>8. ASSUME NEW d \in Calls, calls'[d].stage \in {"out", "done"}, NEW k \in DOMAIN calls'[d].output
      PROVE  /\ calls'[d].output[k][2] \in DOMAIN tokens
             /\ tokens[calls'[d].output[k][2]] = calls'[d].output[k][1]
  <2>1. CASE d = c
    BY <1>1, <1>8, <2>1 DEF RegistryInv
  <2>2. CASE d # c
    BY <1>1, <1>8, <2>2 DEF RegistryInv
  <2> QED BY <2>1, <2>2
<1>9. ASSUME NEW d \in Calls, calls'[d].stage = "done", NEW k \in DOMAIN calls'[d].output
      PROVE  calls'[d].output[k][1] \in DOMAIN evidence'
  <2>1. CASE d = c
    BY <1>1, <1>4, <1>6, <1>9, <2>1
  <2>2. CASE d # c
    BY <1>1, <1>6, <1>9, <2>2 DEF RegistryInv
  <2> QED BY <2>1, <2>2
<1>10. IsInjective(tokens')
  BY <1>1 DEF RegistryInv
<1> QED BY <1>1, <1>7, <1>8, <1>9, <1>10 DEF RegistryInv

\* Nothing is registered at first.
LEMMA RegistryInit == AnswerInit => RegistryInv
BY DEF AnswerInit, RegistryInv, NoCall, IsInjective

\* Every step keeps the registry.
LEMMA RegistryNext ==
  ASSUME AnswerAssumption, AnswerTypes, AnswerTypes', RegistryInv, [AnswerNext]_answerVars
  PROVE  RegistryInv'
<1>0. IsInjective(tokens)
  BY DEF RegistryInv
<1>1. ASSUME NEW c \in Calls, CallFetch(c) \/ CallSearch(c) PROVE RegistryInv'
  <2>2. UNCHANGED <<tokens, evidence>>
    BY <1>1 DEF CallFetch, CallSearch
  <2>3. calls'[c].stage \in {"fetch", "search"} /\ \A d \in Calls : d # c => calls'[d] = calls[d]
    <3>1. CASE CallFetch(c)
      <4>1. PICK us \in UNION {[1 .. n -> Urls] : n \in 1 .. MaxBatch} :
              calls' = [calls EXCEPT ![c] = [NoCall EXCEPT
                          !.stage = "fetch", !.urls = us,
                          !.res = [i \in DOMAIN us |-> "none"]]]
        BY <3>1 DEF CallFetch
      <4>2. PICK res : res = [i \in DOMAIN us |-> "none"]
        OBVIOUS
      <4> QED BY <4>1, <4>2 DEF NoCall, AnswerTypes
    <3>2. CASE CallSearch(c)
      BY <3>2 DEF CallSearch, AnswerTypes, CallType
    <3> QED BY <1>1, <3>1, <3>2
  <2> QED BY <1>0, <2>2, <2>3, RegistryFrame
<1>2. ASSUME NEW c \in Calls, TakeUrl(c) PROVE RegistryInv'
  <2>1. UNCHANGED <<tokens, evidence>>
    BY <1>2 DEF TakeUrl
  <2>2. \A d \in Calls : calls'[d].stage = calls[d].stage /\ calls'[d].output = calls[d].output
    <3>0. calls[c].next \in Nat
      BY DEF AnswerTypes, CallType
    <3>1. PICK i \in Nat : i = calls[c].next + 1
      BY <3>0
    <3>2. PICK new : new = [calls[c].res EXCEPT ![i] = "failed"]
      OBVIOUS
    <3>3. CASE calls[c].urls[i] \in Allowed
      <4>1. calls' = [calls EXCEPT ![c].next = i]
        BY <1>2, <3>1, <3>3 DEF TakeUrl
      <4> QED BY <4>1 DEF AnswerTypes, CallType
    <3>4. CASE calls[c].urls[i] \notin Allowed
      <4>1. calls' = [calls EXCEPT ![c].next = i, ![c].res[i] = "failed"]
        BY <1>2, <3>1, <3>4 DEF TakeUrl
      <4>2. calls' = [calls EXCEPT ![c].next = i, ![c].res = new]
        BY <3>2, <4>1 DEF AnswerTypes, CallType
      <4> QED BY <4>2 DEF AnswerTypes, CallType
    <3> QED BY <3>3, <3>4
  <2> QED BY <1>0, <2>1, <2>2, RegistryFrame
<1>3. ASSUME NEW c \in Calls, NEW i \in 1 .. MaxBatch, FetchEnds(c, i) PROVE RegistryInv'
  <2>1. UNCHANGED <<tokens, evidence>>
    BY <1>3 DEF FetchEnds
  <2>2. \A d \in Calls : calls'[d].stage = calls[d].stage /\ calls'[d].output = calls[d].output
    <3>1. PICK v \in {"ok", "failed"} : calls' = [calls EXCEPT ![c].res[i] = v]
      BY <1>3 DEF FetchEnds
    <3>2. PICK new : new = [calls[c].res EXCEPT ![i] = v]
      OBVIOUS
    <3>3. calls' = [calls EXCEPT ![c].res = new]
      BY <3>1, <3>2 DEF AnswerTypes, CallType
    <3> QED BY <3>3 DEF AnswerTypes, CallType
  <2> QED BY <1>0, <2>1, <2>2, RegistryFrame
<1>4. ASSUME NEW c \in Calls, FetchReturns(c) PROVE RegistryInv'
  BY <1>4, FetchedIs, ReturnsRegistry DEF FetchReturns
<1>5. ASSUME NEW c \in Calls, SearchReturns(c) PROVE RegistryInv'
  <2>1. PICK found \in {<<>>} \cup
               UNION {[1 .. n -> access] : n \in 1 .. Cardinality(access)} : Returns(c, found)
    BY <1>5 DEF SearchReturns
  <2>2. found \in Seq(Sources)
    BY FoundIs
  <2>3. UNCHANGED evidence
    BY <1>5 DEF SearchReturns
  <2> QED BY <2>1, <2>2, <2>3, ReturnsRegistry
<1>6. ASSUME NEW c \in Calls, ToolHook(c) PROVE RegistryInv'
  BY <1>6, HookRegistry
<1>7. CASE WriteMark \/ QueryEnds \/ QueryFails \/ Materialize \/ StoreCitations \/ LoseAccess
           \/ UNCHANGED answerVars
  <2>1. UNCHANGED <<calls, tokens, evidence>>
    BY <1>7 DEF WriteMark, QueryEnds, QueryFails, Materialize, StoreCitations, LoseAccess,
                answerVars
  <2> QED BY <1>0, <2>1, RegistryFrame
<1> QED BY <1>1, <1>2, <1>3, <1>4, <1>5, <1>6, <1>7 DEF AnswerNext

\* What the model was shown are the ids of the registry.
LEMMA ShownAreKnown ==
  ASSUME AnswerTypes, RegistryInv
  PROVE  ShownTokensResolve
<1>1. ASSUME NEW e \in Shown
      PROVE  /\ e[2] \in DOMAIN tokens /\ tokens[e[2]] = e[1]
             /\ e[1] \in DOMAIN evidence /\ evidence[e[1]] = e[2]
  <2>1. PICK c \in Calls : calls[c].stage = "done" /\ e \in ToSet(calls[c].output)
    BY DEF Shown, ShownTo
  <2>2. PICK k \in DOMAIN calls[c].output : e = calls[c].output[k]
    BY <2>1 DEF ToSet
  <2>3. e[2] \in DOMAIN tokens /\ tokens[e[2]] = e[1] /\ e[1] \in DOMAIN evidence
    BY <2>1, <2>2 DEF RegistryInv
  <2>4. evidence[e[1]] \in DOMAIN tokens /\ tokens[evidence[e[1]]] = e[1]
    BY <2>3 DEF RegistryInv
  <2> QED BY <2>3, <2>4 DEF RegistryInv, IsInjective
<1>2. ASSUME NEW e \in Shown, NEW f \in Shown PROVE e[1] = f[1] <=> e[2] = f[2]
  BY <1>1
<1>3. ASSUME NEW e \in Shown PROVE Known(e[2]) = {e[1]}
  <2>1. ASSUME NEW s \in DOMAIN evidence, evidence[s] = e[2] PROVE s = e[1]
    BY <1>1, <2>1 DEF RegistryInv
  <2> QED BY <1>1, <2>1 DEF Known
<1> QED BY <1>1, <1>2, <1>3 DEF ShownTokensResolve

\* The markers are renumbered by the citations, in the order of their first use.
LEMMA MaterializeCited ==
  ASSUME AnswerAssumption, AnswerTypes, RegistryInv, Materialize
  PROVE  CitedInv'
<1> DEFINE raw == answer.raw
           order == Cited(raw)
           marks == [i \in DOMAIN raw |-> IdOf(order, raw[i])]
           cs == Citations(order)
<1>0. UNCHANGED <<tokens, evidence>>
  BY DEF Materialize
<1>1. CASE (raw = <<>> /\ DOMAIN evidence # {}) \/ \E i \in DOMAIN raw : Known(raw[i]) = {}
  <2>1. answer' = [answer EXCEPT !.state = "failed"]
    BY <1>1 DEF Materialize
  <2> QED BY <2>1 DEF CitedInv, AnswerTypes, AnswerType
<1>2. CASE ~(raw = <<>> /\ DOMAIN evidence # {}) /\ \A i \in DOMAIN raw : Known(raw[i]) # {}
  <2>1. answer' = [answer EXCEPT !.state = "completed", !.marks = marks, !.citations = cs]
    BY <1>2 DEF Materialize
  <2>2. raw \in Seq(Nat)
    BY DEF AnswerTypes, AnswerType
  <2>3. /\ order \in Seq(Nat) /\ IsInjective(order)
        /\ \A n \in DOMAIN order : order[n] \in ToSet(raw)
        /\ \A i \in DOMAIN raw : \E n \in DOMAIN order : order[n] = raw[i]
    BY <2>2, CitedLists, Zenon
  <2> HIDE DEF order
  <2>4. \A i \in DOMAIN raw : marks[i] \in DOMAIN order /\ order[marks[i]] = raw[i]
    BY <2>3 DEF IdOf
  <2>5. ASSUME NEW n \in DOMAIN order
        PROVE  /\ cs[n] \in DOMAIN evidence /\ evidence[cs[n]] = order[n]
               /\ order[n] \in DOMAIN tokens /\ tokens[order[n]] = cs[n]
    <3>1. Known(order[n]) # {}
      BY <1>2, <2>3 DEF ToSet
    <3>2. cs[n] = SourceOf(order[n])
      BY DEF Citations
    <3>3. cs[n] \in Known(order[n])
      BY <3>1, <3>2 DEF SourceOf
    <3> QED BY <3>3 DEF Known, RegistryInv
  <2>6. DOMAIN cs = DOMAIN order
    BY DEF Citations
  <2> HIDE DEF cs, marks
  <2>7. IsInjective(cs)
    BY <2>3, <2>5, <2>6 DEF IsInjective
  <2>8. \A i \in DOMAIN raw :
          raw[i] \in DOMAIN tokens /\ marks[i] \in DOMAIN cs /\ cs[marks[i]] = tokens[raw[i]]
    BY <2>4, <2>5, <2>6
  <2>9. cs = <<>> => DOMAIN evidence = {}
    <3>1. SUFFICES ASSUME cs = <<>> PROVE raw = <<>>
      BY <1>2
    <3>2. DOMAIN order = {}
      BY <2>6, <3>1
    <3>3. DOMAIN raw = {}
      BY <2>3, <3>2
    <3>4. DOMAIN raw = 1 .. Len(raw) /\ Len(raw) \in Nat
      BY <2>2
    <3>5. Len(raw) = 0
      <4>1. Len(raw) > 0 => 1 \in DOMAIN raw
        BY <3>4
      <4> QED BY <3>3, <3>4, <4>1
    <3> QED BY <2>2, <3>5
  <2>10. /\ answer'.state = "completed" /\ answer'.raw = raw
         /\ answer'.marks = marks /\ answer'.citations = cs
    BY <2>1 DEF AnswerTypes, AnswerType
  <2> QED BY <1>0, <2>7, <2>8, <2>9, <2>10 DEF CitedInv
<1> QED BY <1>1, <1>2

\* The citations are stored.
LEMMA StoreCited ==
  ASSUME AnswerAssumption, AnswerTypes, CitedInv, StoreCitations
  PROVE  CitedInv'
<1> DEFINE cs == answer.citations
           read == ToSet(cs) \cap access
           web == ToSet(cs) \cap Urls
<1>1. /\ UNCHANGED <<tokens, evidence>> /\ answer.state = "completed"
      /\ answer'.state = "stored" /\ answer'.raw = answer.raw /\ answer'.marks = answer.marks
      /\ answer'.citations = cs /\ answer'.stored = Ordinals(cs)
  BY DEF StoreCitations, AnswerTypes, AnswerType
<1>2. cs \in Seq(Sources) /\ IsInjective(cs)
  BY <1>1 DEF AnswerTypes, AnswerType, CitedInv
<1>3. InOrder(cs, ToSet(cs)) = cs
  BY <1>2, InOrderAll
<1>4. \A S \in SUBSET ToSet(cs) :
        /\ Cardinality(S) \in Nat /\ IsFiniteSet(S)
        /\ InOrder(cs, S) \in Seq(Sources) /\ Len(InOrder(cs, S)) = Cardinality(S)
        /\ S = {} => InOrder(cs, S) = <<>>
  <2> TAKE S \in SUBSET ToSet(cs)
  <2>1. Cardinality(S) \in Nat /\ InOrder(cs, S) \in [1 .. Cardinality(S) -> S]
    BY <1>2, InOrderLists, Zenon
  <2>2. IsFiniteSet(S)
    <3>1. S \subseteq Anchors \cup Urls
      BY <1>2 DEF ToSet, Sources
    <3>2. IsFiniteSet(Anchors \cup Urls)
      BY FS_Union DEF AnswerAssumption
    <3> QED BY <3>1, <3>2, FS_Subset
  <2>3. S \subseteq Sources
    BY <1>2 DEF ToSet
  <2>4. InOrder(cs, S) \in [1 .. Cardinality(S) -> Sources]
    BY <2>1, <2>3
  <2>5. InOrder(cs, S) \in Seq(Sources) /\ Len(InOrder(cs, S)) = Cardinality(S)
    BY <2>1, <2>4, FunctionIsList, Zenon
  <2>6. S = {} => Cardinality(S) = 0
    BY FS_EmptySet
  <2> QED BY <2>1, <2>2, <2>5, <2>6
<1>5. Ordinals(cs) = InOrder(cs, read) \o InOrder(cs, web)
  BY DEF Ordinals
<1>6. ASSUME ToSet(cs) \subseteq Urls PROVE Ordinals(cs) = cs
  <2>1. read = {} /\ web = ToSet(cs)
    BY <1>6 DEF AnswerTypes, AnswerAssumption
  <2>2. Ordinals(cs) = <<>> \o cs
    BY <1>3, <1>4, <1>5, <2>1
  <2>3. <<>> \o cs = cs
    BY <1>2, ConcatEmptySeq, Zenon
  <2> QED BY <2>2, <2>3
<1>7. ASSUME ToSet(cs) \subseteq Anchors, Len(Ordinals(cs)) = Len(cs) PROVE Ordinals(cs) = cs
  <2>1. web = {}
    BY <1>7 DEF AnswerAssumption
  <2>2. InOrder(cs, web) = <<>> /\ InOrder(cs, read) \in Seq(Sources)
    BY <1>4, <2>1
  <2>3. Ordinals(cs) = InOrder(cs, read)
    <3>1. InOrder(cs, read) \o <<>> = InOrder(cs, read)
      BY <2>2, ConcatEmptySeq, Zenon
    <3> QED BY <1>5, <2>2, <3>1
  <2>4. Cardinality(read) = Cardinality(ToSet(cs))
    BY <1>3, <1>4, <1>7, <2>3
  <2>5. read = ToSet(cs)
    <3>1. IsFiniteSet(ToSet(cs)) /\ read \in SUBSET ToSet(cs)
      BY <1>4
    <3> QED BY <2>4, <3>1, FS_Subset
  <2> HIDE DEF read
  <2> QED BY <1>3, <2>3, <2>5
<1>8. (ToSet(cs) \subseteq Urls \/ (ToSet(cs) \subseteq Anchors /\ Len(Ordinals(cs)) = Len(cs)))
        => Ordinals(cs) = cs
  BY <1>6, <1>7
<1> HIDE DEF cs
<1>9. /\ IsInjective(cs)
      /\ \A i \in DOMAIN answer.raw :
           /\ answer.raw[i] \in DOMAIN tokens
           /\ answer.marks[i] \in DOMAIN cs
           /\ cs[answer.marks[i]] = tokens[answer.raw[i]]
      /\ cs = <<>> => DOMAIN evidence = {}
  BY <1>1 DEF CitedInv, cs
<1> QED BY <1>1, <1>8, <1>9 DEF CitedInv

\* Every step keeps what the markers stand for.
LEMMA CitedNext ==
  ASSUME AnswerAssumption, AnswerTypes, AnswerTypes', RegistryInv, CitedInv,
         [AnswerNext]_answerVars
  PROVE  CitedInv'
<1>1. ASSUME answer' = answer, evidence' = evidence,
             \A n \in DOMAIN tokens : n \in DOMAIN tokens' /\ tokens'[n] = tokens[n]
      PROVE  CitedInv'
  BY <1>1 DEF CitedInv
<1>2. ASSUME NEW c \in Calls, NEW found \in Seq(Sources), Returns(c, found)
      PROVE  \A n \in DOMAIN tokens : n \in DOMAIN tokens' /\ tokens'[n] = tokens[n]
  <2>1. /\ Entries(found) \in Seq(Sources) /\ Len(tokens) <= Len(Entries(found))
        /\ \A n \in 1 .. Len(tokens) : Entries(found)[n] = tokens[n]
    BY EntriesExtend DEF AnswerTypes
  <2>2. tokens' = Entries(found)
    BY <1>2 DEF Returns
  <2>3. DOMAIN tokens = 1 .. Len(tokens) /\ Len(tokens) \in Nat
        /\ DOMAIN tokens' = 1 .. Len(tokens') /\ Len(tokens') \in Nat
    BY DEF AnswerTypes
  <2> QED BY <2>1, <2>2, <2>3
<1>3. ASSUME NEW c \in Calls, FetchReturns(c) PROVE CitedInv'
  BY <1>1, <1>2, <1>3, FetchedIs DEF FetchReturns
<1>4. ASSUME NEW c \in Calls, SearchReturns(c) PROVE CitedInv'
  <2>1. PICK found \in {<<>>} \cup
               UNION {[1 .. n -> access] : n \in 1 .. Cardinality(access)} : Returns(c, found)
    BY <1>4 DEF SearchReturns
  <2>2. found \in Seq(Sources)
    BY FoundIs
  <2>3. answer' = answer /\ evidence' = evidence
    BY <1>4 DEF SearchReturns
  <2> QED BY <1>1, <1>2, <2>1, <2>2, <2>3
<1>5. ASSUME NEW c \in Calls,
             CallFetch(c) \/ CallSearch(c) \/ TakeUrl(c) \/ (\E i \in 1 .. MaxBatch : FetchEnds(c, i))
      PROVE  CitedInv'
  <2>1. UNCHANGED <<tokens, evidence, answer>>
    BY <1>5 DEF CallFetch, CallSearch, TakeUrl, FetchEnds
  <2> QED BY <1>1, <2>1
<1>6. ASSUME NEW c \in Calls, ToolHook(c) PROVE CitedInv'
  BY <1>6 DEF ToolHook, Querying, CitedInv
<1>7. CASE WriteMark \/ LoseAccess \/ UNCHANGED answerVars
  <2>1. UNCHANGED <<tokens, evidence, answer>>
    BY <1>7 DEF WriteMark, LoseAccess, answerVars
  <2> QED BY <1>1, <2>1
<1>8. CASE QueryEnds
  <2>1. answer'.state = "ended"
    BY <1>8 DEF QueryEnds, AnswerTypes, AnswerType
  <2> QED BY <2>1 DEF CitedInv
<1>9. CASE QueryFails
  <2>1. answer'.state = "failed"
    BY <1>9 DEF QueryFails, AnswerTypes, AnswerType
  <2> QED BY <2>1 DEF CitedInv
<1>10. CASE Materialize
  BY <1>10, MaterializeCited
<1>11. CASE StoreCitations
  BY <1>11, StoreCited
<1> QED
  BY <1>3, <1>4, <1>5, <1>6, <1>7, <1>8, <1>9, <1>10, <1>11 DEF AnswerNext

\* What CitedInv says of the list, the page shows.
LEMMA CitedMarkers ==
  ASSUME AnswerTypes, CitedInv
  PROVE  MarkersKeepSource
<1> SUFFICES ASSUME answer.state \in {"completed", "stored"}
             PROVE  /\ \A i \in DOMAIN answer.raw :
                         answer.citations[answer.marks[i]] = tokens[answer.raw[i]]
                    /\ answer.citations = <<>> => DOMAIN evidence = {}
                    /\ (/\ answer.state = "stored"
                        /\ \/ ToSet(answer.citations) \subseteq Urls
                           \/ ToSet(answer.citations) \subseteq Anchors
                              /\ Len(answer.stored) = Len(answer.citations))
                       => \A i \in DOMAIN answer.raw : PageShows(i) = {tokens[answer.raw[i]]}
  BY DEF MarkersKeepSource
<1>1. ASSUME answer.stored = answer.citations, NEW i \in DOMAIN answer.raw
      PROVE  PageShows(i) = {tokens[answer.raw[i]]}
  <2>1. answer.marks[i] \in DOMAIN answer.citations
        /\ answer.citations[answer.marks[i]] = tokens[answer.raw[i]]
    BY DEF CitedInv
  <2>2. answer.marks[i] <= Len(answer.stored)
    BY <1>1, <2>1 DEF AnswerTypes, AnswerType
  <2> QED BY <1>1, <2>1, <2>2 DEF PageShows
<1> QED BY <1>1 DEF CitedInv

\* The inductive invariant of AgentAnswer.
LEMMA AnswerInvariant ==
  AnswerSpec => [](AnswerTypes /\ GateInv /\ RegistryInv /\ CitedInv)
<1> USE AnswerAssumption
<1>1. AnswerInit => AnswerTypes /\ GateInv /\ RegistryInv /\ CitedInv
  <2>1. AnswerInit => CitedInv
    BY DEF AnswerInit, NoAnswer, CitedInv
  <2> QED BY <2>1, TypesInit, GateInit, RegistryInit
<1>2. (AnswerTypes /\ GateInv /\ RegistryInv /\ CitedInv) /\ [AnswerNext]_answerVars
        => (AnswerTypes /\ GateInv /\ RegistryInv /\ CitedInv)'
  BY TypesNext, GateNext, RegistryNext, CitedNext
<1> QED BY <1>1, <1>2, PTL DEF AnswerSpec

\* Types: for any calls, sources, limits and answers, every variable keeps its type, and
\* a fetch that runs has no result yet.
THEOREM AnswerTypesCorrect == AnswerSpec => []AnswerTypeOK
<1>1. AnswerTypes /\ GateInv => AnswerTypeOK
  BY DEF AnswerTypes, GateInv, TasksInv, AnswerTypeOK
<1> QED BY <1>1, AnswerInvariant, PTL

\* The gate of a query never lets more fetches run than its limit, and a fetch waits only
\* while all slots are taken: tool-concurrency.ts keeps its promise whatever fetches end
\* or fail in whatever order.
THEOREM GateLimits ==
  AnswerSpec => [](Cardinality(fetching) <= GateLimit
                     /\ (gate.waiters # <<>> => Cardinality(fetching) = GateLimit))
<1>1. GateInv => Cardinality(fetching) <= GateLimit
                   /\ (gate.waiters # <<>> => Cardinality(fetching) = GateLimit)
  BY DEF GateInv, SlotsInv
<1> QED BY <1>1, AnswerInvariant, PTL

\* ShownTokensResolve: ids the model was shown stay unambiguous and known, whatever tool
\* calls overlap.
THEOREM TokensCorrect == AnswerSpec => []ShownTokensResolve
<1>1. AnswerTypes /\ RegistryInv => ShownTokensResolve
  BY ShownAreKnown
<1> QED BY <1>1, AnswerInvariant, PTL

\* MarkersKeepSource: renumbering, dropping and storing citations never gives a marker
\* another source.
THEOREM MarkersCorrect == AnswerSpec => []MarkersKeepSource
<1>1. AnswerTypes /\ CitedInv => MarkersKeepSource
  BY CitedMarkers
<1> QED BY <1>1, AnswerInvariant, PTL

-----------------------------------------------------------------------------
(* The stream.                                                             *)



\* The rows, the events and what arrives, for the proof: texts are of any piece, ids
\* and places any numbers.
Statuses == Ended \cup {"streaming"}
Texts == Seq(Nat \X Nat)
Row == [status : Statuses, run : Nat \ {0}, text : Texts, event : Nat, cited : BOOLEAN]
Body == Nat \cup (Nat \X Nat) \cup Texts \cup Row
StreamEntry == [kind : {"tool", "delta"} \cup Ended, run : Nat \ {0}, body : Body]
SentEntry == [kind : {"tool", "delta", "text"} \cup Ended, id : Nat, body : Body]
Results == [status : Ended, text : Texts]

\* The types of what readers have.  Texts and tools of a page, which it folds from what
\* arrives, are left open: no step of the argument depends on them.
IsPage(p) ==
  p \in [status : Statuses, text : {p.text}, cited : {p.cited}, tools : {p.tools}, round : Nat]
IsConn(c) ==
  c \in [pc : ConnPc, cursor : {c.cursor}, run : Nat, text : {c.text}, sent : {c.sent},
         snap : Row]
IsSource(s) == s \in [open : BOOLEAN, last : {s.last}]

\* The types of the state the job and the routes write.
WriterTypes ==
  /\ message \in Row /\ toolRows \in Seq(Nat) /\ events \in Seq(StreamEntry)
  /\ job \in [pc : JobPc, text : Texts, event : Nat]
  /\ outcomes \in Seq(Results)
\* The types of the reader's state.
ReaderTypes == IsConn(conn) /\ IsSource(source) /\ IsPage(page)

\* The history has the outcome of every run that ended; the job is past its checks only
\* while the row is as the job left it.
RowsInv ==
  /\ message.status = "streaming" => Len(outcomes) = message.run - 1
  /\ message.status \in Ended => Len(outcomes) = message.run
                                 /\ outcomes[message.run] = Outcome(message)
  /\ job.pc \in {"tool", "save", "fail_row"} => message.status = "streaming"
  /\ job.pc \in {"cite", "done"} => message.status = "completed"
  /\ job.pc \in {"fail_tool", "fail_event"} => message.status = "failed"

\* An outcome that is the one its run had.
Settled(m) == m.run \in 1 .. Len(outcomes) /\ outcomes[m.run] = Outcome(m)

\* An event that ends a run carries the outcome of that run.
EventsInv ==
  \A i \in DOMAIN events : events[i].kind \in Ended =>
    /\ events[i].body \in Row /\ events[i].body.status \in Ended
    /\ events[i].body.run = events[i].run /\ Settled(events[i].body)

\* A page that follows an answer shows none yet; the run it follows is not older than the
\* round it shows; and what the handler read to send it in the end is how that run ended.
ReaderInv ==
  /\ conn.pc # "none" => source.open
  /\ source.open => page.status = "streaming"
  /\ page.round <= message.run
  /\ conn.pc \in {"tools", "cites", "live"} =>
       page.round <= conn.run /\ conn.run <= message.run
  /\ conn.pc \in {"tools", "cites"} =>
       conn.snap.run = conn.run /\ (conn.snap.status \in Ended => Settled(conn.snap))
  /\ conn.pc = "cites" => conn.snap.status \in Ended

\* The inductive invariant of ConversationStream.
StreamInv == WriterTypes /\ ReaderTypes /\ RowsInv /\ EventsInv /\ ReaderInv


\* The rounds of AnswerView, from the history and the row.
LEMMA RoundsAre ==
  ASSUME WriterTypes, RowsInv
  PROVE  /\ Rounds \in Seq(Results \cup {NotEnded}) /\ Len(Rounds) = message.run
         /\ DOMAIN Rounds = 1 .. message.run /\ message.run \in Nat \ {0}
         /\ \A r \in 1 .. message.run :
              Rounds[r] = IF r <= Len(outcomes) THEN outcomes[r] ELSE NotEnded
         /\ NotEnded \notin Results
<1>1. message.run \in Nat \ {0} /\ Len(outcomes) \in Nat
  BY DEF WriterTypes, Row
<1>2. PICK n \in Nat : n = message.run
  BY <1>1
<1>3. \A r \in 1 .. n : r <= Len(outcomes) => outcomes[r] \in Results
  BY <1>1, <1>2 DEF WriterTypes
<1>4. Rounds \in [1 .. n -> Results \cup {NotEnded}]
  BY <1>2, <1>3 DEF Rounds
<1>5. Rounds \in Seq(Results \cup {NotEnded}) /\ Len(Rounds) = n
  BY <1>4, FunctionIsList, Zenon
<1>6. NotEnded \notin Results
  BY DEF NotEnded, Outcome, Fresh, Results, Ended
<1> QED BY <1>1, <1>2, <1>5, <1>6 DEF Rounds

\* The end of a run is a Settle of AnswerView.
LEMMA SettleMaps ==
  ASSUME WriterTypes, RowsInv, WriterTypes', RowsInv', message.status = "streaming",
         Settles(message'), message'.run = message.run, message'.status \in Ended,
         page' = page
  PROVE  View!Settle
<1> DEFINE n == message.run
<1>1. /\ Len(Rounds) = n /\ DOMAIN Rounds = 1 .. n /\ n \in Nat \ {0}
      /\ \A r \in 1 .. n : Rounds[r] = IF r <= Len(outcomes) THEN outcomes[r] ELSE NotEnded
  BY RoundsAre
<1>2. /\ DOMAIN Rounds' = 1 .. n
      /\ \A r \in 1 .. n : Rounds'[r] = IF r <= Len(outcomes') THEN outcomes'[r] ELSE NotEnded
      /\ NotEnded \notin Results
  <2>1. (WriterTypes /\ RowsInv)' =>
          /\ DOMAIN Rounds' = 1 .. message'.run
          /\ \A r \in 1 .. message'.run :
               Rounds'[r] = IF r <= Len(outcomes') THEN outcomes'[r] ELSE NotEnded
          /\ NotEnded' \notin Results'
    BY RoundsAre DEF Rounds, NotEnded, Outcome, Fresh, Results, Ended, Texts
  <2> QED BY RoundsAre DEF Rounds, Settles
<1>3. /\ Len(outcomes) = n - 1 /\ outcomes \in Seq(Results) /\ Len(outcomes') = n
      /\ \A r \in 1 .. n - 1 : outcomes'[r] = outcomes[r]
      /\ outcomes'[n] \in Results
  <2>1. Len(outcomes) = n - 1 /\ outcomes \in Seq(Results)
    BY DEF RowsInv, WriterTypes
  <2>2. outcomes' = Append(outcomes, Outcome(message'))
    BY DEF Settles
  <2>3. Len(outcomes') = n /\ outcomes' \in Seq(Results)
    BY DEF RowsInv, WriterTypes, Ended
  <2> QED BY <1>1, <2>1, <2>2, <2>3
<1>4. Rounds[n] = NotEnded /\ Rounds'[n] = outcomes'[n] /\ Rounds'[n] # NotEnded
  BY <1>1, <1>2, <1>3
<1>5. Rounds' = [Rounds EXCEPT ![n] = Rounds'[n]]
  <2>1. \A r \in 1 .. n : r # n => Rounds'[r] = Rounds[r]
    <3> TAKE r \in 1 .. n
    <3>1. r # n => r \in 1 .. n - 1 /\ r <= n - 1
      BY <1>1
    <3> QED BY <1>1, <1>2, <1>3, <3>1
  <2>2. Rounds' = [r \in 1 .. n |-> Rounds'[r]] /\ Rounds = [r \in 1 .. n |-> Rounds[r]]
    BY <1>1, <1>2 DEF Rounds
  <2> HIDE DEF n
  <2> QED BY <1>1, <1>2, <2>1, <2>2
<1>6. ShownOutcome' = ShownOutcome
  BY DEF ShownOutcome, NotEnded, Outcome
<1> QED BY <1>1, <1>4, <1>5, <1>6 DEF View!Settle

\* A retry is a Restart.
LEMMA RestartMaps ==
  ASSUME WriterTypes, RowsInv, WriterTypes', RowsInv', message.status \in Ended,
         message' = Fresh(message.run + 1), outcomes' = outcomes,
         \/ page' = page
         \/ page'.status = "streaming" /\ page'.round = message'.run
  PROVE  View!Restart
<1> DEFINE n == message.run
<1>1. /\ Rounds \in Seq(Results \cup {NotEnded})
      /\ Len(Rounds) = n /\ DOMAIN Rounds = 1 .. n /\ n \in Nat \ {0}
      /\ \A r \in 1 .. n : Rounds[r] = IF r <= Len(outcomes) THEN outcomes[r] ELSE NotEnded
      /\ NotEnded \notin Results
  BY RoundsAre
<1>2. Len(outcomes) = n /\ outcomes[n] \in Results
  BY <1>1 DEF RowsInv, WriterTypes
<1>3. Rounds[n] # NotEnded
  BY <1>1, <1>2
<1>4. message'.run = n + 1
  BY DEF Fresh
<1>5. Rounds' = [r \in 1 .. n + 1 |-> IF r <= n THEN outcomes[r] ELSE NotEnded]
  BY <1>2, <1>4 DEF Rounds, NotEnded, Outcome, Fresh
<1>6. Append(Rounds, NotEnded) = [r \in 1 .. n + 1 |-> IF r <= n THEN Rounds[r] ELSE NotEnded]
  <2> DEFINE T == Results \cup {NotEnded}
             s == Append(Rounds, NotEnded)
  <2>1. /\ s \in Seq(T) /\ Len(s) = n + 1
        /\ \A r \in 1 .. n : s[r] = Rounds[r]
        /\ s[n + 1] = NotEnded
    BY <1>1, AppendProperties
  <2> HIDE DEF n, s, T
  <2>2. \A r \in 1 .. n + 1 : s[r] = IF r <= n THEN Rounds[r] ELSE NotEnded
    BY <1>1, <2>1
  <2>3. s = [r \in 1 .. n + 1 |-> s[r]]
    BY <2>1
  <2> QED BY <2>2, <2>3 DEF s
<1>7. Rounds' = Append(Rounds, NotEnded)
  <2> HIDE DEF n
  <2>1. \A r \in 1 .. n + 1 : r <= n => Rounds[r] = outcomes[r]
    BY <1>1, <1>2
  <2> QED BY <1>5, <1>6, <2>1
<1>8. Len(Rounds') = n + 1
  BY <1>1, <1>7
<1>9. CASE page' = page
  <2>1. ShownOutcome' = ShownOutcome
    BY <1>9 DEF ShownOutcome, NotEnded, Outcome
  <2> QED BY <1>1, <1>3, <1>7, <2>1 DEF View!Restart
<1>10. CASE page'.status = "streaming" /\ page'.round = message'.run
  <2>1. ShownOutcome' = [round |-> n + 1, outcome |-> NotEnded]
    BY <1>4, <1>10 DEF ShownOutcome, NotEnded, Outcome, Fresh
  <2> QED BY <1>1, <1>3, <1>7, <1>8, <2>1 DEF View!Restart
<1> QED BY <1>9, <1>10

\* A page load is a Load.
LEMMA LoadMaps ==
  ASSUME WriterTypes, RowsInv, UNCHANGED <<message, outcomes>>, page' = Rendered
  PROVE  View!Load
<1> DEFINE n == message.run
<1>1. /\ Len(Rounds) = n /\ n \in Nat \ {0}
      /\ \A r \in 1 .. n : Rounds[r] = IF r <= Len(outcomes) THEN outcomes[r] ELSE NotEnded
  BY RoundsAre
<1>2. Rounds' = Rounds
  BY DEF Rounds, NotEnded, Outcome
<1>3. page'.status = message.status /\ page'.round = n /\ page'.text = message.text
  BY DEF Rendered
<1>4. CASE message.status = "streaming"
  <2>0. n \in 1 .. n /\ ~(n <= Len(outcomes))
    BY <1>1, <1>4 DEF RowsInv
  <2>1. Rounds[n] = NotEnded
    BY <1>1, <2>0
  <2>2. ShownOutcome' = [round |-> n, outcome |-> NotEnded]
    BY <1>3, <1>4 DEF ShownOutcome, NotEnded, Outcome, Fresh
  <2> QED BY <1>1, <1>2, <2>1, <2>2 DEF View!Load
<1>5. CASE message.status # "streaming"
  <2>1. message.status \in Ended
    BY <1>5 DEF WriterTypes, Row, Statuses
  <2>2. Rounds[n] = Outcome(message)
    BY <1>1, <2>1 DEF RowsInv
  <2>3. ShownOutcome' = [round |-> n, outcome |-> Outcome(message)]
    BY <1>3, <1>5 DEF ShownOutcome, Outcome
  <2> QED BY <1>1, <1>2, <2>2, <2>3 DEF View!Load
<1> QED BY <1>4, <1>5

\* An outcome that arrives is a Show.
LEMMA ShowMaps ==
  ASSUME WriterTypes, RowsInv, UNCHANGED <<message, outcomes>>, page.status = "streaming",
         NEW m \in Row, m.status \in Ended, Settled(m), page.round \in Nat,
         page.round <= m.run, m.run <= message.run,
         page'.status = m.status, page'.text = m.text, page'.round = m.run
  PROVE  View!Show
<1> DEFINE n == message.run
<1>1. /\ Len(Rounds) = n /\ n \in Nat \ {0}
      /\ \A r \in 1 .. n : Rounds[r] = IF r <= Len(outcomes) THEN outcomes[r] ELSE NotEnded
      /\ NotEnded \notin Results
  BY RoundsAre
<1>2. Rounds' = Rounds
  BY DEF Rounds, NotEnded, Outcome
<1>3. m.run \in Nat /\ m.run \in 1 .. n /\ m.run <= Len(outcomes) /\ outcomes[m.run] \in Results
  BY <1>1 DEF Settled, WriterTypes, Row
<1>4. Rounds[m.run] = Outcome(m) /\ Rounds[m.run] # NotEnded
  BY <1>1, <1>3 DEF Settled
<1>5. ShownOutcome = [round |-> page.round, outcome |-> NotEnded]
  BY DEF ShownOutcome
<1>6. ShownOutcome' = [round |-> m.run, outcome |-> Outcome(m)]
  BY DEF ShownOutcome, Outcome, Ended
<1>7. m.run \in page.round .. n
  BY <1>1, <1>3
<1>8. m.run \in View!Due
  BY <1>1, <1>4, <1>5, <1>7 DEF View!Due
<1> QED BY <1>2, <1>4, <1>6, <1>8 DEF View!Show

\* Any other step of the page is none of AnswerView.
LEMMA StutterMaps ==
  ASSUME message'.run = message.run, outcomes' = outcomes,
         page'.round = page.round, page'.status = page.status,
         page.status = "streaming" \/ page'.text = page.text
  PROVE  UNCHANGED View!viewVars
BY DEF View!viewVars, Rounds, ShownOutcome, NotEnded, Outcome, Fresh

\* How a run ended stays as it is when later ones end.
LEMMA SettledStays ==
  ASSUME WriterTypes, outcomes' = outcomes \/ \E x : outcomes' = Append(outcomes, x),
         NEW m, m.run \in Nat, Settled(m)
  PROVE  m.run \in 1 .. Len(outcomes') /\ outcomes'[m.run] = Outcome(m)
<1>1. CASE outcomes' = outcomes
  BY <1>1 DEF Settled
<1>2. CASE \E x : outcomes' = Append(outcomes, x)
  <2>1. PICK x : outcomes' = Append(outcomes, x)
    BY <1>2
  <2>2. PICK n \in Nat : n = Len(outcomes)
    BY DEF WriterTypes
  <2>3. Len(outcomes') = n + 1 /\ \A i \in 1 .. n : outcomes'[i] = outcomes[i]
    BY <2>1, <2>2 DEF WriterTypes
  <2>4. m.run \in 1 .. n
    BY <2>2 DEF Settled
  <2>5. m.run \in 1 .. n + 1
    BY <2>2, <2>4
  <2> QED BY <2>2, <2>3, <2>4, <2>5 DEF Settled
<1> QED BY <1>1, <1>2

\* A step of a writer leaves the readers' part of the invariant alone.
LEMMA ReadersStay ==
  ASSUME StreamInv, WriterTypes', UNCHANGED <<conn, source, page>>,
         message'.run >= message.run,
         outcomes' = outcomes \/ \E x : outcomes' = Append(outcomes, x)
  PROVE  ReaderTypes' /\ ReaderInv'
<1>1. ReaderTypes'
  BY DEF StreamInv, ReaderTypes, IsConn, IsSource, IsPage, ConnPc, Statuses, Row, Ended, Texts
<1>2. message.run \in Nat /\ message'.run \in Nat /\ page.round \in Nat /\ conn.run \in Nat
      /\ conn.snap.run \in Nat
  BY DEF StreamInv, WriterTypes, Row, ReaderTypes, IsPage, IsConn
<1>3. conn.pc \in {"tools", "cites"} /\ conn.snap.status \in Ended => Settled(conn.snap)
  BY DEF StreamInv, ReaderInv
<1>4. conn.pc \in {"tools", "cites"} /\ conn.snap.status \in Ended => Settled(conn.snap)'
  <2>1. \A m : m = conn.snap => m = conn.snap'
    OBVIOUS
  <2>2. ASSUME conn.pc \in {"tools", "cites"}, conn.snap.status \in Ended
        PROVE  conn.snap.run \in 1 .. Len(outcomes') /\ outcomes'[conn.snap.run] = Outcome(conn.snap)
    BY <1>2, <1>3, <2>2, SettledStays DEF StreamInv
  <2> QED BY <2>2 DEF Settled, Outcome
<1>5. page'.round <= message'.run
  BY <1>2 DEF StreamInv, ReaderInv
<1>6. conn.pc \in {"tools", "cites", "live"} => conn.run <= message'.run
  BY <1>2 DEF StreamInv, ReaderInv
<1> QED BY <1>1, <1>4, <1>5, <1>6 DEF StreamInv, ReaderInv

\* And the events, if it publishes none.
LEMMA EventsStay ==
  ASSUME WriterTypes, EventsInv, events' = events,
         outcomes' = outcomes \/ \E x : outcomes' = Append(outcomes, x)
  PROVE  EventsInv'
<1> SUFFICES ASSUME NEW i \in DOMAIN events, events[i].kind \in Ended
             PROVE  /\ events[i].body \in Row /\ events[i].body.status \in Ended
                    /\ events[i].body.run = events[i].run /\ Settled(events[i].body)'
  BY DEF EventsInv, Row, Statuses, Ended, Texts
<1>1. /\ events[i].body \in Row /\ events[i].body.status \in Ended
      /\ events[i].body.run = events[i].run /\ Settled(events[i].body)
  BY DEF EventsInv
<1>2. events[i].body.run \in Nat
  BY <1>1 DEF Row
<1>3. events[i].body.run \in 1 .. Len(outcomes')
      /\ outcomes'[events[i].body.run] = Outcome(events[i].body)
  BY <1>1, <1>2, SettledStays
<1> QED BY <1>1, <1>3 DEF Settled, Outcome

\* A step that publishes an event, or fails to.
LEMMA PublishKeeps ==
  ASSUME StreamInv, NEW e \in StreamEntry, NEW label \in {"save", "final", "fail_event"},
         NEW t \in Texts, Publish(e, label, t),
         UNCHANGED <<message, toolRows, conn, source, page, outcomes>>,
         label = "save" => message.status = "streaming",
         label = "fail_event" => message.status = "failed",
         e.kind \in Ended => /\ e.body \in Row /\ e.body.status \in Ended
                             /\ e.body.run = e.run /\ Settled(e.body)
  PROVE  StreamInv' /\ UNCHANGED View!viewVars
<1> DEFINE n == Len(events)
<1>1. n \in Nat /\ Append(events, e) \in Seq(StreamEntry) /\ Len(Append(events, e)) = n + 1
      /\ \A i \in 1 .. n : Append(events, e)[i] = events[i]
      /\ Append(events, e)[n + 1] = e
  BY AppendProperties DEF StreamInv, WriterTypes
<1>2. events' = events \/ events' = Append(events, e)
  BY DEF Publish
<1>3. events' \in Seq(StreamEntry)
  BY <1>1, <1>2 DEF StreamInv, WriterTypes
<1>4. job'.pc = label /\ job' \in [pc : JobPc, text : Texts, event : Nat]
  BY <1>3 DEF Publish, JobPc
<1>5. WriterTypes'
  BY <1>3, <1>4 DEF StreamInv, WriterTypes, StreamEntry, Row, Body, Results, Texts, Statuses, Ended,
                    JobPc
<1>6. RowsInv'
  BY <1>4 DEF StreamInv, RowsInv, Outcome, Ended
<1>7. EventsInv'
  <2>1. CASE events' = events
    BY <2>1, EventsStay DEF StreamInv
  <2>2. CASE events' = Append(events, e)
    <3>1. ASSUME NEW i \in DOMAIN events', events'[i].kind \in Ended
          PROVE  /\ events'[i].body \in Row /\ events'[i].body.status \in Ended
                 /\ events'[i].body.run = events'[i].run /\ Settled(events'[i].body)
      <4>1. i \in 1 .. n \/ i = n + 1
        BY <1>1, <2>2
      <4>2. CASE i \in 1 .. n
        <5>1. events'[i] = events[i] /\ i \in DOMAIN events
          BY <1>1, <2>2, <4>2 DEF StreamInv, WriterTypes
        <5> QED BY <3>1, <5>1 DEF StreamInv, EventsInv
      <4>3. CASE i = n + 1
        BY <1>1, <2>2, <3>1, <4>3
      <4> QED BY <4>1, <4>2, <4>3
    <3> QED BY <3>1 DEF EventsInv, Settled, Outcome, Row, Statuses, Ended, Texts
  <2> QED BY <1>2, <2>1, <2>2
<1>8. ReaderTypes' /\ ReaderInv'
  <2>1. message'.run >= message.run
    BY DEF StreamInv, WriterTypes, Row
  <2> QED BY <1>5, <2>1, ReadersStay
<1>9. UNCHANGED View!viewVars
  BY StutterMaps
<1> QED BY <1>5, <1>6, <1>7, <1>8, <1>9 DEF StreamInv

\* A step of a writer that publishes nothing and ends no run.
LEMMA WriteKeeps ==
  ASSUME StreamInv, WriterTypes', RowsInv', UNCHANGED <<events, conn, source, page, outcomes>>,
         message'.run = message.run
  PROVE  StreamInv' /\ UNCHANGED View!viewVars
<1>1. EventsInv'
  BY EventsStay DEF StreamInv
<1>2. ReaderTypes' /\ ReaderInv'
  <2>1. message'.run >= message.run
    BY DEF StreamInv, WriterTypes, Row
  <2> QED BY <2>1, ReadersStay
<1>3. UNCHANGED View!viewVars
  BY StutterMaps
<1> QED BY <1>1, <1>2, <1>3 DEF StreamInv

\* A step that ends the run.
LEMMA EndKeeps ==
  ASSUME StreamInv, NEW m \in Row, Settles(m), m.run = message.run, m.status \in Ended,
         message.status = "streaming",
         toolRows' \in Seq(Nat), job' \in [pc : JobPc, text : Texts, event : Nat],
         job'.pc \notin {"tool", "save", "fail_row"},
         job'.pc \in {"cite", "done"} => m.status = "completed",
         job'.pc \in {"fail_tool", "fail_event"} => m.status = "failed",
         UNCHANGED <<events, page>>
  PROVE  /\ WriterTypes' /\ RowsInv' /\ EventsInv' /\ View!Settle
         /\ Settled(m)' /\ message'.run >= message.run
         /\ \E x : outcomes' = Append(outcomes, x)
<1>1. /\ message' = m /\ outcomes' = Append(outcomes, Outcome(m))
      /\ Outcome(m) \in Results
  BY DEF Settles, Outcome, Results, Row
<1>2. /\ outcomes' \in Seq(Results) /\ Len(outcomes') = Len(outcomes) + 1
      /\ outcomes'[Len(outcomes) + 1] = Outcome(m)
  BY <1>1, AppendProperties DEF StreamInv, WriterTypes
<1>3. message.run \in Nat \ {0} /\ Len(outcomes) = message.run - 1
  BY DEF StreamInv, WriterTypes, RowsInv, Row
<1>4. WriterTypes'
  BY <1>1, <1>2 DEF StreamInv, WriterTypes, StreamEntry, Row, Body, Results, Texts, Statuses, Ended, JobPc
<1>5. Len(outcomes') = message.run /\ outcomes'[message.run] = Outcome(m)
      /\ message.run \in 1 .. message.run
  BY <1>2, <1>3
<1>6. RowsInv'
  BY <1>1, <1>5 DEF RowsInv, Ended, Outcome
<1>7. EventsInv'
  BY <1>1, EventsStay DEF StreamInv
<1>8. View!Settle
  BY <1>1, <1>4, <1>6, SettleMaps DEF StreamInv
<1>9. Settled(m)' /\ message'.run >= message.run
  BY <1>1, <1>3, <1>5 DEF Settled, Outcome
<1> QED BY <1>1, <1>4, <1>6, <1>7, <1>8, <1>9

\* The row of a run that starts.
LEMMA StartedRow ==
  ASSUME NEW r \in Nat \ {0}
  PROVE  Fresh(r) \in Row
<1>1. <<>> \in Texts
  BY DEF Texts
<1> QED BY <1>1 DEF Fresh, Row, Statuses

\* The job of a run that starts, and one that is over.
LEMMA StartedJob ==
  /\ NewJob \in [pc : JobPc, text : Texts, event : Nat] /\ NewJob.pc = "run"
  /\ JobOver \in [pc : JobPc, text : Texts, event : Nat] /\ JobOver.pc = "over"
<1>1. <<>> \in Texts
  BY DEF Texts
<1> QED BY <1>1 DEF NewJob, JobOver, JobPc

\* The text of a run that failed or was stopped.
LEMMA NoticeText ==
  ASSUME NEW r \in Nat
  PROVE  <<<<r, 0>>>> \in Texts
BY DEF Texts

\* Every step of the respond job.
LEMMA JobKeeps ==
  ASSUME StreamAssumption, StreamInv, RespondJob
  PROVE  StreamInv' /\ (View!Next \/ UNCHANGED View!viewVars)
<1> USE DEF StreamInv
<1>0. /\ message \in Row /\ message.run \in Nat \ {0} /\ message.text \in Texts
      /\ message.status \in Statuses
      /\ job \in [pc : JobPc, text : Texts, event : Nat] /\ toolRows \in Seq(Nat)
      /\ Len(toolRows) \in Nat
  BY DEF WriterTypes, Row
<1>1. CASE Stopped
  <2>1. job' = JobOver /\ JobOver.pc = "over" /\ JobOver \in [pc : JobPc, text : Texts, event : Nat]
    BY <1>1, StartedJob DEF Stopped
  <2>2. UNCHANGED <<message, toolRows, events, conn, source, page, outcomes>>
    BY <1>1 DEF Stopped
  <2>3. WriterTypes' /\ RowsInv'
    BY <2>1, <2>2 DEF WriterTypes, RowsInv, Outcome, Ended, StreamEntry, Row, Body, Results, Texts, Statuses, JobPc
  <2> QED BY <2>2, <2>3, WriteKeeps
<1>2. CASE ToolRow \/ FailToolRow
  <2>1. PICK label \in {"tool", "fail_row"} : JobGoes(label)
    BY <1>2 DEF ToolRow, FailToolRow
  <2>2. job' \in [pc : JobPc, text : Texts, event : Nat] /\ job'.pc = label
    BY <1>0, <2>1 DEF JobGoes, JobPc
  <2>3. message.status = "streaming" /\ toolRows' = Append(toolRows, message.run)
        /\ UNCHANGED <<message, events, conn, source, page, outcomes>>
    BY <1>2 DEF ToolRow, FailToolRow, Streaming
  <2>4. toolRows' \in Seq(Nat)
    BY <1>0, <2>3
  <2>5. WriterTypes' /\ RowsInv'
    BY <2>2, <2>3, <2>4 DEF WriterTypes, RowsInv, Outcome, Ended, StreamEntry, Row, Body, Results, Texts, Statuses, JobPc
  <2> QED BY <2>3, <2>5, WriteKeeps
<1>3. CASE ToolEvent \/ FailToolEvent
  <2>1. Event("tool", Len(toolRows)) \in StreamEntry /\ Event("tool", Len(toolRows)).kind = "tool"
    BY <1>0 DEF Event, StreamEntry, Body
  <2>2. UNCHANGED <<message, toolRows, conn, source, page, outcomes>>
    BY <1>3 DEF ToolEvent, FailToolEvent
  <2>3. PICK label \in {"save", "fail_event"} :
          /\ Publish(Event("tool", Len(toolRows)), label, job.text)
          /\ label = "save" => message.status = "streaming"
          /\ label = "fail_event" => message.status = "failed"
    BY <1>3 DEF ToolEvent, FailToolEvent, RowsInv
  <2>4. Event("tool", Len(toolRows)).kind \notin Ended
    BY <2>1 DEF Ended
  <2> QED BY <1>0, <2>1, <2>2, <2>3, <2>4, PublishKeeps
<1>4. CASE Delta
  <2> DEFINE piece == <<message.run, Len(job.text) + 1>>
  <2>1. piece \in Nat \X Nat /\ Append(job.text, piece) \in Texts
    <3>1. job.text \in Seq(Nat \X Nat) /\ Len(job.text) \in Nat
      BY <1>0 DEF Texts
    <3>2. piece \in Nat \X Nat
      BY <1>0, <3>1
    <3> HIDE DEF piece
    <3> QED BY <3>1, <3>2, AppendProperties DEF Texts
  <2>2. /\ Publish(Event("delta", piece), "save", Append(job.text, piece))
        /\ UNCHANGED <<message, toolRows, conn, source, page, outcomes>>
        /\ message.status = "streaming"
    BY <1>4 DEF Delta, Streaming
  <2> HIDE DEF piece
  <2>3. Event("delta", piece) \in StreamEntry /\ Event("delta", piece).kind \notin Ended
    BY <1>0, <2>1 DEF Event, StreamEntry, Body, Ended
  <2> QED BY <2>1, <2>2, <2>3, PublishKeeps
<1>5. CASE Save
  <2>1. PICK e \in Nat : message' = [message EXCEPT !.text = job.text, !.event = e]
    <3>1. message.event \in Nat /\ job.event \in Nat
      BY <1>0 DEF Row
    <3>2. PICK e \in Nat : e = IF job.event = 0 THEN message.event ELSE job.event
      BY <3>1
    <3> QED BY <1>0, <1>5, <3>2 DEF Save, Row
  <2>2. job' = [job EXCEPT !.pc = "run", !.event = 0]
        /\ UNCHANGED <<toolRows, events, conn, source, page, outcomes>>
        /\ message.status = "streaming"
    BY <1>5 DEF Save, RowsInv
  <2>3. message' \in Row /\ message'.run = message.run /\ message'.status = "streaming"
    BY <1>0, <2>1, <2>2 DEF Row
  <2>4. job' \in [pc : JobPc, text : Texts, event : Nat] /\ job'.pc = "run"
    BY <1>0, <2>2 DEF JobPc
  <2>5. WriterTypes' /\ RowsInv'
    BY <2>2, <2>3, <2>4 DEF WriterTypes, RowsInv, Ended, StreamEntry, Row, Body, Results, Texts, Statuses, JobPc
  <2> QED BY <2>2, <2>3, <2>5, WriteKeeps
<1>6. CASE Complete
  <2>1. PICK m : m = [message EXCEPT !.status = "completed"]
    OBVIOUS
  <2>2. m \in Row /\ m.run = message.run /\ m.status = "completed"
    BY <1>0, <2>1 DEF Row, Statuses, Ended
  <2>3. /\ Settles(m) /\ JobGoes("cite") /\ message.status = "streaming"
        /\ UNCHANGED <<toolRows, events, conn, source, page>>
    BY <1>6, <2>1 DEF Complete, Streaming
  <2>4. job' \in [pc : JobPc, text : Texts, event : Nat] /\ job'.pc = "cite" /\ toolRows' \in Seq(Nat)
    BY <1>0, <2>3 DEF JobGoes, JobPc
  <2>5. /\ WriterTypes' /\ RowsInv' /\ EventsInv' /\ View!Settle
        /\ message'.run >= message.run /\ \E x : outcomes' = Append(outcomes, x)
    BY <2>2, <2>3, <2>4, EndKeeps DEF Ended
  <2>6. ReaderTypes' /\ ReaderInv'
    BY <2>3, <2>5, ReadersStay
  <2> QED BY <2>5, <2>6 DEF View!Next
<1>7. CASE Cite
  <2>1. message' = [message EXCEPT !.cited = TRUE] /\ JobGoes("done")
        /\ UNCHANGED <<toolRows, events, conn, source, page, outcomes>>
        /\ message.status = "completed"
    BY <1>7 DEF Cite, RowsInv
  <2>2. message' \in Row /\ message'.run = message.run /\ message'.status = "completed"
        /\ Outcome(message') = Outcome(message)
    BY <1>0, <2>1 DEF Row, Outcome
  <2>3. job' \in [pc : JobPc, text : Texts, event : Nat] /\ job'.pc = "done"
    BY <1>0, <2>1 DEF JobGoes, JobPc
  <2>4. RowsInv'
    <3>1. Len(outcomes) = message.run /\ outcomes[message.run] = Outcome(message)
      BY <2>1 DEF RowsInv, Ended
    <3> QED BY <2>1, <2>2, <2>3, <3>1 DEF RowsInv, Outcome
  <2>5. WriterTypes'
    BY <2>1, <2>2, <2>3 DEF WriterTypes, Ended, StreamEntry, Row, Body, Results, Texts, Statuses, JobPc
  <2> QED BY <2>1, <2>2, <2>4, <2>5, WriteKeeps
<1>8. CASE AnswerDone \/ RunFailed
  <2>1. PICK kind \in {"completed", "failed"} :
          Publish(Event(kind, message), "final", job.text) /\ message.status = kind
    BY <1>8 DEF AnswerDone, RunFailed, RowsInv
  <2>2. UNCHANGED <<message, toolRows, conn, source, page, outcomes>>
    BY <1>8 DEF AnswerDone, RunFailed
  <2>3. /\ Event(kind, message) \in StreamEntry /\ Event(kind, message).body = message
        /\ Event(kind, message).run = message.run
    BY <1>0 DEF Event, StreamEntry, Body, Ended
  <2>4. Settled(message) /\ message.status \in Ended
    <3>1. Len(outcomes) = message.run /\ outcomes[message.run] = Outcome(message)
      BY <2>1 DEF RowsInv, Ended
    <3> QED BY <1>0, <2>1, <3>1 DEF Settled, Ended
  <2> QED BY <1>0, <2>1, <2>2, <2>3, <2>4, PublishKeeps
<1>9. CASE FailRow
  <2>1. PICK m : m = [message EXCEPT !.status = "failed", !.text = <<<<message.run, 0>>>>]
    OBVIOUS
  <2>2. m \in Row /\ m.run = message.run /\ m.status = "failed"
    <3>1. PICK t \in Texts : t = <<<<message.run, 0>>>>
      BY <1>0, NoticeText
    <3> QED BY <1>0, <2>1, <3>1 DEF Row, Statuses, Ended
  <2>3. /\ Settles(m) /\ JobGoes("fail_tool") /\ message.status = "streaming"
        /\ UNCHANGED <<toolRows, events, conn, source, page>>
    BY <1>9, <2>1 DEF FailRow, RowsInv
  <2>4. job' \in [pc : JobPc, text : Texts, event : Nat] /\ job'.pc = "fail_tool"
        /\ toolRows' \in Seq(Nat)
    BY <1>0, <2>3 DEF JobGoes, JobPc
  <2>5. /\ WriterTypes' /\ RowsInv' /\ EventsInv' /\ View!Settle
        /\ message'.run >= message.run /\ \E x : outcomes' = Append(outcomes, x)
    BY <2>2, <2>3, <2>4, EndKeeps DEF Ended
  <2>6. ReaderTypes' /\ ReaderInv'
    BY <2>3, <2>5, ReadersStay
  <2> QED BY <2>5, <2>6 DEF View!Next
<1>10. CASE Final
  <2>1. PICK e \in Nat : message' = [message EXCEPT !.event = e]
    <3>1. message.event \in Nat /\ job.event \in Nat
      BY <1>0 DEF Row
    <3>2. PICK e \in Nat : e = IF job.event = 0 THEN message.event ELSE job.event
      BY <3>1
    <3> QED BY <1>0, <1>10, <3>2 DEF Final, Row
  <2>2. job' = JobOver /\ JobOver.pc = "over" /\ JobOver \in [pc : JobPc, text : Texts, event : Nat]
        /\ UNCHANGED <<toolRows, events, conn, source, page, outcomes>>
    BY <1>10, StartedJob DEF Final
  <2>3. message' \in Row /\ message'.run = message.run /\ message'.status = message.status
        /\ Outcome(message') = Outcome(message)
    BY <1>0, <2>1 DEF Row, Outcome
  <2>4. RowsInv'
    BY <2>2, <2>3 DEF RowsInv, Outcome, Ended
  <2>5. WriterTypes'
    BY <2>2, <2>3 DEF WriterTypes, Ended, StreamEntry, Row, Body, Results, Texts, Statuses, JobPc
  <2> QED BY <2>2, <2>3, <2>4, <2>5, WriteKeeps
<1> QED
  BY <1>1, <1>2, <1>3, <1>4, <1>5, <1>6, <1>7, <1>8, <1>9, <1>10 DEF RespondJob

\* What the page or the handler does leaves the writers' part alone.
LEMMA WritersStay ==
  ASSUME StreamInv, UNCHANGED <<message, toolRows, events, job, outcomes>>
  PROVE  WriterTypes' /\ RowsInv' /\ EventsInv'
BY DEF StreamInv, WriterTypes, RowsInv, EventsInv, Settled, Outcome, StreamEntry, Row, Body,
       Results, Texts, Statuses, Ended, JobPc

\* Without a connection.
LEMMA NoConnIs ==
  IsConn(NoConn) /\ NoConn.pc = "none" /\ NoConn.snap \in Row
BY StartedRow DEF NoConn, IsConn, ConnPc

\* What a reader has after some of what was sent arrived.
LEMMA DeliverStep ==
  ASSUME ReaderTypes, NEW n \in Nat, NEW arrivals \in [1 .. n -> SentEntry], NEW c,
         \A k \in 1 .. n : arrivals[k].kind \in Ended => k = n /\ arrivals[k].body \in Row,
         Deliver(arrivals, c)
  PROVE  /\ IsSource(source') /\ IsPage(page')
         /\ \/ /\ page'.status = page.status /\ page'.round = page.round
               /\ source'.open = source.open /\ conn' \in {c, NoConn}
            \/ /\ n # 0 /\ arrivals[n].kind \in Ended
               /\ page'.status = arrivals[n].body.status
               /\ page'.text = arrivals[n].body.text /\ page'.round = arrivals[n].body.run
               /\ source'.open = FALSE /\ conn' = c
<1>1. arrivals \in Seq(SentEntry) /\ Len(arrivals) = n
  BY FunctionIsList, Zenon
<1>2. PICK k \in 0 .. n :
        /\ IF k = 0 THEN UNCHANGED <<page, source>> ELSE Receive(SubSeq(arrivals, 1, k))
        /\ IF k = n THEN conn' = c ELSE conn' = NoConn
  BY <1>1 DEF Deliver
<1>3. conn' \in {c, NoConn}
  BY <1>2
<1>4. CASE k = 0
  BY <1>2, <1>3, <1>4 DEF ReaderTypes, IsSource, IsPage, Statuses, Ended
<1> SUFFICES ASSUME k # 0 PROVE
       /\ IsSource(source') /\ IsPage(page')
       /\ \/ /\ page'.status = page.status /\ page'.round = page.round
             /\ source'.open = source.open
          \/ /\ arrivals[k].kind \in Ended
             /\ page'.status = arrivals[k].body.status
             /\ page'.text = arrivals[k].body.text /\ page'.round = arrivals[k].body.run
             /\ source'.open = FALSE
  <2>1. arrivals[k].kind \in Ended /\ k # 0 => k = n /\ n # 0
    BY <1>1
  <2> QED BY <1>2, <1>3, <1>4, <2>1
<1> DEFINE got == SubSeq(arrivals, 1, k)
           end == arrivals[k]
           seen == [page EXCEPT !.tools = ShowTools(@, Bodies(got, "tool")),
                                !.text = @ \o Bodies(got, "delta")]
<1>5. k \in 1 .. n /\ Last(got) = end /\ end \in SentEntry
  <2>1. k \in 1 .. n /\ Len(got) = k /\ got[k] = arrivals[k]
    BY <1>1
  <2> QED BY <2>1 DEF Last
<1>6. IF end.kind \in Ended
      THEN /\ page' = [Terminal(seen, end.body) EXCEPT !.round = end.body.run]
           /\ source' = [open |-> FALSE, last |-> 0]
      ELSE /\ page' = IF end.kind = "text" THEN [seen EXCEPT !.text = end.body] ELSE seen
           /\ source' = [source EXCEPT !.last = IF end.id = 0 THEN @ ELSE end.id]
  BY <1>2, <1>5 DEF Receive
<1>7. PICK ts, t : seen = [page EXCEPT !.tools = ts, !.text = t]
  OBVIOUS
<1> HIDE DEF got, seen
<1>8. CASE end.kind \in Ended
  <2>1. end.body \in Row /\ end.body.status \in Statuses /\ end.body.run \in Nat
    BY <1>5, <1>8 DEF Row
  <2>2. source' = [open |-> FALSE, last |-> 0]
        /\ page' = [Terminal(seen, end.body) EXCEPT !.round = end.body.run]
    BY <1>6, <1>8
  <2> HIDE DEF end
  <2>3. IsSource(source') /\ source'.open = FALSE
    BY <2>2 DEF IsSource
  <2>4. IsPage(page') /\ page'.status = end.body.status /\ page'.text = end.body.text
        /\ page'.round = end.body.run
    BY <1>7, <2>1, <2>2 DEF Terminal, ReaderTypes, IsPage
  <2> QED BY <1>8, <2>3, <2>4 DEF end
<1>9. CASE end.kind \notin Ended
  <2>1. page' \in {seen, [seen EXCEPT !.text = end.body]}
    BY <1>6, <1>9
  <2>2. PICK last : source' = [source EXCEPT !.last = last]
    BY <1>6, <1>9
  <2> HIDE DEF end
  <2>3. IsSource(source') /\ source'.open = source.open
    BY <2>2 DEF ReaderTypes, IsSource
  <2>4. IsPage(page') /\ page'.status = page.status /\ page'.round = page.round
    BY <1>7, <2>1 DEF ReaderTypes, IsPage
  <2> QED BY <2>3, <2>4
<1> QED BY <1>8, <1>9

\* A delivery that sends at most one outcome, the last thing it sends, and that one
\* of the run it follows.
LEMMA DeliverKeeps ==
  ASSUME StreamInv, UNCHANGED <<message, toolRows, events, job, outcomes>>,
         conn.pc \in {"tools", "cites", "live"},
         NEW n \in Nat, NEW arrivals \in [1 .. n -> SentEntry], NEW c,
         \A k \in 1 .. n : arrivals[k].kind \in Ended =>
            /\ k = n /\ arrivals[k].body \in Row /\ arrivals[k].body.status \in Ended
            /\ arrivals[k].body.run = conn.run /\ Settled(arrivals[k].body)
            /\ c.pc = "none",
         Deliver(arrivals, c), IsConn(c),
         \/ c.pc = "none"
         \/ c.pc = "live" /\ c.run = conn.run
         \/ /\ c.pc = "cites" /\ c.run = conn.run /\ c.snap.run = conn.run
            /\ c.snap.status \in Ended /\ Settled(c.snap)
  PROVE  StreamInv' /\ (View!Next \/ UNCHANGED View!viewVars)
<1>1. WriterTypes' /\ RowsInv' /\ EventsInv'
  BY WritersStay
<1>2. source.open /\ page.status = "streaming" /\ page.round \in Nat /\ page.round <= conn.run
      /\ conn.run <= message.run /\ ReaderTypes /\ conn.run \in Nat /\ message.run \in Nat
      /\ page.round <= message.run
  BY DEF StreamInv, ReaderInv, ReaderTypes, IsPage, IsConn, WriterTypes, Row
<1>3. /\ IsSource(source') /\ IsPage(page')
      /\ \/ /\ page'.status = page.status /\ page'.round = page.round
            /\ source'.open = source.open /\ conn' \in {c, NoConn}
         \/ /\ n # 0 /\ arrivals[n].kind \in Ended
            /\ page'.status = arrivals[n].body.status
            /\ page'.text = arrivals[n].body.text /\ page'.round = arrivals[n].body.run
            /\ source'.open = FALSE /\ conn' = c
  <2>1. \A k \in 1 .. n : arrivals[k].kind \in Ended => k = n /\ arrivals[k].body \in Row
    OBVIOUS
  <2> QED BY <1>2, <2>1, DeliverStep, Zenon
<1>4. \A m : Settled(m) => Settled(m)'
  BY DEF Settled, Outcome
<1>5. CASE /\ page'.status = page.status /\ page'.round = page.round
           /\ source'.open = source.open /\ conn' \in {c, NoConn}
  <2>1. IsConn(conn')
    BY <1>5, NoConnIs
  <2>2. \/ conn'.pc = "none"
        \/ conn'.pc = "live" /\ conn'.run = conn.run
        \/ /\ conn'.pc = "cites" /\ conn'.run = conn.run /\ conn'.snap.run = conn.run
           /\ conn'.snap.status \in Ended /\ Settled(conn'.snap)
    BY <1>5, NoConnIs
  <2>3. Settled(conn'.snap) => Settled(conn.snap)'
    BY DEF Settled, Outcome
  <2>4. ReaderInv'
    BY <1>2, <1>5, <2>2, <2>3 DEF ReaderInv
  <2>5. UNCHANGED View!viewVars
    BY <1>2, <1>5, StutterMaps
  <2>6. ReaderTypes'
    BY <1>3, <2>1 DEF ReaderTypes, IsConn, IsSource, IsPage, ConnPc, Statuses, Row, Ended, Texts
  <2> QED BY <1>1, <2>4, <2>5, <2>6 DEF StreamInv
<1>6. CASE /\ n # 0 /\ arrivals[n].kind \in Ended
           /\ page'.status = arrivals[n].body.status
           /\ page'.text = arrivals[n].body.text /\ page'.round = arrivals[n].body.run
           /\ source'.open = FALSE /\ conn' = c
  <2>1. PICK m \in Row : /\ m = arrivals[n].body /\ m.status \in Ended
                         /\ m.run = conn.run /\ Settled(m) /\ c.pc = "none"
    <3>1. n \in 1 .. n
      BY <1>6
    <3> QED BY <1>6, <3>1
  <2>2. page.round <= m.run /\ m.run <= message.run /\ m.run = page'.round
    BY <1>2, <1>6, <2>1
  <2>3. View!Show
    BY <1>2, <1>6, <2>1, <2>2, ShowMaps DEF StreamInv
  <2>4. ReaderInv'
    BY <1>6, <2>1, <2>2 DEF ReaderInv
  <2>5. ReaderTypes'
    BY <1>3, <1>6 DEF ReaderTypes, IsConn, IsSource, IsPage, ConnPc, Statuses, Row, Ended, Texts
  <2> QED BY <1>1, <2>3, <2>4, <2>5 DEF StreamInv, View!Next
<1> QED BY <1>3, <1>5, <1>6

\* A step of the handler or of EventSource that the page does not see.
LEMMA HandlerKeeps ==
  ASSUME StreamInv, SyncRow \/ Idle \/ Connect \/ Break
  PROVE  StreamInv' /\ UNCHANGED View!viewVars
<1>1. UNCHANGED <<message, toolRows, events, job, source, page, outcomes>>
  BY DEF SyncRow, Idle, Connect, Break
<1>2. WriterTypes' /\ RowsInv' /\ EventsInv'
  BY <1>1, WritersStay
<1>3. /\ message \in Row /\ message.run \in Nat /\ page.round \in Nat /\ conn.run \in Nat
      /\ page.round <= message.run
  BY DEF StreamInv, WriterTypes, Row, ReaderTypes, IsPage, IsConn, ReaderInv
<1>4. IsConn(conn')
  BY <1>3, NoConnIs DEF StreamInv, ReaderTypes, SyncRow, Idle, Connect, Break, IsConn, ConnPc
<1>5. message.status \in Ended => Settled(message)'
  <2>1. message.status \in Ended =>
          Len(outcomes) = message.run /\ outcomes[message.run] = Outcome(message)
    BY DEF StreamInv, RowsInv
  <2> QED BY <1>1, <1>3, <2>1 DEF Settled, Outcome, StreamInv, WriterTypes, Row
<1>6. ReaderTypes'
  BY <1>1, <1>4 DEF StreamInv, ReaderTypes, IsConn, IsSource, IsPage, ConnPc, Statuses, Row,
                    Ended, Texts
<1>7. ReaderInv'
  <2>1. CASE SyncRow
    <3>1. conn'.pc = "tools" /\ conn'.run = message.run /\ conn'.snap = message /\ conn.pc = "row"
      BY <2>1 DEF SyncRow, StreamInv, ReaderTypes, IsConn
    <3>2. conn'.snap.status \in Ended => Settled(conn.snap)'
      BY <1>1, <1>5, <3>1 DEF Settled, Outcome
    <3> QED BY <1>1, <1>3, <3>1, <3>2 DEF StreamInv, ReaderInv
  <2>2. CASE Idle \/ Connect
    <3>1. conn'.pc = "row" /\ source.open
      BY <2>2 DEF Idle, Connect, StreamInv, ReaderInv, ReaderTypes, IsConn, NoConn
    <3> QED BY <1>1, <1>3, <3>1 DEF StreamInv, ReaderInv
  <2>3. CASE Break
    <3>1. conn'.pc = "none"
      BY <2>3 DEF Break, NoConn
    <3> QED BY <1>1, <1>3, <3>1 DEF StreamInv, ReaderInv
  <2> QED BY <2>1, <2>2, <2>3
<1>8. UNCHANGED View!viewVars
  BY <1>1, StutterMaps
<1> QED BY <1>2, <1>6, <1>7, <1>8 DEF StreamInv

\* The page is loaded.
LEMMA ReloadKeeps ==
  ASSUME StreamInv, Reload
  PROVE  StreamInv' /\ View!Load
<1>1. /\ page' = Rendered /\ conn' = NoConn
      /\ source' = [open |-> message.status = "streaming", last |-> 0]
      /\ UNCHANGED <<message, toolRows, events, job, outcomes>>
  BY DEF Reload
<1>2. WriterTypes' /\ RowsInv' /\ EventsInv'
  BY <1>1, WritersStay
<1>3. message.run \in Nat /\ message.status \in Statuses
  BY DEF StreamInv, WriterTypes, Row
<1>4. IsPage(page') /\ page'.round = message.run /\ page'.status = message.status
  BY <1>1, <1>3 DEF Rendered, IsPage
<1>5. IsSource(source') /\ (source'.open => message.status = "streaming")
  BY <1>1 DEF IsSource
<1>6. ReaderTypes'
  BY <1>1, <1>4, <1>5, NoConnIs DEF ReaderTypes, IsConn, IsSource, IsPage, ConnPc, Statuses,
                                    Row, Ended, Texts
<1>7. ReaderInv'
  BY <1>1, <1>3, <1>4, <1>5, NoConnIs DEF ReaderInv
<1>8. View!Load
  BY <1>1, LoadMaps DEF StreamInv
<1> QED BY <1>2, <1>6, <1>7, <1>8 DEF StreamInv

\* The answer is stopped.
LEMMA StopKeeps ==
  ASSUME StreamInv, Stop
  PROVE  StreamInv' /\ View!Settle
<1>1. /\ message \in Row /\ message.run \in Nat /\ message.text \in Texts
      /\ job \in [pc : JobPc, text : Texts, event : Nat] /\ toolRows \in Seq(Nat)
  BY DEF StreamInv, WriterTypes, Row
<1>2. PICK t \in Texts : t = IF message.text = <<>> THEN <<<<message.run, 0>>>> ELSE message.text
  BY <1>1, NoticeText
<1>3. PICK m : m = [message EXCEPT !.status = "completed", !.text = t]
  OBVIOUS
<1>4. m \in Row /\ m.run = message.run /\ m.status = "completed"
  BY <1>1, <1>2, <1>3 DEF Row, Statuses, Ended
<1>5. /\ Settles(m) /\ message.status = "streaming" /\ job.pc = "run"
      /\ UNCHANGED <<toolRows, events, job, conn, source, page>>
  BY <1>1, <1>2, <1>3 DEF Stop, Row
<1>6. /\ WriterTypes' /\ RowsInv' /\ EventsInv' /\ View!Settle
      /\ message'.run >= message.run /\ \E x : outcomes' = Append(outcomes, x)
  BY <1>1, <1>4, <1>5, EndKeeps DEF Ended
<1>7. ReaderTypes' /\ ReaderInv'
  BY <1>5, <1>6, ReadersStay
<1> QED BY <1>6, <1>7 DEF StreamInv

\* The handler expires the answer.
LEMMA ExpireKeeps ==
  ASSUME StreamInv, Expire
  PROVE  StreamInv' /\ View!Settle
<1>1. /\ message \in Row /\ message.run \in Nat
      /\ job \in [pc : JobPc, text : Texts, event : Nat] /\ toolRows \in Seq(Nat)
  BY DEF StreamInv, WriterTypes, Row
<1>2. PICK t \in Texts : t = <<<<message.run, 0>>>>
  BY <1>1, NoticeText
<1>3. PICK m : m = [message EXCEPT !.status = "failed", !.text = t]
  OBVIOUS
<1>4. m \in Row /\ m.run = message.run /\ m.status = "failed"
  BY <1>1, <1>2, <1>3 DEF Row, Statuses, Ended
<1>5. /\ Settles(m) /\ message.status = "streaming" /\ job.pc = "run" /\ conn.pc = "row"
      /\ conn' = [conn EXCEPT !.pc = "tools", !.run = message.run, !.snap = m]
      /\ toolRows' = Append(toolRows, message.run)
      /\ UNCHANGED <<events, job, source, page>>
  BY <1>2, <1>3 DEF Expire, Streaming
<1>6. toolRows' \in Seq(Nat)
  BY <1>1, <1>5
<1>7. /\ WriterTypes' /\ RowsInv' /\ EventsInv' /\ View!Settle
      /\ Settled(m)' /\ message' = m
  BY <1>1, <1>4, <1>5, <1>6, EndKeeps DEF Ended, Settles
<1>8. conn'.pc = "tools" /\ conn'.run = message.run /\ conn'.snap = m /\ IsConn(conn')
  BY <1>1, <1>4, <1>5 DEF StreamInv, ReaderTypes, IsConn, ConnPc
<1>9. ReaderTypes'
  BY <1>5, <1>8 DEF StreamInv, ReaderTypes, IsConn, IsSource, IsPage, ConnPc, Statuses, Row,
                    Ended, Texts
<1>10. source.open /\ page.status = "streaming" /\ page.round \in Nat /\ page.round <= message.run
  BY <1>5 DEF StreamInv, ReaderInv, ReaderTypes, IsPage
<1>11. Settled(conn.snap)'
  BY <1>7, <1>8 DEF Settled, Outcome
<1>12. ReaderInv'
  BY <1>1, <1>4, <1>5, <1>7, <1>8, <1>10, <1>11 DEF ReaderInv
<1> QED BY <1>7, <1>9, <1>12 DEF StreamInv

\* The answer is regenerated.
LEMMA RetryKeeps ==
  ASSUME StreamInv, Retry(TRUE) \/ Retry(FALSE)
  PROVE  StreamInv' /\ View!Restart
<1>1. /\ message.status \in Ended /\ message' = Fresh(message.run + 1) /\ job' = NewJob
      /\ UNCHANGED <<toolRows, events, outcomes>>
  BY DEF Retry, StreamInv, WriterTypes, Row, Statuses
<1>2. message.run \in Nat /\ message.run + 1 \in Nat \ {0} /\ Len(outcomes) = message.run
  BY <1>1 DEF StreamInv, WriterTypes, Row, RowsInv
<1>3. message' \in Row /\ message'.run = message.run + 1 /\ message'.status = "streaming"
  BY <1>1, <1>2, StartedRow DEF Fresh
<1>4. job' \in [pc : JobPc, text : Texts, event : Nat] /\ job'.pc = "run"
  BY <1>1, StartedJob
<1>5. WriterTypes'
  BY <1>1, <1>3, <1>4 DEF StreamInv, WriterTypes, Ended, StreamEntry, Row, Body, Results, Texts,
                          Statuses, JobPc
<1>6. RowsInv'
  BY <1>1, <1>2, <1>3, <1>4 DEF RowsInv, Ended
<1>7. EventsInv'
  BY <1>1, EventsStay DEF StreamInv
<1>8. CASE Retry(FALSE)
  <2>1. UNCHANGED <<page, source, conn>> /\ message'.run >= message.run
    BY <1>2, <1>3, <1>8 DEF Retry
  <2>2. ReaderTypes' /\ ReaderInv'
    BY <1>1, <1>5, <2>1, ReadersStay
  <2>3. View!Restart
    BY <1>1, <1>5, <1>6, <2>1, RestartMaps DEF StreamInv
  <2> QED BY <1>5, <1>6, <1>7, <2>2, <2>3 DEF StreamInv
<1>9. CASE Retry(TRUE)
  <2>1. /\ page' = [page EXCEPT !.status = "streaming", !.text = <<>>, !.tools = <<>>,
                                !.cited = FALSE, !.round = message'.run]
        /\ source' = [open |-> TRUE, last |-> 0] /\ conn' = NoConn
    BY <1>9 DEF Retry
  <2>2. IsPage(page') /\ page'.status = "streaming" /\ page'.round = message'.run
    BY <1>2, <1>3, <2>1 DEF StreamInv, ReaderTypes, IsPage, Statuses
  <2>3. IsSource(source')
    BY <2>1 DEF IsSource
  <2>4. ReaderTypes'
    BY <2>1, <2>2, <2>3, NoConnIs DEF ReaderTypes, IsConn, IsSource, IsPage, ConnPc, Statuses,
                                      Row, Ended, Texts
  <2>5. ReaderInv'
    BY <1>2, <1>3, <2>1, <2>2, NoConnIs DEF ReaderInv
  <2>6. View!Restart
    BY <1>1, <1>5, <1>6, <2>2, RestartMaps DEF StreamInv
  <2> QED BY <1>5, <1>6, <1>7, <2>4, <2>5, <2>6 DEF StreamInv
<1> QED BY <1>8, <1>9

\* The handler sends tool rows and a text.
LEMMA SyncToolsKeeps ==
  ASSUME StreamInv, SyncTools
  PROVE  StreamInv' /\ (View!Next \/ UNCHANGED View!viewVars)
<1> DEFINE rows == Ascending(Unsent)
           snap == conn.snap
           live == snap.status = "streaming"
           tools == [i \in DOMAIN rows |-> Arrival("tool", 0, rows[i])]
           texts == IF live THEN NewText ELSE <<>>
           c == [conn EXCEPT !.pc = IF live THEN "live" ELSE "cites",
                             !.snap = IF live THEN NoConn.snap ELSE @,
                             !.sent = @ \cup Unsent,
                             !.text = IF live THEN snap.text ELSE @,
                             !.cursor = IF @ = 0 THEN snap.event ELSE @]
<1>1. conn.pc = "tools" /\ Deliver(tools \o texts, c)
      /\ UNCHANGED <<message, toolRows, events, job, outcomes>>
  BY DEF SyncTools
<1>2. PICK r \in Nat : rows \in [1 .. r -> Nat]
  <2>1. Unsent \in SUBSET (1 .. Len(toolRows)) /\ Len(toolRows) \in Nat
    BY DEF Unsent, StreamInv, WriterTypes
  <2>2. Cardinality(Unsent) \in Nat /\ rows \in [1 .. Cardinality(Unsent) -> Unsent]
    BY <2>1, AscendingLists
  <2>3. \A x \in Unsent : x \in Nat
    BY <2>1
  <2> HIDE DEF rows
  <2> QED BY <2>2, <2>3
<1>3. snap \in Row /\ snap.text \in Texts /\ snap.status \in Statuses
  BY DEF StreamInv, ReaderTypes, IsConn, Row
<1> DEFINE Plain == {a \in SentEntry : a.kind \notin Ended}
<1>4. \A i \in Nat : Arrival("tool", 0, i) \in Plain
  BY DEF Arrival, SentEntry, Body, Ended
<1>5. Arrival("text", 0, snap.text) \in Plain
  BY <1>3 DEF Arrival, SentEntry, Body, Ended
<1> HIDE DEF rows, snap, Plain
<1>6. tools \in [1 .. r -> Plain]
  BY <1>2, <1>4
<1>7. tools \in Seq(Plain)
  BY <1>6, FunctionIsList, Zenon
<1>8. texts \in Seq(Plain)
  BY <1>5 DEF NewText, snap
<1> HIDE DEF tools, texts
<1>9. PICK arrivals \in Seq(Plain) : arrivals = tools \o texts
  BY <1>7, <1>8, ConcatProperties, Zenon
<1>10. PICK n \in Nat : n = Len(arrivals)
  OBVIOUS
<1>11. arrivals \in [1 .. n -> SentEntry] /\ \A k \in 1 .. n : arrivals[k].kind \notin Ended
  <2>1. arrivals \in [1 .. n -> Plain]
    BY <1>10
  <2> QED BY <2>1 DEF Plain
<1>12. IsConn(c) /\ c.run = conn.run /\ c.pc = (IF live THEN "live" ELSE "cites")
       /\ (~live => c.snap = snap)
  <2>1. PICK pc \in ConnPc, kept \in Row :
          /\ pc = (IF live THEN "live" ELSE "cites")
          /\ kept = (IF live THEN NoConn.snap ELSE conn.snap)
    BY <1>3, NoConnIs DEF ConnPc, snap
  <2>2. PICK sent, t, cursor :
          c = [conn EXCEPT !.pc = pc, !.snap = kept, !.sent = sent, !.text = t,
                           !.cursor = cursor]
    BY <2>1
  <2> HIDE DEF c, live
  <2> QED BY <2>1, <2>2 DEF StreamInv, ReaderTypes, IsConn, snap
<1>13. \/ c.pc = "live"
       \/ /\ c.pc = "cites" /\ c.snap.run = conn.run
          /\ c.snap.status \in Ended /\ Settled(c.snap)
  <2>1. ~live => snap.status \in Ended
    BY <1>3 DEF Statuses
  <2>2. snap.run = conn.run /\ (snap.status \in Ended => Settled(snap))
    BY <1>1 DEF StreamInv, ReaderInv, snap
  <2> HIDE DEF c, live
  <2> QED BY <1>12, <2>1, <2>2
<1> HIDE DEF c, live
<1>14. Deliver(arrivals, c)
  BY <1>1, <1>9
<1> QED BY <1>1, <1>11, <1>12, <1>13, <1>14, DeliverKeeps

\* The handler sends the outcome it read.
LEMMA SyncCitesKeeps ==
  ASSUME StreamInv, SyncCites
  PROVE  StreamInv' /\ (View!Next \/ UNCHANGED View!viewVars)
<1>1. PICK m : m = [conn.snap EXCEPT !.cited = message.cited]
  OBVIOUS
<1>2. PICK arrivals : arrivals = <<Arrival(m.status, 0, m)>>
  OBVIOUS
<1>3. conn.pc = "cites" /\ conn.snap \in Row /\ conn.snap.run = conn.run
      /\ conn.snap.status \in Ended /\ Settled(conn.snap) /\ message.cited \in BOOLEAN
  BY DEF SyncCites, StreamInv, ReaderInv, ReaderTypes, IsConn, WriterTypes, Row
<1>4. m \in Row /\ m.run = conn.run /\ m.status \in Ended /\ Outcome(m) = Outcome(conn.snap)
      /\ m.status = conn.snap.status
  BY <1>1, <1>3 DEF Row, Outcome
<1>5. Settled(m)
  BY <1>3, <1>4 DEF Settled
<1>6. Deliver(arrivals, NoConn) /\ UNCHANGED <<message, toolRows, events, job, outcomes>>
  BY <1>1, <1>2, <1>4 DEF SyncCites
<1>7. Arrival(m.status, 0, m) \in SentEntry /\ Arrival(m.status, 0, m).body = m
  BY <1>4 DEF Arrival, SentEntry, Body
<1>8. arrivals \in [1 .. 1 -> SentEntry] /\ arrivals[1].body = m
  BY <1>2, <1>7
<1>9. \A k \in 1 .. 1 : arrivals[k].kind \in Ended =>
        /\ k = 1 /\ arrivals[k].body \in Row /\ arrivals[k].body.status \in Ended
        /\ arrivals[k].body.run = conn.run /\ Settled(arrivals[k].body)
        /\ NoConn.pc = "none"
  BY <1>4, <1>5, <1>8, NoConnIs
<1>10. IsConn(NoConn) /\ NoConn.pc = "none" /\ conn.pc \in {"tools", "cites", "live"}
  BY <1>3, NoConnIs
<1> QED BY <1>6, <1>8, <1>9, <1>10, DeliverKeeps, Zenon

\* The handler sends the new events, of which only the last may end the run.
LEMMA LiveKeeps ==
  ASSUME StreamInv, Live
  PROVE  StreamInv' /\ (View!Next \/ UNCHANGED View!viewVars)
<1> DEFINE ids == Ascending(NewIds)
           arrivals == [k \in DOMAIN ids |->
                          Arrival(events[ids[k]].kind, ids[k], events[ids[k]].body)]
           c == IF Ends(Last(ids)) THEN NoConn
                ELSE [conn EXCEPT !.cursor = Last(ids),
                                  !.text = @ \o Bodies(arrivals, "delta"),
                                  !.sent = @ \cup ToSet(Bodies(arrivals, "tool"))]
           n == Cardinality(NewIds)
<1>1. conn.pc = "live" /\ NewIds # {} /\ Deliver(arrivals, c)
      /\ UNCHANGED <<message, toolRows, events, job, outcomes>>
  BY DEF Live
<1>2. events \in Seq(StreamEntry) /\ Len(events) \in Nat
  BY DEF StreamInv, WriterTypes
<1>3. NewIds \in SUBSET (1 .. Len(events))
  BY <1>2 DEF NewIds
<1>4. /\ n \in Nat /\ ids \in [1 .. n -> NewIds]
      /\ \A i \in NewIds : \E k \in 1 .. n : ids[k] = i
      /\ \A k, l \in 1 .. n : k < l => ids[k] < ids[l]
  BY <1>2, <1>3, AscendingLists
<1>5. n \in 1 .. n /\ Last(ids) = ids[n]
  <2>1. n # 0
    <3>1. PICK i \in NewIds : TRUE
      BY <1>1
    <3>2. PICK k \in 1 .. n : ids[k] = i
      BY <1>4
    <3> HIDE DEF n
    <3> QED BY <1>4, <3>2
  <2>2. Len(ids) = n
    <3> HIDE DEF ids, n
    <3> QED BY <1>4, FunctionIsList, Zenon
  <2> HIDE DEF ids, n
  <2> QED BY <1>4, <2>1, <2>2 DEF Last
<1> HIDE DEF ids, n
<1>6. ASSUME NEW k \in 1 .. n
      PROVE  /\ ids[k] \in NewIds /\ ids[k] \in 1 .. Len(events) /\ events[ids[k]] \in StreamEntry
             /\ events[ids[k]].run = conn.run
  BY <1>2, <1>3, <1>4 DEF NewIds, Behind
<1>7. ASSUME NEW k \in 1 .. n, Ends(ids[k]) PROVE k = n
  <2>1. ids[k] \in Nat /\ ids[n] \in Nat /\ ids[k] >= 1
    BY <1>2, <1>5, <1>6
  <2>2. ASSUME k # n PROVE FALSE
    <3>1. k < n
      BY <1>4, <2>2
    <3>2. ids[k] < ids[n]
      BY <1>4, <1>5, <3>1
    <3>3. ids[k] \in 1 .. ids[n] - 1
      BY <2>1, <3>2
    <3>4. Behind(ids[k])
      BY <1>6 DEF NewIds
    <3>5. ids[n] \in NewIds
      BY <1>5, <1>6
    <3> QED BY <1>7, <3>3, <3>4, <3>5 DEF NewIds
  <2> QED BY <2>2
<1>8. ASSUME NEW k \in 1 .. n
      PROVE  /\ arrivals[k] \in SentEntry /\ arrivals[k].kind = events[ids[k]].kind
             /\ arrivals[k].body = events[ids[k]].body
  <2>1. events[ids[k]].kind \in {"tool", "delta"} \cup Ended /\ events[ids[k]].body \in Body
        /\ ids[k] \in Nat
    BY <1>2, <1>6 DEF StreamEntry
  <2>2. arrivals[k] = Arrival(events[ids[k]].kind, ids[k], events[ids[k]].body)
    BY <1>4
  <2> QED BY <2>1, <2>2 DEF Arrival, SentEntry
<1>9. arrivals \in [1 .. n -> SentEntry]
  BY <1>4, <1>8
<1>10. ASSUME NEW k \in 1 .. n, arrivals[k].kind \in Ended
       PROVE  /\ k = n /\ arrivals[k].body \in Row /\ arrivals[k].body.status \in Ended
              /\ arrivals[k].body.run = conn.run /\ Settled(arrivals[k].body)
              /\ c.pc = "none"
  <2>1. events[ids[k]].kind \in Ended /\ arrivals[k].body = events[ids[k]].body
    BY <1>8, <1>10
  <2>2. k = n
    BY <1>7, <2>1 DEF Ends
  <2>3. c = NoConn
    BY <1>5, <2>1, <2>2 DEF Ends
  <2>4. ids[k] \in DOMAIN events /\ events[ids[k]].run = conn.run
    BY <1>2, <1>6
  <2>5. /\ events[ids[k]].body \in Row /\ events[ids[k]].body.status \in Ended
        /\ events[ids[k]].body.run = conn.run /\ Settled(events[ids[k]].body)
    BY <2>1, <2>4 DEF StreamInv, EventsInv
  <2> HIDE DEF arrivals, c
  <2> QED BY <2>1, <2>2, <2>3, <2>5, NoConnIs
<1>11. IsConn(c) /\ (c.pc = "none" \/ (c.pc = "live" /\ c.run = conn.run))
  <2>1. CASE Ends(Last(ids))
    <3>1. c = NoConn
      BY <2>1
    <3>2. IsConn(NoConn) /\ NoConn.pc = "none"
      BY NoConnIs
    <3> HIDE DEF c
    <3> QED BY <3>1, <3>2
  <2>2. CASE ~Ends(Last(ids))
    <3>1. PICK cursor, t, sent :
            c = [conn EXCEPT !.cursor = cursor, !.text = t, !.sent = sent]
      BY <2>2
    <3> HIDE DEF c
    <3> QED BY <1>1, <3>1 DEF StreamInv, ReaderTypes, IsConn
  <2> QED BY <2>1, <2>2
<1>12. conn.pc \in {"tools", "cites", "live"}
  BY <1>1
<1> HIDE DEF arrivals, c
<1> QED BY <1>1, <1>4, <1>9, <1>10, <1>11, <1>12, DeliverKeeps

\* The invariant holds at first, where AnswerView starts.
LEMMA StreamStarts ==
  ASSUME StreamAssumption, StreamInit
  PROVE  StreamInv /\ View!Init
<1>1. message = Fresh(1) /\ Fresh(1) \in Row /\ message.run = 1 /\ message.status = "streaming"
      /\ outcomes = <<>> /\ events = <<>> /\ toolRows = <<>> /\ job = NewJob
      /\ source = [open |-> TRUE, last |-> 0] /\ conn = NoConn /\ page = Rendered
  BY StartedRow DEF StreamInit, Fresh
<1>2. WriterTypes
  BY <1>1, StartedJob DEF WriterTypes
<1>3. RowsInv
  BY <1>1, StartedJob DEF RowsInv, Ended
<1>4. EventsInv
  BY <1>1 DEF EventsInv
<1>5. page.status = "streaming" /\ page.round = 1
  BY <1>1 DEF Rendered
<1>6. ReaderTypes
  BY <1>1, NoConnIs DEF ReaderTypes, IsSource, IsPage, Rendered, Statuses
<1>7. ReaderInv
  BY <1>1, <1>5, NoConnIs DEF ReaderInv
<1>8. Rounds = <<NotEnded>>
  <2>1. Rounds = [r \in 1 .. 1 |-> NotEnded]
    BY <1>1 DEF Rounds
  <2> QED BY <2>1
<1>9. ShownOutcome = [round |-> 1, outcome |-> NotEnded]
  BY <1>5 DEF ShownOutcome
<1> QED BY <1>2, <1>3, <1>4, <1>6, <1>7, <1>8, <1>9 DEF StreamInv, View!Init

\* Every step keeps the invariant and is a step of AnswerView, or none.
LEMMA StreamStep ==
  ASSUME StreamAssumption, StreamInv, [StreamNext]_streamVars
  PROVE  StreamInv' /\ [View!Next]_View!viewVars
<1>1. CASE RespondJob
  BY <1>1, JobKeeps
<1>2. CASE Stop
  BY <1>2, StopKeeps DEF View!Next
<1>3. CASE Expire
  BY <1>3, ExpireKeeps DEF View!Next
<1>4. CASE Retry(TRUE) \/ Retry(FALSE)
  BY <1>4, RetryKeeps DEF View!Next
<1>5. CASE Connect \/ Break \/ SyncRow \/ Idle
  BY <1>5, HandlerKeeps
<1>6. CASE Reload
  BY <1>6, ReloadKeeps DEF View!Next
<1>7. CASE SyncTools
  BY <1>7, SyncToolsKeeps
<1>8. CASE SyncCites
  BY <1>8, SyncCitesKeeps
<1>9. CASE Live
  BY <1>9, LiveKeeps
<1>10. CASE UNCHANGED streamVars
  <2>1. UNCHANGED <<message, toolRows, events, job, conn, source, page, outcomes>>
    BY <1>10 DEF streamVars
  <2>2. WriterTypes' /\ RowsInv' /\ EventsInv'
    BY <2>1, WritersStay
  <2>3. message'.run >= message.run
    BY <2>1 DEF StreamInv, WriterTypes, Row
  <2>4. ReaderTypes' /\ ReaderInv'
    BY <2>1, <2>2, <2>3, ReadersStay
  <2>5. UNCHANGED View!viewVars
    BY <2>1, StutterMaps
  <2> QED BY <2>2, <2>4, <2>5 DEF StreamInv
<1> QED BY <1>1, <1>2, <1>3, <1>4, <1>5, <1>6, <1>7, <1>8, <1>9, <1>10 DEF StreamNext, Handler

\* StreamImplementsAnswerView: the safety part of ImplementsAnswerView.  For any number
\* of runs, pieces, events and faults, a page is shown outcomes whole, as they were stored,
\* and never that of a round older than the one it was showing.
THEOREM StreamImplementsAnswerView == StreamSpec => View!ViewSafety
<1>1. StreamInit => StreamInv /\ View!Init
  BY StreamStarts, StreamAssumption
<1>2. StreamInv /\ [StreamNext]_streamVars => StreamInv' /\ [View!Next]_View!viewVars
  BY StreamStep, StreamAssumption
<1> QED BY <1>1, <1>2, PTL DEF StreamSpec, View!ViewSafety
=============================================================================
