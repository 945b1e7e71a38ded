-------------------------- MODULE MCEngines_proofs --------------------------
(***************************************************************************)
(* Proofs about the parts whose work goes on by itself: for any flows, any *)
(* calls that start, resume or cancel one, any number of connections and   *)
(* events of a stream and any number of exports.  The two definitions of a *)
(* workflow are proved about in WorkflowEngine_proofs, which is extended   *)
(* for the agreements and instantiated for the assets.                     *)
(***************************************************************************)
EXTENDS MCEngines, WorkflowEngine_proofs

-----------------------------------------------------------------------------
(***************************************************************************)
(* The stream of events.                                                   *)
(***************************************************************************)
\* What the client got rises, and what it missed was unseen.
Got == Len(received)

Latest == received[Got]

Rising == \A i, j \in 1 .. Got : i < j => received[i] < received[j]

Whole == Got > 0 =>
    \A e \in received[1] .. Latest : (\E i \in 1 .. Got : received[i] = e) \/ e \in unseen

\* The handler of the one open stream: it replays the event after the last
\* one the client got, and what it will not replay is unseen.
OpenInv(k) ==
    /\ phase[k] \in {"replay", "ended", "live"}
    /\ \A j \in Stream!Conns : isOpen[j] => j = k
    /\ phase[k] \in {"replay", "ended"} => Got > 0
    /\ phase[k] = "replay" =>
          /\ pos[k] = Latest + 1
          /\ atOnce => \A e \in (upto[k] + 1) .. length : e \in unseen
    /\ phase[k] \in {"ended", "live"} /\ Got > 0 =>
          \A e \in (Latest + 1) .. length : e \in unseen

StreamTyped ==
    /\ atOnce \in BOOLEAN
    /\ length \in 0 .. MaxEvents
    /\ phase \in [Stream!Conns -> {"none", "replay", "ended", "live", "released"}]
    /\ isOpen \in [Stream!Conns -> BOOLEAN]
    /\ pos \in [Stream!Conns -> 1 .. MaxEvents + 1]
    /\ upto \in [Stream!Conns -> 0 .. length]
    /\ received \in Seq(1 .. length)
    /\ before \in 0 .. Got
    /\ unseen \subseteq 1 .. length

StreamInv ==
    /\ StreamTyped
    /\ Rising /\ Whole
    /\ \A k \in Stream!Conns : isOpen[k] => OpenInv(k)

LEMMA StreamFacts ==
    ASSUME StreamTyped
    PROVE  /\ Got \in Nat /\ length \in Nat /\ MaxEvents \in Nat /\ length <= MaxEvents
           /\ \A i \in 1 .. Got : received[i] \in 1 .. length
           /\ Got > 0 => Latest \in 1 .. length
BY EnginesAssumption DEF StreamTyped, Got, Latest

LEMMA StreamInit == ASSUME Stream!Init PROVE StreamInv
<1>1. Got = 0 BY DEF Stream!Init, Got
<1>2. StreamTyped BY <1>1, EnginesAssumption DEF Stream!Init, StreamTyped
<1>3. \A k \in Stream!Conns : ~isOpen[k] BY DEF Stream!Init
<1>. QED BY <1>1, <1>2, <1>3 DEF StreamInv, Rising, Whole

\* An event is given to the open stream that listens, and to no other.
LEMMA StreamAppend == ASSUME StreamInv, Stream!AppendEvent PROVE StreamInv'
<1>. DEFINE next == length + 1
            Served == \E k \in Stream!Conns : phase[k] = "live" /\ isOpen[k]
<1>1. /\ length < MaxEvents /\ length' = next
      /\ received' = IF Served THEN Append(received, next) ELSE received
      /\ phase' = [k \in Stream!Conns |->
                      IF phase[k] = "live" /\ ~isOpen[k] THEN "released" ELSE phase[k]]
      /\ unseen' = IF \E k \in Stream!Conns : isOpen[k] /\ Stream!Past(k)
                   THEN unseen \cup {next} ELSE unseen
      /\ UNCHANGED <<atOnce, isOpen, pos, upto, before>>
  <2>1. Stream!Served # {} <=> Served BY DEF Stream!Served, Stream!Listening
  <2>2. \A k \in Stream!Conns : k \in Stream!Listening \ Stream!Served
                                   <=> phase[k] = "live" /\ ~isOpen[k]
    BY DEF Stream!Served, Stream!Listening
  <2>. QED BY <2>1, <2>2 DEF Stream!AppendEvent
<1>2. StreamTyped BY DEF StreamInv
<1>3. /\ Got \in Nat /\ length \in Nat /\ MaxEvents \in Nat /\ length <= MaxEvents
      /\ \A i \in 1 .. Got : received[i] \in 1 .. length
      /\ Got > 0 => Latest \in 1 .. length
  BY <1>2, StreamFacts
<1>4. /\ received' \in Seq(1 .. next) /\ Got' >= Got /\ Got' \in Nat
      /\ \A i \in 1 .. Got : received'[i] = received[i]
      /\ Served => Got' = Got + 1 /\ received'[Got + 1] = next
      /\ ~Served => Got' = Got /\ received' = received
  <2>1. received \in Seq(1 .. next) /\ next \in 1 .. next
    BY <1>2, <1>3 DEF StreamTyped
  <2>. HIDE DEF Served
  <2>2. CASE Served
    <3>1. received' = Append(received, next) BY <2>2, <1>1
    <3>. QED BY <2>1, <2>2, <3>1, <1>3 DEF Got
  <2>3. CASE ~Served
    <3>1. received' = received BY <2>3, <1>1
    <3>. QED BY <2>1, <2>3, <3>1, <1>3 DEF Got
  <2>. QED BY <2>2, <2>3
<1>5. StreamTyped'
  <2>1. upto' \in [Stream!Conns -> 0 .. length'] BY <1>1, <1>2, <1>3 DEF StreamTyped
  <2>2. before' \in 0 .. Got' BY <1>1, <1>2, <1>3, <1>4 DEF StreamTyped
  <2>3. unseen' \subseteq 1 .. length' BY <1>1, <1>2, <1>3 DEF StreamTyped
  <2>4. phase' \in [Stream!Conns -> {"none", "replay", "ended", "live", "released"}]
    <3>1. phase \in [Stream!Conns -> {"none", "replay", "ended", "live", "released"}]
      BY <1>2 DEF StreamTyped
    <3>. QED BY <3>1, <1>1
  <2>5. length' \in 0 .. MaxEvents BY <1>1, <1>3
  <2>6. received' \in Seq(1 .. length') BY <1>1, <1>4
  <2>7. /\ atOnce' \in BOOLEAN
        /\ isOpen' \in [Stream!Conns -> BOOLEAN]
        /\ pos' \in [Stream!Conns -> 1 .. MaxEvents + 1]
    BY <1>1, <1>2 DEF StreamTyped
  <2>. QED BY <2>1, <2>2, <2>3, <2>4, <2>5, <2>6, <2>7 DEF StreamTyped
<1>6. Rising'
  <2>1. ASSUME NEW i \in 1 .. Got', NEW j \in 1 .. Got', i < j
        PROVE  received'[i] < received'[j]
    <3>1. CASE j \in 1 .. Got
      <4>1. i \in 1 .. Got BY <2>1, <3>1, <1>3, <1>4
      <4>2. received[i] < received[j] BY <2>1, <3>1, <4>1 DEF StreamInv, Rising
      <4>. QED BY <3>1, <4>1, <4>2, <1>4
    <3>2. CASE j \notin 1 .. Got
      <4>1. j = Got + 1 /\ received'[j] = next BY <3>2, <1>3, <1>4
      <4>2. i \in 1 .. Got BY <2>1, <4>1, <1>3, <1>4
      <4>. QED BY <4>1, <4>2, <1>3, <1>4
    <3>. QED BY <3>1, <3>2
  <2>. QED BY <2>1 DEF Rising
<1>7. Whole' /\ (Served => Latest' = next) /\ (~Served => Latest' = Latest)
  <2>1. CASE ~Served
    BY <2>1, <1>1, <1>4 DEF Whole, Latest, Got, StreamInv
  <2>2. CASE Served
    <3>1. PICK k \in Stream!Conns : phase[k] = "live" /\ isOpen[k] BY <2>2
    <3>2. Got > 0 => \A e \in (Latest + 1) .. length : e \in unseen
      BY <3>1 DEF StreamInv, OpenInv
    <3>3. Latest' = next BY <2>2, <1>4 DEF Latest, Got
    <3>4. ASSUME NEW e \in received'[1] .. next
          PROVE  (\E i \in 1 .. Got' : received'[i] = e) \/ e \in unseen'
      <4>1. CASE e = next BY <4>1, <2>2, <1>3, <1>4
      <4>2. CASE e # next
        <5>1. Got > 0 BY <4>2, <2>2, <1>3, <1>4
        <5>2. received'[1] = received[1] /\ e \in received[1] .. length
          BY <5>1, <4>2, <1>3, <1>4
        <5>3. CASE e \in received[1] .. Latest
          <6>1. (\E i \in 1 .. Got : received[i] = e) \/ e \in unseen
            BY <5>1, <5>3 DEF StreamInv, Whole
          <6>. QED BY <6>1, <1>1, <1>3, <1>4
        <5>4. CASE e \in (Latest + 1) .. length
          BY <5>1, <5>4, <3>2, <1>1
        <5>. QED BY <5>1, <5>2, <5>3, <5>4, <1>3
      <4>. QED BY <4>1, <4>2
    <3>. QED BY <2>2, <3>3, <3>4, <1>3, <1>4 DEF Whole
  <2>. QED BY <2>1, <2>2
<1>8. ASSUME NEW k \in Stream!Conns, isOpen'[k] PROVE OpenInv(k)'
  <2>1. isOpen[k] /\ OpenInv(k) /\ phase'[k] = phase[k]
    BY <1>1, <1>8 DEF StreamInv
  <2>2. Served <=> phase[k] = "live" BY <2>1 DEF OpenInv
  <2>3. /\ \A j \in Stream!Conns : isOpen'[j] => j = k
        /\ phase'[k] \in {"replay", "ended", "live"}
        /\ phase'[k] \in {"replay", "ended"} => Got' > 0
    BY <2>1, <1>1, <1>3, <1>4 DEF OpenInv
  <2>4. CASE phase[k] = "replay"
    <3>1. ~Served /\ Latest' = Latest BY <2>2, <2>4, <1>7
    <3>2. ASSUME atOnce, NEW e \in (upto[k] + 1) .. next PROVE e \in unseen'
      <4>1. unseen' = unseen \cup {next}
        BY <2>1, <2>4, <3>2, <1>1 DEF Stream!Past
      <4>2. upto[k] \in Nat BY <1>2 DEF StreamTyped
      <4>. QED BY <4>1, <4>2, <3>2, <2>1, <2>4, <1>3 DEF OpenInv
    <3>. QED BY <2>1, <2>3, <2>4, <3>1, <3>2, <1>1 DEF OpenInv
  <2>5. CASE phase[k] = "ended"
    <3>1. ~Served /\ Latest' = Latest /\ Got' = Got BY <2>2, <2>5, <1>4, <1>7
    <3>2. unseen' = unseen \cup {next} BY <2>1, <2>5, <1>1 DEF Stream!Past
    <3>3. \A e \in (Latest + 1) .. next : Got > 0 => e \in unseen'
      BY <3>2, <2>1, <2>5, <1>3 DEF OpenInv
    <3>. QED BY <2>1, <2>3, <2>5, <3>1, <3>3, <1>1 DEF OpenInv
  <2>6. CASE phase[k] = "live"
    <3>1. Latest' = next BY <2>2, <2>6, <1>7
    <3>. QED BY <2>1, <2>3, <2>6, <3>1, <1>1, <1>3 DEF OpenInv
  <2>. QED BY <2>1, <2>4, <2>5, <2>6 DEF OpenInv
<1>. QED BY <1>5, <1>6, <1>7, <1>8 DEF StreamInv

\* A client connects with the last event it got, or without one.
LEMMA StreamConnect ==
    ASSUME StreamInv, NEW k \in Stream!Conns, Stream!Connect(k) PROVE StreamInv'
<1>. DEFINE r == received # << >>
<1>1. /\ \A j \in Stream!Conns : ~isOpen[j]
      /\ isOpen' = [isOpen EXCEPT ![k] = TRUE]
      /\ before' = Got
      /\ UNCHANGED <<atOnce, length, received, unseen>>
      /\ ~r => phase' = [phase EXCEPT ![k] = "live"] /\ pos' = pos /\ upto' = upto
      /\ r => /\ phase' = [phase EXCEPT ![k] = "replay"]
              /\ pos' = [pos EXCEPT ![k] = Latest + 1]
              /\ upto' = [upto EXCEPT ![k] = length]
  BY DEF Stream!Connect, Stream!ReplayFrom, Stream!Last, Got, Latest
<1>2. StreamTyped BY DEF StreamInv
<1>3. /\ Got \in Nat /\ length \in Nat /\ MaxEvents \in Nat /\ length <= MaxEvents
      /\ Got > 0 => Latest \in 1 .. length
  BY <1>2, StreamFacts
<1>4. r <=> Got > 0 BY <1>2 DEF StreamTyped, Got
<1>5. Got' = Got /\ Latest' = Latest BY <1>1 DEF Got, Latest
<1>. HIDE DEF r
<1>6. StreamTyped'
  <2>1. pos' \in [Stream!Conns -> 1 .. MaxEvents + 1]
    <3>1. r => Latest + 1 \in 1 .. MaxEvents + 1 BY <1>3, <1>4
    <3>2. pos \in [Stream!Conns -> 1 .. MaxEvents + 1] BY <1>2 DEF StreamTyped
    <3>3. CASE r BY <3>1, <3>2, <3>3, <1>1
    <3>4. CASE ~r BY <3>2, <3>4, <1>1
    <3>. QED BY <3>3, <3>4
  <2>2. upto' \in [Stream!Conns -> 0 .. length']
    <3>1. upto \in [Stream!Conns -> 0 .. length] /\ length \in 0 .. length
      BY <1>2, <1>3 DEF StreamTyped
    <3>2. CASE r BY <3>1, <3>2, <1>1
    <3>3. CASE ~r BY <3>1, <3>3, <1>1
    <3>. QED BY <3>2, <3>3
  <2>3. phase' \in [Stream!Conns -> {"none", "replay", "ended", "live", "released"}]
    BY <1>1, <1>2 DEF StreamTyped
  <2>4. before' \in 0 .. Got' BY <1>1, <1>3, <1>5
  <2>. QED BY <1>1, <1>2, <2>1, <2>2, <2>3, <2>4 DEF StreamTyped
<1>7. Rising' /\ Whole' BY <1>1, <1>5 DEF StreamInv, Rising, Whole
<1>8. ASSUME NEW j \in Stream!Conns, isOpen'[j] PROVE OpenInv(j)'
  <2>1. j = k /\ \A i \in Stream!Conns : isOpen'[i] => i = k
    BY <1>1, <1>2, <1>8 DEF StreamTyped
  <2>2. CASE r
    <3>1. phase'[k] = "replay" /\ pos'[k] = Latest' + 1 /\ upto'[k] = length'
      BY <2>2, <1>1, <1>2, <1>5 DEF StreamTyped
    <3>. QED BY <2>1, <2>2, <3>1, <1>1, <1>3, <1>4, <1>5 DEF OpenInv
  <2>3. CASE ~r
    <3>1. phase'[k] = "live" /\ ~(Got' > 0)
      BY <2>3, <1>1, <1>2, <1>4, <1>5 DEF StreamTyped
    <3>. QED BY <2>1, <3>1 DEF OpenInv
  <2>. QED BY <2>2, <2>3
<1>. QED BY <1>6, <1>7, <1>8 DEF StreamInv

\* The next event is sent, or the replay ends: then what was not sent came
\* after its query.
LEMMA StreamReplay ==
    ASSUME StreamInv, NEW k \in Stream!Conns, Stream!Replay(k) PROVE StreamInv'
<1>. DEFINE goes == pos[k] <= Stream!Limit(k) /\ isOpen[k]
<1>1. /\ phase[k] = "replay"
      /\ goes => /\ received' = Append(received, pos[k])
                 /\ pos' = [pos EXCEPT ![k] = @ + 1] /\ phase' = phase
      /\ ~goes => /\ phase' = [phase EXCEPT ![k] = "ended"]
                  /\ UNCHANGED <<received, pos>>
      /\ UNCHANGED <<atOnce, length, isOpen, upto, before, unseen>>
  BY DEF Stream!Replay
<1>2. StreamTyped BY DEF StreamInv
<1>3. /\ Got \in Nat /\ length \in Nat /\ MaxEvents \in Nat /\ length <= MaxEvents
      /\ \A i \in 1 .. Got : received[i] \in 1 .. length
      /\ Got > 0 => Latest \in 1 .. length
      /\ pos[k] \in Nat /\ upto[k] \in 0 .. length
  BY <1>2, StreamFacts DEF StreamTyped
<1>4. isOpen[k] => /\ Got > 0 /\ pos[k] = Latest + 1
                   /\ \A j \in Stream!Conns : isOpen[j] => j = k
                   /\ atOnce => \A e \in (upto[k] + 1) .. length : e \in unseen
  BY <1>1 DEF StreamInv, OpenInv
<1>5. Stream!Limit(k) = IF atOnce THEN upto[k] ELSE length BY DEF Stream!Limit
<1>6. CASE goes
  <2>1. /\ pos[k] \in 1 .. length /\ pos[k] = Latest + 1 /\ Got > 0
        /\ \A j \in Stream!Conns : isOpen[j] => j = k
    BY <1>3, <1>4, <1>5, <1>6
  <2>2. /\ received' \in Seq(1 .. length) /\ Got' = Got + 1
        /\ \A i \in 1 .. Got : received'[i] = received[i]
        /\ received'[Got + 1] = pos[k] /\ Latest' = pos[k]
    <3>1. received \in Seq(1 .. length) BY <1>2 DEF StreamTyped
    <3>2. received' = Append(received, pos[k]) BY <1>1, <1>6
    <3>. QED BY <2>1, <3>1, <3>2, <1>3 DEF Got, Latest
  <2>3. StreamTyped'
    <3>1. pos' \in [Stream!Conns -> 1 .. MaxEvents + 1]
      <4>1. pos \in [Stream!Conns -> 1 .. MaxEvents + 1] BY <1>2 DEF StreamTyped
      <4>2. pos[k] + 1 \in 1 .. MaxEvents + 1 BY <1>3, <2>1
      <4>3. pos' = [pos EXCEPT ![k] = pos[k] + 1] BY <1>1, <1>6
      <4>. QED BY <4>1, <4>2, <4>3
    <3>2. before' \in 0 .. Got' BY <1>1, <1>2, <1>3, <2>2 DEF StreamTyped
    <3>3. received' \in Seq(1 .. length') BY <1>1, <2>2
    <3>. QED BY <1>1, <1>2, <1>6, <3>1, <3>2, <3>3 DEF StreamTyped
  <2>4. Rising'
    <3>1. ASSUME NEW i \in 1 .. Got', NEW j \in 1 .. Got', i < j
          PROVE  received'[i] < received'[j]
      <4>1. CASE j \in 1 .. Got
        <5>1. i \in 1 .. Got BY <3>1, <4>1, <1>3, <2>2
        <5>2. received[i] < received[j] BY <3>1, <4>1, <5>1 DEF StreamInv, Rising
        <5>. QED BY <4>1, <5>1, <5>2, <2>2
      <4>2. CASE j \notin 1 .. Got
        <5>1. j = Got + 1 /\ i \in 1 .. Got BY <3>1, <4>2, <1>3, <2>2
        <5>2. received[i] <= Latest
          <6>1. i = Got \/ received[i] < received[Got]
            BY <5>1, <1>3 DEF StreamInv, Rising
          <6>. QED BY <5>1, <6>1, <1>3 DEF Latest
        <5>. QED BY <5>1, <5>2, <1>3, <2>1, <2>2
      <4>. QED BY <4>1, <4>2
    <3>. QED BY <3>1 DEF Rising
  <2>5. Whole'
    <3>1. ASSUME NEW e \in received'[1] .. pos[k]
          PROVE  (\E i \in 1 .. Got' : received'[i] = e) \/ e \in unseen'
      <4>1. CASE e = pos[k] BY <4>1, <1>3, <2>2
      <4>2. CASE e # pos[k]
        <5>1. e \in received[1] .. Latest BY <4>2, <1>3, <2>1, <2>2
        <5>2. (\E i \in 1 .. Got : received[i] = e) \/ e \in unseen
          BY <5>1, <2>1 DEF StreamInv, Whole
        <5>3. unseen' = unseen BY <1>1
        <5>4. \A i \in 1 .. Got : i \in 1 .. Got' BY <1>3, <2>2
        <5>. QED BY <5>2, <5>3, <5>4, <2>2
      <4>. QED BY <4>1, <4>2
    <3>. QED BY <3>1, <2>2 DEF Whole
  <2>6. ASSUME NEW j \in Stream!Conns, isOpen'[j] PROVE OpenInv(j)'
    <3>1. j = k BY <2>6, <1>1, <2>1
    <3>2. phase'[k] = "replay" /\ pos'[k] = Latest' + 1 /\ Got' > 0
      BY <1>1, <1>2, <1>3, <1>6, <2>2 DEF StreamTyped
    <3>. QED BY <3>1, <3>2, <1>1, <1>4, <1>6 DEF OpenInv
  <2>. QED BY <2>3, <2>4, <2>5, <2>6 DEF StreamInv
<1>7. CASE ~goes
  <2>1. /\ phase' = [phase EXCEPT ![k] = "ended"]
        /\ UNCHANGED <<received, pos, atOnce, length, isOpen, upto, before, unseen>>
    BY <1>1, <1>7
  <2>2. Got' = Got /\ Latest' = Latest BY <2>1 DEF Got, Latest
  <2>3. StreamTyped' BY <2>1, <2>2, <1>2 DEF StreamTyped
  <2>4. Rising' /\ Whole' BY <2>1, <2>2 DEF StreamInv, Rising, Whole
  <2>5. ASSUME NEW j \in Stream!Conns, isOpen'[j] PROVE OpenInv(j)'
    <3>1. CASE j = k
      <4>1. isOpen[k] /\ phase'[k] = "ended" BY <3>1, <2>1, <2>5, <1>2 DEF StreamTyped
      <4>2. ASSUME NEW e \in (Latest + 1) .. length PROVE e \in unseen
        <5>1. pos[k] > Stream!Limit(k) BY <4>1, <1>3, <1>5, <1>7
        <5>2. CASE atOnce BY <5>1, <5>2, <4>1, <1>3, <1>4, <1>5
        <5>3. CASE ~atOnce BY <5>1, <5>3, <4>1, <1>3, <1>4, <1>5
        <5>. QED BY <5>2, <5>3
      <4>. QED BY <3>1, <4>1, <4>2, <2>1, <2>2, <1>4 DEF OpenInv
    <3>2. CASE j # k
      <4>1. isOpen[j] /\ OpenInv(j) /\ phase'[j] = phase[j]
        BY <3>2, <2>1, <2>5, <1>2 DEF StreamInv, StreamTyped
      <4>. QED BY <4>1, <2>1, <2>2 DEF OpenInv
    <3>. QED BY <3>1, <3>2
  <2>. QED BY <2>3, <2>4, <2>5 DEF StreamInv
<1>. QED BY <1>6, <1>7

\* Steps of a handler that send nothing.
LEMMA StreamPhase ==
    ASSUME StreamInv, NEW k \in Stream!Conns, NEW next,
           \/ phase[k] = "ended" /\ next = "live"
           \/ ~isOpen[k] /\ next \in {"live", "released"},
           phase' = [phase EXCEPT ![k] = next],
           UNCHANGED <<atOnce, length, isOpen, pos, upto, received, before, unseen>>
    PROVE  StreamInv'
<1>1. StreamTyped BY DEF StreamInv
<1>2. Got' = Got /\ Latest' = Latest BY DEF Got, Latest
<1>3. StreamTyped' BY <1>1, <1>2 DEF StreamTyped
<1>4. Rising' /\ Whole' BY <1>2 DEF StreamInv, Rising, Whole
<1>5. ASSUME NEW j \in Stream!Conns, isOpen'[j] PROVE OpenInv(j)'
  <2>1. isOpen[j] /\ OpenInv(j) BY <1>5 DEF StreamInv
  <2>2. CASE j = k
    <3>1. phase[k] = "ended" /\ phase'[k] = "live" BY <2>1, <2>2, <1>1 DEF StreamTyped
    <3>. QED BY <2>1, <2>2, <3>1, <1>2 DEF OpenInv
  <2>3. CASE j # k
    <3>1. phase'[j] = phase[j] BY <2>3, <1>1 DEF StreamTyped
    <3>. QED BY <2>1, <3>1, <1>2 DEF OpenInv
  <2>. QED BY <2>2, <2>3
<1>. QED BY <1>3, <1>4, <1>5 DEF StreamInv

\* A connection breaks and the end of what it carried is lost.
LEMMA StreamClose ==
    ASSUME StreamInv, NEW k \in Stream!Conns, Stream!Close(k) PROVE StreamInv'
<1>1. StreamTyped BY DEF StreamInv
<1>2. PICK n \in before .. Got : received' = SubSeq(received, 1, n)
  BY DEF Stream!Close, Got
<1>3. /\ isOpen[k] /\ isOpen' = [isOpen EXCEPT ![k] = FALSE]
      /\ UNCHANGED <<atOnce, length, phase, pos, upto, before, unseen>>
  BY DEF Stream!Close
<1>4. /\ Got \in Nat /\ before \in Nat /\ length \in Nat
      /\ \A i \in 1 .. Got : received[i] \in 1 .. length
  BY <1>1, StreamFacts DEF StreamTyped
<1>5. /\ received' \in Seq(1 .. length) /\ Got' = n
      /\ \A i \in 1 .. n : received'[i] = received[i]
  <2>1. received \in Seq(1 .. length) BY <1>1 DEF StreamTyped
  <2>2. n \in 0 .. Len(received) BY <1>4 DEF Got
  <2>3. /\ SubSeq(received, 1, n) \in Seq(1 .. length) /\ Len(SubSeq(received, 1, n)) = n
        /\ \A i \in 1 .. n : SubSeq(received, 1, n)[i] = received[i]
    <3>1. n \in Nat /\ \A i \in 1 .. n : received[i] \in 1 .. length
      BY <1>4
    <3>2. /\ \A i \in 1 .. n : 1 + i - 1 = i
          /\ n - 1 + 1 = n /\ (1 <= n \/ n = 0)
      BY <3>1
    <3>. QED BY <3>1, <3>2, SubSeqProperties
  <2>. QED BY <1>2, <2>3 DEF Got
<1>6. StreamTyped'
  <2>1. before' \in 0 .. Got' BY <1>3, <1>4, <1>5
  <2>2. received' \in Seq(1 .. length') BY <1>3, <1>5
  <2>3. isOpen' \in [Stream!Conns -> BOOLEAN] BY <1>1, <1>3 DEF StreamTyped
  <2>. QED BY <1>1, <1>3, <2>1, <2>2, <2>3 DEF StreamTyped
<1>7. Rising' BY <1>4, <1>5 DEF StreamInv, Rising
<1>8. Whole'
  <2>1. SUFFICES ASSUME n > 0, NEW e \in received[1] .. received[n]
                 PROVE  (\E i \in 1 .. n : received[i] = e) \/ e \in unseen
    <3>1. Latest' = received'[n] /\ unseen' = unseen BY <1>3, <1>5 DEF Latest
    <3>2. n > 0 => Latest' = received[n] /\ received'[1] = received[1]
      BY <3>1, <1>4, <1>5
    <3>. QED BY <3>1, <3>2, <1>5 DEF Whole
  <2>2. n \in 1 .. Got /\ Got > 0 /\ received[n] <= Latest
    <3>1. n \in 1 .. Got /\ Got \in 1 .. Got BY <2>1, <1>4
    <3>2. n = Got \/ received[n] < received[Got] BY <3>1, <1>4 DEF StreamInv, Rising
    <3>. QED BY <3>1, <3>2, <1>4 DEF Latest
  <2>3. e \in received[1] .. Latest
    <3>1. received[1] \in Nat /\ received[n] \in Nat /\ Latest \in Nat
      BY <2>2, <1>4 DEF Latest
    <3>. QED BY <2>1, <2>2, <3>1
  <2>4. (\E i \in 1 .. Got : received[i] = e) \/ e \in unseen
    BY <2>2, <2>3 DEF StreamInv, Whole
  <2>5. ASSUME NEW i \in 1 .. Got, received[i] = e PROVE i \in 1 .. n
    <3>1. ~(n < i) BY <2>2, <2>5, <1>4 DEF StreamInv, Rising
    <3>. QED BY <3>1, <2>2, <1>4
  <2>. QED BY <2>4, <2>5
<1>9. \A j \in Stream!Conns : ~isOpen'[j]
  BY <1>1, <1>3 DEF StreamInv, OpenInv, StreamTyped
<1>. QED BY <1>6, <1>7, <1>8, <1>9 DEF StreamInv

LEMMA StreamNext == ASSUME StreamInv, [Stream!Next]_streamVars PROVE StreamInv'
<1>1. CASE Stream!AppendEvent BY <1>1, StreamAppend
<1>2. ASSUME NEW k \in Stream!Conns, Stream!Connect(k) PROVE StreamInv'
  BY <1>2, StreamConnect
<1>3. ASSUME NEW k \in Stream!Conns, Stream!Replay(k) PROVE StreamInv'
  BY <1>3, StreamReplay
<1>4. ASSUME NEW k \in Stream!Conns, Stream!Subscribe(k) PROVE StreamInv'
  BY <1>4, StreamPhase DEF Stream!Subscribe
<1>5. ASSUME NEW k \in Stream!Conns, Stream!KeepAlive(k) PROVE StreamInv'
  BY <1>5, StreamPhase DEF Stream!KeepAlive
<1>6. ASSUME NEW k \in Stream!Conns, Stream!Close(k) PROVE StreamInv'
  BY <1>6, StreamClose
<1>7. CASE UNCHANGED streamVars
  BY <1>7 DEF streamVars, StreamInv, StreamTyped, Rising, Whole, OpenInv, Got, Latest
<1>. QED BY <1>1, <1>2, <1>3, <1>4, <1>5, <1>6, <1>7 DEF Stream!Next

LEMMA StreamHolds ==
    ASSUME StreamInv
    PROVE  Stream!TypeOK /\ Stream!NoneTwice /\ Stream!OnlyUnseenAreMissed
<1>1. StreamTyped BY DEF StreamInv
<1>2. Got \in Nat /\ received \in Seq(1 .. length) BY <1>1, StreamFacts DEF StreamTyped
<1>3. Stream!TypeOK BY <1>1 DEF StreamTyped, Stream!TypeOK, Got
<1>4. Stream!NoneTwice BY <1>2 DEF StreamInv, Rising, Stream!NoneTwice, Got
<1>5. Stream!OnlyUnseenAreMissed
  <2>1. SUFFICES ASSUME received # << >>, NEW e \in received[1] .. Latest
                 PROVE  e \in Stream!Range(received) \cup unseen
    BY DEF Stream!OnlyUnseenAreMissed, Stream!Last, Latest, Got
  <2>2. Got > 0 BY <2>1, <1>2 DEF Got
  <2>3. (\E i \in 1 .. Got : received[i] = e) \/ e \in unseen
    BY <2>1, <2>2 DEF StreamInv, Whole
  <2>. QED BY <2>3, <1>2 DEF Got, Stream!Range
<1>. QED BY <1>3, <1>4, <1>5

-----------------------------------------------------------------------------
(***************************************************************************)
(* Exports.  What is over is not written again, and what has been          *)
(* collected is not less than there was at the request.                    *)
(***************************************************************************)
Exported(e, n) == IF e \in named THEN n >= asked[e] ELSE n = 0

ExportInv ==
    /\ mayFail \in BOOLEAN /\ events \in Nat /\ named \subseteq Exports
    /\ state \in [Exports -> {"none", "Pending", "Processing", "Completed", "Failed"}]
    /\ error \in [Exports -> {"none", "cancelled", "failed"}]
    /\ worker \in [Exports -> {"none", "update", "collect", "complete", "fail", "gone"}]
    /\ result \in [Exports -> 0 .. events]
    /\ asked \in [Exports -> 0 .. events]
    /\ collected \in [Exports -> 0 .. events]
    /\ \A e \in Exports :
          /\ worker[e] = "complete" => Exported(e, collected[e])
          /\ state[e] = "Completed" => /\ worker[e] = "gone" /\ Exported(e, result[e])
                                       /\ error[e] \in {"none", "cancelled"}
          /\ error[e] = "failed" => worker[e] = "gone" /\ state[e] = "Failed"
          /\ state[e] = "none" => worker[e] = "none" /\ error[e] = "none"

LEMMA ExportInit == ASSUME Export!Init PROVE ExportInv
BY DEF Export!Init, ExportInv, Exported

LEMMA ExportNext ==
    ASSUME ExportInv, [Export!Next]_exportVars PROVE ExportInv' /\ Export!EndedStays
<1>1. ASSUME NEW e \in Exports, Export!Request(e) PROVE ExportInv' /\ Export!EndedStays
  BY <1>1 DEF ExportInv, Exported, Export!Request, Export!Goto, Export!EndedStays
<1>2. ASSUME NEW e \in Exports, Export!UpdateState(e) PROVE ExportInv' /\ Export!EndedStays
  BY <1>2 DEF ExportInv, Exported, Export!UpdateState, Export!Goto, Export!EndedStays
<1>3. ASSUME NEW e \in Exports, Export!CollectExportData(e)
      PROVE  ExportInv' /\ Export!EndedStays
  BY <1>3 DEF ExportInv, Exported, Export!CollectExportData, Export!Collected, Export!Goto,
              Export!EndedStays
<1>4. ASSUME NEW e \in Exports, Export!CompleteExport(e)
      PROVE  ExportInv' /\ Export!EndedStays
  BY <1>4 DEF ExportInv, Exported, Export!CompleteExport, Export!Goto, Export!EndedStays
<1>5. ASSUME NEW e \in Exports, Export!FailExport(e) PROVE ExportInv' /\ Export!EndedStays
  BY <1>5 DEF ExportInv, Exported, Export!FailExport, Export!Goto, Export!EndedStays
<1>6. ASSUME NEW e \in Exports, Export!Cancel(e) PROVE ExportInv' /\ Export!EndedStays
  BY <1>6 DEF ExportInv, Exported, Export!Cancel, Export!MayCancel, Export!EndedStays
<1>7. CASE Export!AppendEvent
  BY <1>7 DEF ExportInv, Exported, Export!AppendEvent, Export!EndedStays
<1>8. CASE Export!Crash
  BY <1>8 DEF ExportInv, Exported, Export!Crash, Export!EndedStays
<1>9. CASE UNCHANGED exportVars
  BY <1>9 DEF ExportInv, Exported, exportVars, Export!EndedStays
<1>. QED BY <1>1, <1>2, <1>3, <1>4, <1>5, <1>6, <1>7, <1>8, <1>9
         DEF Export!Next, Export!ProcessExport

LEMMA ExportHolds == ASSUME ExportInv PROVE Export!TypeOK /\ Export!CompletedIsWhole
BY DEF ExportInv, Exported, Export!TypeOK, Export!CompletedIsWhole

-----------------------------------------------------------------------------
(***************************************************************************)
(* The flow orchestrator.  Every copy in flight was read from the log: the *)
(* log has an entry with its version, and that entry is the completion of  *)
(* the flow if and only if the copy is of a completed flow.                *)
(***************************************************************************)
StepTypes == {"Action", "Workflow", "Wait", "Decision", "Parallel"}

Resting == {"idle", "thrown", "returned"}

Stepping == StepTypes \cup {"enter", "join", "exit", "next"}

Awaited == {""} \cup UNION {{f.steps[s].event : s \in DOMAIN f.steps} : f \in Flows}

Statuses == {"Running", "Waiting", "Completed"}

StepNames == Flow!StepIds \cup {""}

FlowCopy == [status : Statuses, version : Nat, waitsFor : Awaited, next : StepNames]

FlowEvent ==
    [type : {"Created", "Enter", "Exit", "Completed"}, step : StepNames, version : Nat]

FlowThread ==
    [at : Stepping \cup Resting \cup {"complete", "return"},
     step : StepNames, copy : FlowCopy \cup {<< >>},
     of : Flow!Threads \cup {""}]

\* The copy c was read from the log L of a flow with the definition f.
ReadFrom(L, f, c) ==
    /\ c \in FlowCopy
    /\ c.waitsFor # "" => c.next \in DOMAIN f.steps
    /\ \E i \in DOMAIN L :
          L[i].version = c.version /\ (L[i].type = "Completed" <=> c.status = "Completed")

\* What a thread of it is about to do.
StepIn(f, at, s, status) ==
    /\ at \in Stepping => s \in DOMAIN f.steps
    /\ at \in StepTypes => f.steps[s].type = at
    /\ at \in Stepping \cup {"complete"} => status # "Completed"

ThreadIn(L, f, r) ==
    /\ r \in FlowThread
    /\ StepIn(f, r.at, r.step, r.copy.status)
    /\ r.at \notin Resting => ReadFrom(L, f, r.copy)

\* The versions of a log whose store checks them, in which nothing follows
\* the completion.
LogIn(L, checks) ==
    /\ L \in Seq(FlowEvent)
    /\ checks => \A i \in DOMAIN L :
          L[i].version = i /\ (L[i].type = "Completed" => i = Len(L))

FlowState ==
    /\ flow \in Flows /\ checked \in BOOLEAN
    /\ LogIn(flowLog, checked)
    /\ run \in [Flow!Threads -> FlowThread]
    /\ \A t \in Flow!Threads : ThreadIn(flowLog, flow, run[t])
    /\ (instance = << >> /\ flowLog = << >>) \/ ReadFrom(flowLog, flow, instance)
    /\ armed \subseteq DOMAIN flow.steps /\ (armed # {} => flowLog # << >>)
    /\ done \in Seq(Flow!StepIds)

LEMMA FlowSteps ==
    ASSUME FlowState
    PROVE  /\ IsFlow(flow) /\ DOMAIN flow.steps \subseteq Flow!StepIds
           /\ Flow!StepIds \subseteq Flow!Threads
           /\ flow.start \in DOMAIN flow.steps
           /\ "" \in Awaited
BY EnginesAssumption DEF FlowState, Flow!StepIds, Flow!Threads, IsFlow, Awaited

LEMMA FlowInit == ASSUME Flow!Init PROVE FlowState
<1>1. flow \in Flows /\ checked \in BOOLEAN /\ flowLog = << >> /\ instance = << >>
      /\ armed = {} /\ done = << >> /\ run = [t \in Flow!Threads |-> Flow!Idle]
  BY EnginesAssumption DEF Flow!Init
<1>2. Flow!Idle \in FlowThread /\ Flow!Idle.at = "idle"
  BY DEF Flow!Idle, FlowThread, Resting, StepNames
<1>3. ThreadIn(flowLog, flow, Flow!Idle)
  BY <1>2 DEF ThreadIn, StepIn, Resting, Stepping, StepTypes
<1>4. LogIn(flowLog, checked) BY <1>1 DEF LogIn
<1>. QED BY <1>1, <1>2, <1>3, <1>4 DEF FlowState

LEMMA ReadSome ==
    ASSUME NEW L, NEW f, NEW c, ReadFrom(L, f, c)
    PROVE  L # << >>
<1>1. PICK i \in DOMAIN L : TRUE BY DEF ReadFrom
<1>2. DOMAIN << >> = {} OBVIOUS
<1>. QED BY <1>1, <1>2

\* A copy stays one that was read from the log while the log grows.
LEMMA ReadStays ==
    ASSUME NEW L \in Seq(FlowEvent), NEW e \in FlowEvent, NEW f, NEW c, ReadFrom(L, f, c)
    PROVE  ReadFrom(Append(L, e), f, c)
<1>1. PICK i \in DOMAIN L :
         L[i].version = c.version /\ (L[i].type = "Completed" <=> c.status = "Completed")
  BY DEF ReadFrom
<1>2. i \in DOMAIN Append(L, e) /\ Append(L, e)[i] = L[i] OBVIOUS
<1>. QED BY <1>1, <1>2 DEF ReadFrom

LEMMA ThreadStays ==
    ASSUME NEW L \in Seq(FlowEvent), NEW e \in FlowEvent, NEW f, NEW r, ThreadIn(L, f, r)
    PROVE  ThreadIn(Append(L, e), f, r)
BY ReadStays DEF ThreadIn

\* A step that appends nothing.
LEMMA FlowLocal ==
    ASSUME FlowState, UNCHANGED <<flow, checked, flowLog>>,
           run' \in [Flow!Threads -> FlowThread],
           \A t \in Flow!Threads : ThreadIn(flowLog, flow, run'[t]),
           instance' = instance \/ ReadFrom(flowLog, flow, instance'),
           armed' \subseteq DOMAIN flow.steps, armed' # {} => flowLog # << >>,
           done' \in Seq(Flow!StepIds)
    PROVE  FlowState'
BY DEF FlowState

\* One in which one thread goes on.
LEMMA FlowGoto ==
    ASSUME FlowState, UNCHANGED <<flow, checked, flowLog>>,
           NEW t \in Flow!Threads, NEW r, ThreadIn(flowLog, flow, r),
           run' = [run EXCEPT ![t] = r],
           instance' = instance \/ ReadFrom(flowLog, flow, instance'),
           armed' \subseteq DOMAIN flow.steps, armed' # {} => flowLog # << >>,
           done' \in Seq(Flow!StepIds)
    PROVE  FlowState'
<1>1. r \in FlowThread BY DEF ThreadIn
<1>2. run' \in [Flow!Threads -> FlowThread] BY <1>1 DEF FlowState
<1>3. \A u \in Flow!Threads : ThreadIn(flowLog, flow, run'[u])
  BY DEF FlowState
<1>. QED BY <1>2, <1>3, FlowLocal

LEMMA FlowThrow ==
    ASSUME FlowState, UNCHANGED <<flow, checked, flowLog, instance, armed, done>>,
           NEW t \in Flow!Threads, Flow!Throw(t)
    PROVE  FlowState'
<1>. DEFINE r == [run[t] EXCEPT !.at = "thrown"]
<1>1. run' = [run EXCEPT ![t] = r] BY DEF Flow!Throw
<1>2. run[t] \in FlowThread BY DEF FlowState
<1>3. r \in FlowThread /\ r.at = "thrown" BY <1>2 DEF FlowThread, Resting
<1>4. ThreadIn(flowLog, flow, r)
  BY <1>3 DEF ThreadIn, StepIn, Resting, Stepping, StepTypes
<1>5. armed' \subseteq DOMAIN flow.steps /\ (armed' # {} => flowLog # << >>)
      /\ done' \in Seq(Flow!StepIds) /\ instance' = instance
  BY DEF FlowState
<1>. HIDE DEF r
<1>. QED BY <1>1, <1>4, <1>5, FlowGoto

LEMMA Appended ==
    ASSUME NEW S, NEW s \in Seq(S), NEW e \in S
    PROVE  /\ Append(s, e) \in Seq(S) /\ Len(s) \in Nat /\ Len(Append(s, e)) = Len(s) + 1
           /\ DOMAIN Append(s, e) = 1 .. Len(s) + 1 /\ DOMAIN s = 1 .. Len(s)
           /\ Append(s, e)[Len(s) + 1] = e
           /\ \A i \in DOMAIN s : Append(s, e)[i] = s[i]
OBVIOUS

LEMMA LogGrows ==
    ASSUME FlowState, NEW e \in FlowEvent, flowLog' = Append(flowLog, e)
    PROVE  /\ flowLog' \in Seq(FlowEvent) /\ Len(flowLog') = Len(flowLog) + 1
           /\ DOMAIN flowLog' = 1 .. Len(flowLog) + 1 /\ DOMAIN flowLog = 1 .. Len(flowLog)
           /\ flowLog'[Len(flowLog) + 1] = e
           /\ \A i \in DOMAIN flowLog : flowLog'[i] = flowLog[i]
           /\ Len(flowLog) \in Nat
<1>1. flowLog \in Seq(FlowEvent) BY DEF FlowState, LogIn
<1>. QED BY <1>1, Appended

\* An entry after which the log is still one.
LEMMA FlowAppend ==
    ASSUME FlowState, UNCHANGED <<flow, checked, instance, armed, done>>,
           NEW e \in FlowEvent, flowLog' = Append(flowLog, e), flowLog # << >>,
           checked => /\ e.version = Len(flowLog) + 1
                      /\ \A i \in DOMAIN flowLog : flowLog[i].type # "Completed",
           NEW t \in Flow!Threads, NEW r, ThreadIn(flowLog', flow, r),
           run' = [run EXCEPT ![t] = r]
    PROVE  FlowState'
<1>1. /\ flowLog \in Seq(FlowEvent) /\ run \in [Flow!Threads -> FlowThread]
      /\ r \in FlowThread
  BY DEF FlowState, LogIn, ThreadIn
<1>2. LogIn(flowLog', checked)
  <2>1. /\ flowLog' \in Seq(FlowEvent) /\ Len(flowLog') = Len(flowLog) + 1
        /\ DOMAIN flowLog' = 1 .. Len(flowLog) + 1 /\ DOMAIN flowLog = 1 .. Len(flowLog)
        /\ flowLog'[Len(flowLog) + 1] = e
        /\ \A i \in DOMAIN flowLog : flowLog'[i] = flowLog[i]
        /\ Len(flowLog) \in Nat
    BY LogGrows
  <2>2. ASSUME checked, NEW i \in DOMAIN flowLog'
        PROVE  flowLog'[i].version = i /\ (flowLog'[i].type = "Completed" => i = Len(flowLog'))
    <3>1. CASE i = Len(flowLog) + 1 BY <2>1, <2>2, <3>1
    <3>2. CASE i \in DOMAIN flowLog
      BY <2>1, <2>2, <3>2 DEF FlowState, LogIn
    <3>. QED BY <2>1, <3>1, <3>2
  <2>. QED BY <2>1, <2>2 DEF LogIn
<1>3. \A u \in Flow!Threads : ThreadIn(flowLog', flow, run'[u])
  <2>1. ASSUME NEW u \in Flow!Threads, u # t PROVE ThreadIn(flowLog', flow, run'[u])
    <3>1. run'[u] = run[u] /\ ThreadIn(flowLog, flow, run[u])
      BY <1>1, <2>1 DEF FlowState
    <3>. QED BY <1>1, <3>1, ThreadStays
  <2>2. run'[t] = r BY <1>1
  <2>. QED BY <2>1, <2>2
<1>4. ReadFrom(flowLog', flow, instance)
  <2>1. ReadFrom(flowLog, flow, instance) BY DEF FlowState
  <2>. QED BY <1>1, <2>1, ReadStays
<1>5. run' \in [Flow!Threads -> FlowThread] BY <1>1
<1>6. flowLog' # << >> BY <1>1
<1>. QED BY <1>2, <1>3, <1>4, <1>5, <1>6 DEF FlowState

LEMMA CopyNext ==
    ASSUME NEW copy \in FlowCopy
    PROVE  LET c == [copy EXCEPT !.version = @ + 1]
           IN /\ copy.version \in Nat /\ copy.version + 1 \in Nat
              /\ c \in FlowCopy /\ c.version = copy.version + 1 /\ c.status = copy.status
              /\ c.waitsFor = copy.waitsFor /\ c.next = copy.next
BY DEF FlowCopy

\* A copy that the log has is not behind it, if its store lets it append.
LEMMA ReadLatest ==
    ASSUME NEW L, NEW f, NEW c, LogIn(L, TRUE), ReadFrom(L, f, c), c.status # "Completed",
           c.version = Len(L)
    PROVE  \A i \in DOMAIN L : L[i].type # "Completed"
<1>1. PICK j \in DOMAIN L : L[j].version = c.version /\ L[j].type # "Completed"
  BY DEF ReadFrom
<1>2. j = Len(L) BY <1>1 DEF LogIn
<1>. QED BY <1>1, <1>2 DEF LogIn

Going == Stepping \cup {"complete", "return", "returned"}

LEMMA GoingOn ==
    /\ Going \subseteq Stepping \cup Resting \cup {"complete", "return"}
    /\ "idle" \notin Going /\ "thrown" \notin Going
    /\ \A at \in Going : at \notin Resting \/ at = "returned"
    /\ \A at \in Stepping \cup {"complete"} : at \notin Resting
BY DEF Going, Stepping, StepTypes, Resting

\* What may follow in a thread with the copy c.
MayGo(f, s, c, type, at) ==
    /\ type \in {"Enter", "Exit", "Completed"}
    /\ c \in FlowCopy
    /\ c.waitsFor # "" => c.next \in DOMAIN f.steps
    /\ c.status = "Completed" <=> type = "Completed"
    /\ at \in Going
    /\ StepIn(f, at, s, c.status)

\* An append by a thread whose base the log has, and that goes on with what
\* it appended.
LEMMA FlowEmit ==
    ASSUME FlowState, UNCHANGED <<flow, checked, instance, armed, done>>,
           NEW t \in Flow!Threads, run[t].at \notin Resting,
           run[t].copy.status # "Completed",
           NEW kind, NEW base, NEW goal, MayGo(flow, run[t].step, base, kind, goal),
           base.version = run[t].copy.version,
           Flow!Emit(t, kind, base, goal)
    PROVE  FlowState'
<1>1. CASE ~Flow!Accepts(base.version + 1)
  <2>1. Flow!Throw(t) /\ UNCHANGED flowLog BY <1>1 DEF Flow!Emit
  <2>. QED BY <2>1, FlowThrow
<1>2. CASE Flow!Accepts(base.version + 1)
  <2>. DEFINE e == [type |-> kind, step |-> run[t].step, version |-> base.version + 1]
              c == [base EXCEPT !.version = @ + 1]
              r == [run[t] EXCEPT !.at = goal, !.step = run[t].step, !.copy = c]
  <2>1. flowLog' = Append(flowLog, e) /\ run' = [run EXCEPT ![t] = r]
    BY <1>2 DEF Flow!Emit, Flow!Goto
  <2>2. /\ flowLog \in Seq(FlowEvent) /\ run[t] \in FlowThread
        /\ run \in [Flow!Threads -> FlowThread]
        /\ ReadFrom(flowLog, flow, run[t].copy)
    BY DEF FlowState, LogIn, ThreadIn
  <2>3. base \in FlowCopy BY DEF MayGo
  <2>4. base.version \in Nat /\ base.version + 1 \in Nat BY <2>3, CopyNext
  <2>5. run[t].step \in StepNames BY <2>2 DEF FlowThread
  <2>6. e \in FlowEvent BY <2>4, <2>5 DEF FlowEvent, MayGo
  <2>7. c \in FlowCopy /\ c.version = base.version + 1 /\ c.status = base.status
        /\ c.waitsFor = base.waitsFor /\ c.next = base.next
    BY <2>3, CopyNext
  <2>. HIDE DEF c
  <2>8. r \in FlowThread /\ r.at = goal /\ r.step = run[t].step /\ r.copy = c
    <3>1. goal \in Stepping \cup Resting \cup {"complete", "return"}
      BY GoingOn DEF MayGo
    <3>. QED BY <2>2, <2>5, <2>7, <3>1 DEF FlowThread
  <2>9. e.type = kind /\ e.version = base.version + 1 OBVIOUS
  <2>. HIDE DEF e, r
  <2>10. ReadFrom(flowLog', flow, c)
    <3>1. Len(flowLog) + 1 \in DOMAIN flowLog' /\ flowLog'[Len(flowLog) + 1] = e
      <4>1. flowLog' = Append(flowLog, e) BY <2>1
      <4>. QED BY <4>1, <2>6, LogGrows
    <3>. QED BY <3>1, <2>7, <2>9 DEF ReadFrom, MayGo
  <2>11. ThreadIn(flowLog', flow, r)
    <3>1. StepIn(flow, r.at, r.step, r.copy.status) BY <2>7, <2>8 DEF MayGo
    <3>. QED BY <2>8, <2>10, <3>1 DEF ThreadIn
  <2>12. flowLog # << >> BY <2>2, ReadSome
  <2>13. ASSUME checked PROVE e.version = Len(flowLog) + 1
                              /\ \A i \in DOMAIN flowLog : flowLog[i].type # "Completed"
    <3>1. base.version + 1 = Len(flowLog) + 1 BY <1>2, <2>13 DEF Flow!Accepts
    <3>2. Len(flowLog) \in Nat BY <2>2
    <3>3. run[t].copy.version = Len(flowLog) BY <3>1, <3>2, <2>4
    <3>4. LogIn(flowLog, TRUE) BY <2>13 DEF FlowState, LogIn
    <3>. QED BY <3>1, <3>3, <3>4, <2>2, <2>9, ReadLatest
  <2>. QED BY <2>1, <2>6, <2>11, <2>12, <2>13, FlowAppend
<1>. QED BY <1>1, <1>2

\* A thread that goes on with a copy of its own.
LEMMA FlowStep ==
    ASSUME FlowState, UNCHANGED <<flow, checked, flowLog, instance>>,
           NEW t \in Flow!Threads, NEW goal, NEW s, NEW base,
           goal \in Going, s \in StepNames, ReadFrom(flowLog, flow, base),
           StepIn(flow, goal, s, base.status), Flow!Goto(t, goal, s, base),
           armed' \subseteq DOMAIN flow.steps, done' \in Seq(Flow!StepIds)
    PROVE  FlowState'
<1>. DEFINE r == [run[t] EXCEPT !.at = goal, !.step = s, !.copy = base]
<1>1. run' = [run EXCEPT ![t] = r] BY DEF Flow!Goto
<1>2. run[t] \in FlowThread BY DEF FlowState
<1>3. r \in FlowThread /\ r.at = goal /\ r.step = s /\ r.copy = base
  <2>1. goal \in Stepping \cup Resting \cup {"complete", "return"} BY GoingOn
  <2>2. base \in FlowCopy BY DEF ReadFrom
  <2>. QED BY <1>2, <2>1, <2>2 DEF FlowThread
<1>. HIDE DEF r
<1>4. ThreadIn(flowLog, flow, r) BY <1>3 DEF ThreadIn
<1>5. flowLog # << >> BY ReadSome
<1>. QED BY <1>1, <1>4, <1>5, FlowGoto

\* What a thread that has not come to rest has.
LEMMA FlowBusy ==
    ASSUME FlowState, NEW t \in Flow!Threads, run[t].at \notin Resting
    PROVE  /\ run[t] \in FlowThread /\ run[t].copy \in FlowCopy
           /\ run[t].step \in StepNames
           /\ ReadFrom(flowLog, flow, run[t].copy)
           /\ StepIn(flow, run[t].at, run[t].step, run[t].copy.status)
           /\ run[t].copy.waitsFor # "" => run[t].copy.next \in DOMAIN flow.steps
BY DEF FlowState, ThreadIn, ReadFrom, FlowThread

\* The kinds of a step and where they lead.
LEMMA FlowDefines ==
    ASSUME FlowState, NEW s \in DOMAIN flow.steps
    PROVE  /\ flow.steps[s].type \in StepTypes
           /\ flow.steps[s].next \in DOMAIN flow.steps \cup {""}
           /\ flow.steps[s].type = "Decision" =>
                 flow.steps[s].branches \cup (flow.steps[s].default \ {"none"})
                    \subseteq DOMAIN flow.steps
           /\ flow.steps[s].type = "Parallel" =>
                 flow.steps[s].branches \subseteq DOMAIN flow.steps
           /\ flow.steps[s].type = "Wait" /\ flow.steps[s].event # "" =>
                 flow.steps[s].next # ""
           /\ flow.steps[s].event \in Awaited
           /\ s \in StepNames
<1>1. IsFlow(flow) BY FlowSteps
<1>2. flow.steps[s].event \in Awaited
  <2>1. flow \in Flows BY DEF FlowState
  <2>2. flow.steps[s].event \in {flow.steps[q].event : q \in DOMAIN flow.steps} OBVIOUS
  <2>. QED BY <2>1, <2>2 DEF Awaited
<1>3. s \in StepNames BY FlowSteps DEF StepNames
<1>. QED BY <1>1, <1>2, <1>3 DEF IsFlow, StepTypes

LEMMA FlowStartFlow == ASSUME FlowState, Flow!StartFlow PROVE FlowState'
<1>. DEFINE e == [type |-> "Created", step |-> "", version |-> 1]
            r == [run["start"] EXCEPT !.at = "enter", !.step = flow.start,
                                      !.copy = Flow!Created]
<1>1. /\ flowLog = << >> /\ flowLog' = <<e>> /\ instance' = Flow!Created
      /\ run' = [run EXCEPT !["start"] = r]
      /\ UNCHANGED <<flow, checked, armed, done>>
  BY DEF Flow!StartFlow, Flow!Goto
<1>2. /\ e \in FlowEvent /\ "start" \in Flow!Threads /\ run["start"] \in FlowThread
      /\ flow.start \in DOMAIN flow.steps /\ flow.start \in StepNames
  BY FlowSteps DEF FlowEvent, StepNames, Flow!Threads, FlowState
<1>3. Flow!Created \in FlowCopy /\ Flow!Created.status = "Running"
      /\ Flow!Created.version = 1 /\ Flow!Created.waitsFor = ""
  BY FlowSteps DEF Flow!Created, FlowCopy, Statuses, StepNames
<1>4. r \in FlowThread /\ r.at = "enter" /\ r.step = flow.start /\ r.copy = Flow!Created
  BY <1>2, <1>3 DEF FlowThread, Stepping
<1>5. e.type = "Created" /\ e.version = 1 OBVIOUS
<1>. HIDE DEF e, r
<1>6. Len(flowLog') = 1 /\ DOMAIN flowLog' = {1} /\ flowLog'[1] = e /\ flowLog' # << >>
      /\ flowLog' \in Seq(FlowEvent)
  BY <1>1, <1>2
<1>7. ReadFrom(flowLog', flow, Flow!Created)
  BY <1>3, <1>5, <1>6 DEF ReadFrom
<1>8. ThreadIn(flowLog', flow, r)
  BY <1>2, <1>3, <1>4, <1>7 DEF ThreadIn, StepIn, StepTypes
<1>9. \A u \in Flow!Threads : ThreadIn(flowLog', flow, run'[u])
  <2>1. ASSUME NEW u \in Flow!Threads, u # "start" PROVE ThreadIn(flowLog', flow, run'[u])
    <3>1. run'[u] = run[u] /\ ThreadIn(flowLog, flow, run[u])
      BY <1>1, <2>1 DEF FlowState
    <3>2. run[u].at \in Resting BY <1>1, <3>1, ReadSome DEF ThreadIn
    <3>. QED BY <3>1, <3>2 DEF ThreadIn
  <2>2. run'["start"] = r BY <1>1, <1>2 DEF FlowState
  <2>. QED BY <2>1, <2>2, <1>8
<1>10. LogIn(flowLog', checked') BY <1>1, <1>5, <1>6 DEF LogIn
<1>11. run' \in [Flow!Threads -> FlowThread] BY <1>1, <1>2, <1>4 DEF FlowState
<1>. QED BY <1>1, <1>6, <1>7, <1>9, <1>10, <1>11 DEF FlowState

\* What every step of a thread has in common.
ThreadDone == armed' \subseteq DOMAIN flow.steps /\ done' \in Seq(Flow!StepIds)

LEMMA FlowKept ==
    ASSUME FlowState, UNCHANGED <<armed, done>> PROVE ThreadDone
BY DEF FlowState, ThreadDone

LEMMA FlowEnterStep ==
    ASSUME FlowState, NEW t \in Flow!Threads, Flow!EnterStep(t) PROVE FlowState'
<1>. DEFINE c == run[t].copy
            goal == Flow!Step(run[t].step).type
<1>1. run[t].at = "enter" /\ Flow!Emit(t, "Enter", c, goal)
      /\ UNCHANGED <<flow, checked, instance, armed, done>>
  BY DEF Flow!EnterStep
<1>2. run[t].at \notin Resting BY <1>1 DEF Resting
<1>3. run[t].step \in DOMAIN flow.steps /\ c.status # "Completed" /\ c \in FlowCopy
      /\ (c.waitsFor # "" => c.next \in DOMAIN flow.steps)
  BY <1>1, <1>2, FlowBusy DEF StepIn, Stepping
<1>4. goal \in StepTypes BY <1>3, FlowDefines DEF Flow!Step
<1>5. StepIn(flow, goal, run[t].step, c.status)
  BY <1>3, <1>4 DEF StepIn, Flow!Step, Stepping
<1>6. MayGo(flow, run[t].step, c, "Enter", goal)
  BY <1>3, <1>4, <1>5 DEF MayGo, Going, Stepping
<1>. HIDE DEF c, goal
<1>. QED BY <1>1, <1>2, <1>3, <1>6, FlowEmit DEF c

LEMMA FlowExecuteActions ==
    ASSUME FlowState, NEW t \in Flow!Threads, Flow!ExecuteActions(t) PROVE FlowState'
<1>1. run[t].at = "Action" /\ Flow!Goto(t, "exit", run[t].step, run[t].copy)
      /\ done' = Append(done, run[t].step)
      /\ UNCHANGED <<flow, checked, flowLog, instance, armed>>
  BY DEF Flow!ExecuteActions
<1>2. run[t].at \notin Resting BY <1>1 DEF Resting
<1>3. run[t].step \in DOMAIN flow.steps /\ run[t].copy.status # "Completed"
      /\ run[t].step \in StepNames /\ ReadFrom(flowLog, flow, run[t].copy)
  BY <1>1, <1>2, FlowBusy DEF StepIn, Stepping, StepTypes
<1>4. ThreadDone
  <2>1. run[t].step \in Flow!StepIds BY <1>3, FlowSteps
  <2>2. done \in Seq(Flow!StepIds) /\ armed \subseteq DOMAIN flow.steps BY DEF FlowState
  <2>3. done' \in Seq(Flow!StepIds) BY <1>1, <2>1, <2>2
  <2>. QED BY <1>1, <2>2, <2>3 DEF ThreadDone
<1>5. StepIn(flow, "exit", run[t].step, run[t].copy.status)
  BY <1>3 DEF StepIn, StepTypes
<1>6. "exit" \in Going BY DEF Going, Stepping
<1>. QED BY <1>1, <1>3, <1>4, <1>5, <1>6, FlowStep DEF ThreadDone

LEMMA FlowDecide ==
    ASSUME FlowState, NEW t \in Flow!Threads, Flow!Decide(t) PROVE FlowState'
<1>1. run[t].at = "Decision" /\ UNCHANGED <<flow, checked, flowLog, instance, armed, done>>
  BY DEF Flow!Decide
<1>2. run[t].at \notin Resting BY <1>1 DEF Resting
<1>3. run[t].step \in DOMAIN flow.steps /\ run[t].copy.status # "Completed"
      /\ flow.steps[run[t].step].type = "Decision" /\ ReadFrom(flowLog, flow, run[t].copy)
  BY <1>1, <1>2, FlowBusy DEF StepIn, Stepping, StepTypes
<1>4. ASSUME NEW s \in flow.steps[run[t].step].branches
                          \cup (flow.steps[run[t].step].default \ {"none"}),
             Flow!Goto(t, "enter", s, run[t].copy)
      PROVE  FlowState'
  <2>1. s \in DOMAIN flow.steps BY <1>3, <1>4, FlowDefines
  <2>2. s \in StepNames BY <2>1, FlowDefines
  <2>3. StepIn(flow, "enter", s, run[t].copy.status) BY <1>3, <2>1 DEF StepIn, StepTypes
  <2>4. "enter" \in Going BY DEF Going, Stepping
  <2>. QED BY <1>1, <1>3, <1>4, <2>2, <2>3, <2>4, FlowStep, FlowKept DEF ThreadDone
<1>5. CASE Flow!Throw(t) BY <1>1, <1>5, FlowThrow
<1>. QED BY <1>4, <1>5 DEF Flow!Decide, Flow!Step

\* A copy that waits is read from the log as the one that did not.
LEMMA WaitingCopy ==
    ASSUME NEW L, NEW f, NEW c, ReadFrom(L, f, c), c.status # "Completed"
    PROVE  LET w == [c EXCEPT !.status = "Waiting"]
           IN ReadFrom(L, f, w) /\ w.status # "Completed"
<1>. DEFINE w == [c EXCEPT !.status = "Waiting"]
<1>1. w \in FlowCopy /\ w.status = "Waiting" /\ w.version = c.version
      /\ w.waitsFor = c.waitsFor /\ w.next = c.next
  BY DEF ReadFrom, FlowCopy, Statuses
<1>. HIDE DEF w
<1>2. ReadFrom(L, f, w) /\ w.status # "Completed" BY <1>1 DEF ReadFrom
<1>. QED BY <1>2 DEF w

LEMMA WaitingForCopy ==
    ASSUME NEW L, NEW f, NEW c, ReadFrom(L, f, c), c.status # "Completed",
           NEW a \in Awaited, NEW n \in DOMAIN f.steps, n \in StepNames
    PROVE  LET w == [c EXCEPT !.status = "Waiting", !.waitsFor = a, !.next = n]
           IN ReadFrom(L, f, w) /\ w.status # "Completed"
<1>. DEFINE w == [c EXCEPT !.status = "Waiting", !.waitsFor = a, !.next = n]
<1>1. w \in FlowCopy /\ w.status = "Waiting" /\ w.version = c.version
      /\ w.waitsFor = a /\ w.next = n
  BY DEF ReadFrom, FlowCopy, Statuses
<1>. HIDE DEF w
<1>2. ReadFrom(L, f, w) /\ w.status # "Completed" BY <1>1 DEF ReadFrom
<1>. QED BY <1>2 DEF w

LEMMA FlowExecuteWorkflow ==
    ASSUME FlowState, NEW t \in Flow!Threads, Flow!ExecuteWorkflow(t) PROVE FlowState'
<1>. DEFINE w == [run[t].copy EXCEPT !.status = "Waiting"]
<1>1. run[t].at = "Workflow" /\ UNCHANGED <<flow, checked, flowLog, instance, armed, done>>
      /\ Flow!Goto(t, "return", run[t].step, w)
  BY DEF Flow!ExecuteWorkflow
<1>2. run[t].at \notin Resting BY <1>1 DEF Resting
<1>3. run[t].step \in StepNames /\ run[t].copy.status # "Completed"
      /\ ReadFrom(flowLog, flow, run[t].copy)
  BY <1>1, <1>2, FlowBusy DEF StepIn, Stepping, StepTypes
<1>4. ReadFrom(flowLog, flow, w) BY <1>3, WaitingCopy
<1>. HIDE DEF w
<1>5. "return" \in Going /\ StepIn(flow, "return", run[t].step, w.status)
  BY DEF StepIn, Going, Stepping, StepTypes
<1>. QED BY <1>1, <1>3, <1>4, <1>5, FlowStep, FlowKept DEF ThreadDone

LEMMA FlowWait ==
    ASSUME FlowState, NEW t \in Flow!Threads, Flow!Wait(t) PROVE FlowState'
<1>. DEFINE s == flow.steps[run[t].step]
<1>1. run[t].at = "Wait" /\ UNCHANGED <<flow, checked, flowLog, instance, done>>
  BY DEF Flow!Wait
<1>2. run[t].at \notin Resting BY <1>1 DEF Resting
<1>3. run[t].step \in DOMAIN flow.steps /\ run[t].copy.status # "Completed"
      /\ s.type = "Wait" /\ ReadFrom(flowLog, flow, run[t].copy)
  BY <1>1, <1>2, FlowBusy DEF StepIn, Stepping, StepTypes
<1>4. "return" \in Going /\ run[t].step \in StepNames
      /\ \A status : StepIn(flow, "return", run[t].step, status)
  BY <1>3, FlowDefines DEF StepIn, Going, Stepping, StepTypes
<1>5. CASE s.event = ""
  <2>. DEFINE w == [run[t].copy EXCEPT !.status = "Waiting"]
  <2>1. armed' = armed \cup {run[t].step} /\ Flow!Goto(t, "return", run[t].step, w)
    BY <1>5 DEF Flow!Wait, Flow!Step
  <2>2. ReadFrom(flowLog, flow, w) BY <1>3, WaitingCopy
  <2>. HIDE DEF w
  <2>3. armed' \subseteq DOMAIN flow.steps /\ done' \in Seq(Flow!StepIds)
    BY <1>1, <1>3, <2>1 DEF FlowState
  <2>. QED BY <1>1, <1>4, <2>1, <2>2, <2>3, FlowStep
<1>6. CASE s.event # ""
  <2>. DEFINE w == [run[t].copy EXCEPT !.status = "Waiting", !.waitsFor = s.event,
                                       !.next = s.next]
  <2>1. UNCHANGED armed /\ Flow!Goto(t, "return", run[t].step, w)
    BY <1>6 DEF Flow!Wait, Flow!Step
  <2>2. s.event \in Awaited /\ s.next \in DOMAIN flow.steps /\ s.next \in StepNames
    BY <1>3, <1>6, FlowDefines
  <2>3. ReadFrom(flowLog, flow, w) BY <1>3, <2>2, WaitingForCopy
  <2>. HIDE DEF w
  <2>. QED BY <1>1, <1>4, <2>1, <2>3, FlowStep, FlowKept DEF ThreadDone
<1>. QED BY <1>5, <1>6

LEMMA FlowFork ==
    ASSUME FlowState, NEW t \in Flow!Threads, Flow!Fork(t) PROVE FlowState'
<1>. DEFINE b == flow.steps[run[t].step].branches
            q(u) == [at |-> "enter", step |-> u, copy |-> run[t].copy, of |-> t]
            j == [run[t] EXCEPT !.at = "join"]
<1>1. /\ run[t].at = "Parallel"
      /\ run' = [u \in Flow!Threads |-> IF u \in b THEN q(u)
                                       ELSE IF u = t THEN j ELSE run[u]]
      /\ UNCHANGED <<flow, checked, flowLog, instance, armed, done>>
  BY DEF Flow!Fork, Flow!Step
<1>2. run[t].at \notin Resting BY <1>1 DEF Resting
<1>3. /\ run[t].step \in DOMAIN flow.steps /\ run[t].copy.status # "Completed"
      /\ run[t].copy \in FlowCopy /\ ReadFrom(flowLog, flow, run[t].copy)
      /\ flow.steps[run[t].step].type = "Parallel" /\ run[t] \in FlowThread
  BY <1>1, <1>2, FlowBusy DEF StepIn, Stepping, StepTypes
<1>4. b \subseteq DOMAIN flow.steps BY <1>3, FlowDefines
<1>5. ASSUME NEW u \in b PROVE ThreadIn(flowLog, flow, q(u))
  <2>1. u \in DOMAIN flow.steps /\ u \in StepNames BY <1>4, FlowDefines
  <2>2. q(u) \in FlowThread
    BY <1>3, <2>1 DEF FlowThread, Stepping
  <2>3. StepIn(flow, "enter", u, run[t].copy.status)
    BY <1>3, <2>1 DEF StepIn, StepTypes
  <2>. QED BY <1>3, <2>2, <2>3 DEF ThreadIn
<1>6. ThreadIn(flowLog, flow, j)
  <2>1. j \in FlowThread /\ j.at = "join" /\ j.step = run[t].step /\ j.copy = run[t].copy
    BY <1>3 DEF FlowThread, Stepping
  <2>. HIDE DEF j
  <2>2. StepIn(flow, "join", run[t].step, run[t].copy.status)
    BY <1>3 DEF StepIn, StepTypes
  <2>. QED BY <1>3, <2>1, <2>2 DEF ThreadIn
<1>. HIDE DEF b, q, j
<1>7. ASSUME NEW u \in Flow!Threads PROVE ThreadIn(flowLog, flow, run'[u])
  <2>1. CASE u \in b BY <1>1, <1>5, <2>1
  <2>2. CASE u \notin b /\ u = t BY <1>1, <1>6, <2>2
  <2>3. CASE u \notin b /\ u # t BY <1>1, <2>3 DEF FlowState
  <2>. QED BY <2>1, <2>2, <2>3
<1>8. run' \in [Flow!Threads -> FlowThread]
  <2>1. \A u \in Flow!Threads : run'[u] \in FlowThread BY <1>7 DEF ThreadIn
  <2>. QED BY <1>1, <2>1
<1>. QED BY <1>1, <1>7, <1>8, FlowLocal DEF FlowState

LEMMA FlowJoin ==
    ASSUME FlowState, NEW t \in Flow!Threads, Flow!Join(t) PROVE FlowState'
<1>1. run[t].at = "join" /\ UNCHANGED <<flow, checked, flowLog, instance, armed, done>>
      /\ (Flow!Goto(t, "exit", run[t].step, run[t].copy) \/ Flow!Throw(t))
  BY DEF Flow!Join
<1>2. run[t].at \notin Resting BY <1>1 DEF Resting
<1>3. run[t].step \in DOMAIN flow.steps /\ run[t].copy.status # "Completed"
      /\ run[t].step \in StepNames /\ ReadFrom(flowLog, flow, run[t].copy)
  BY <1>1, <1>2, FlowBusy DEF StepIn, Stepping
<1>4. StepIn(flow, "exit", run[t].step, run[t].copy.status) BY <1>3 DEF StepIn, StepTypes
<1>5. "exit" \in Going BY DEF Going, Stepping
<1>. QED BY <1>1, <1>3, <1>4, <1>5, FlowStep, FlowThrow, FlowKept DEF ThreadDone

LEMMA FlowExitStep ==
    ASSUME FlowState, NEW t \in Flow!Threads, Flow!ExitStep(t) PROVE FlowState'
<1>. DEFINE c == run[t].copy
            goal == IF run[t].step \in flow.ends THEN "complete" ELSE "next"
<1>1. run[t].at = "exit" /\ Flow!Emit(t, "Exit", c, goal)
      /\ UNCHANGED <<flow, checked, instance, armed, done>>
  BY DEF Flow!ExitStep
<1>2. run[t].at \notin Resting BY <1>1 DEF Resting
<1>3. run[t].step \in DOMAIN flow.steps /\ c.status # "Completed" /\ c \in FlowCopy
      /\ (c.waitsFor # "" => c.next \in DOMAIN flow.steps)
  BY <1>1, <1>2, FlowBusy DEF StepIn, Stepping
<1>4. goal \in {"complete", "next"} OBVIOUS
<1>. HIDE DEF c, goal
<1>5. MayGo(flow, run[t].step, c, "Exit", goal)
  BY <1>3, <1>4 DEF MayGo, Going, StepIn, StepTypes, Stepping
<1>. QED BY <1>1, <1>2, <1>3, <1>5, FlowEmit DEF c

LEMMA FlowNextStep ==
    ASSUME FlowState, NEW t \in Flow!Threads, Flow!NextStep(t) PROVE FlowState'
<1>. DEFINE n == flow.steps[run[t].step].next
<1>1. run[t].at = "next" /\ UNCHANGED <<flow, checked, flowLog, instance, armed, done>>
      /\ IF n = "" THEN Flow!Throw(t) ELSE Flow!Goto(t, "enter", n, run[t].copy)
  BY DEF Flow!NextStep, Flow!Step
<1>2. run[t].at \notin Resting BY <1>1 DEF Resting
<1>3. run[t].step \in DOMAIN flow.steps /\ run[t].copy.status # "Completed"
      /\ ReadFrom(flowLog, flow, run[t].copy)
  BY <1>1, <1>2, FlowBusy DEF StepIn, Stepping
<1>4. n # "" => n \in DOMAIN flow.steps /\ n \in StepNames BY <1>3, FlowDefines
<1>. HIDE DEF n
<1>5. n # "" => StepIn(flow, "enter", n, run[t].copy.status) BY <1>3, <1>4 DEF StepIn, StepTypes
<1>6. "enter" \in Going BY DEF Going, Stepping
<1>. QED BY <1>1, <1>3, <1>4, <1>5, <1>6, FlowStep, FlowThrow, FlowKept DEF ThreadDone

LEMMA FlowCompleteFlow ==
    ASSUME FlowState, NEW t \in Flow!Threads, Flow!CompleteFlow(t) PROVE FlowState'
<1>. DEFINE c == run[t].copy
            w == [c EXCEPT !.status = "Completed"]
            goal == IF t \in Cancels THEN "returned" ELSE "return"
<1>1. run[t].at = "complete" /\ Flow!Emit(t, "Completed", w, goal)
      /\ UNCHANGED <<flow, checked, instance, armed, done>>
  BY DEF Flow!CompleteFlow
<1>2. run[t].at \notin Resting BY <1>1 DEF Resting
<1>3. c.status # "Completed" /\ c \in FlowCopy
      /\ (c.waitsFor # "" => c.next \in DOMAIN flow.steps)
  BY <1>1, <1>2, FlowBusy DEF StepIn
<1>4. w \in FlowCopy /\ w.status = "Completed" /\ w.version = c.version
      /\ w.waitsFor = c.waitsFor /\ w.next = c.next
  BY <1>3 DEF FlowCopy, Statuses
<1>5. goal \in {"returned", "return"} OBVIOUS
<1>. HIDE DEF w, goal
<1>6. StepIn(flow, goal, run[t].step, w.status)
  BY <1>5 DEF StepIn, StepTypes, Stepping
<1>7. MayGo(flow, run[t].step, w, "Completed", goal)
  BY <1>3, <1>4, <1>5, <1>6 DEF MayGo, Going
<1>. QED BY <1>1, <1>2, <1>3, <1>4, <1>7, FlowEmit

LEMMA FlowReturn ==
    ASSUME FlowState, NEW t \in Flow!Threads, Flow!Return(t) PROVE FlowState'
<1>. DEFINE r == [run[t] EXCEPT !.at = "returned"]
<1>1. run[t].at = "return" /\ UNCHANGED <<flow, checked, flowLog, armed, done>>
      /\ instance' = run[t].copy /\ run' = [run EXCEPT ![t] = r]
  BY DEF Flow!Return
<1>2. run[t].at \notin Resting BY <1>1 DEF Resting
<1>3. run[t] \in FlowThread /\ ReadFrom(flowLog, flow, run[t].copy)
  BY <1>2, FlowBusy
<1>4. r \in FlowThread /\ r.at = "returned" BY <1>3 DEF FlowThread, Resting
<1>. HIDE DEF r
<1>5. ThreadIn(flowLog, flow, r)
  BY <1>4 DEF ThreadIn, StepIn, Resting, Stepping, StepTypes
<1>6. armed' \subseteq DOMAIN flow.steps /\ done' \in Seq(Flow!StepIds)
  BY <1>1 DEF FlowState
<1>7. flowLog # << >> BY <1>3, ReadSome
<1>8. ReadFrom(flowLog, flow, instance') BY <1>1, <1>3
<1>. QED BY <1>1, <1>5, <1>6, <1>7, <1>8, FlowGoto

LEMMA FlowResumeFlow ==
    ASSUME FlowState, NEW t \in Flow!Threads, Flow!ResumeFlow(t) PROVE FlowState'
<1>. DEFINE c == [instance EXCEPT !.status = "Running"]
<1>1. /\ instance # << >> /\ instance.status = "Waiting" /\ instance.waitsFor # ""
      /\ Flow!Goto(t, "enter", instance.next, c)
      /\ UNCHANGED <<flow, checked, flowLog, instance, armed, done>>
  BY DEF Flow!ResumeFlow
<1>2. ReadFrom(flowLog, flow, instance) BY <1>1 DEF FlowState
<1>3. c \in FlowCopy /\ c.status = "Running" /\ c.version = instance.version
      /\ c.waitsFor = instance.waitsFor /\ c.next = instance.next
  BY <1>2 DEF ReadFrom, FlowCopy, Statuses
<1>. HIDE DEF c
<1>4. ReadFrom(flowLog, flow, c) BY <1>1, <1>2, <1>3 DEF ReadFrom
<1>5. instance.next \in DOMAIN flow.steps /\ instance.next \in StepNames
  BY <1>1, <1>2, FlowDefines DEF ReadFrom
<1>6. StepIn(flow, "enter", instance.next, c.status)
  BY <1>3, <1>5 DEF StepIn, StepTypes
<1>7. "enter" \in Going BY DEF Going, Stepping
<1>. QED BY <1>1, <1>4, <1>5, <1>6, <1>7, FlowStep, FlowKept DEF ThreadDone

LEMMA FlowCancelFlow ==
    ASSUME FlowState, NEW t \in Flow!Threads, Flow!CancelFlow(t) PROVE FlowState'
<1>1. /\ instance # << >> /\ instance.status # "Completed"
      /\ Flow!Goto(t, "complete", "", instance)
      /\ UNCHANGED <<flow, checked, flowLog, instance, armed, done>>
  BY DEF Flow!CancelFlow
<1>2. ReadFrom(flowLog, flow, instance) BY <1>1 DEF FlowState
<1>3. StepIn(flow, "complete", "", instance.status)
  BY <1>1 DEF StepIn, Stepping, StepTypes
<1>4. "complete" \in Going /\ "" \in StepNames BY DEF Going, StepNames
<1>. QED BY <1>1, <1>2, <1>3, <1>4, FlowStep, FlowKept DEF ThreadDone

LEMMA FlowAlarm ==
    ASSUME FlowState, NEW s \in armed, Flow!Alarm(s) PROVE FlowState'
<1>1. armed' = armed \ {s} /\ UNCHANGED <<flow, checked, flowLog, instance, done>>
  BY DEF Flow!Alarm
<1>2. s \in DOMAIN flow.steps /\ s \in Flow!Threads /\ s \in StepNames /\ flowLog # << >>
  BY FlowSteps, FlowDefines DEF FlowState
<1>3. armed' \subseteq DOMAIN flow.steps /\ done' \in Seq(Flow!StepIds)
  BY <1>1 DEF FlowState
<1>4. ReadFrom(flowLog, flow, instance) BY <1>2 DEF FlowState
<1>5. CASE instance.status = "Waiting"
  <2>1. Flow!Goto(s, "exit", s, instance) BY <1>5 DEF Flow!Alarm
  <2>2. StepIn(flow, "exit", s, instance.status) BY <1>2, <1>5 DEF StepIn, StepTypes
  <2>3. "exit" \in Going BY DEF Going, Stepping
  <2>. QED BY <1>1, <1>2, <1>3, <1>4, <2>1, <2>2, <2>3, FlowStep
<1>6. CASE instance.status # "Waiting"
  <2>. DEFINE r == [run[s] EXCEPT !.at = "returned"]
  <2>1. run' = [run EXCEPT ![s] = r] BY <1>6 DEF Flow!Alarm
  <2>2. run[s] \in FlowThread BY <1>2 DEF FlowState
  <2>3. r \in FlowThread /\ r.at = "returned" BY <2>2 DEF FlowThread, Resting
  <2>. HIDE DEF r
  <2>4. ThreadIn(flowLog, flow, r)
    BY <2>3 DEF ThreadIn, StepIn, Resting, Stepping, StepTypes
  <2>. QED BY <1>1, <1>2, <1>3, <2>1, <2>4, FlowGoto
<1>. QED BY <1>5, <1>6

LEMMA FlowStutter == ASSUME FlowState, UNCHANGED flowVars PROVE FlowState'
<1>1. /\ flow' = flow /\ checked' = checked /\ flowLog' = flowLog /\ instance' = instance
      /\ run' = run /\ armed' = armed /\ done' = done
  BY DEF flowVars
<1>. QED BY <1>1 DEF FlowState

LEMMA FlowNext == ASSUME FlowState, [Flow!Next]_flowVars PROVE FlowState'
<1>1. CASE Flow!StartFlow BY <1>1, FlowStartFlow
<1>2. ASSUME NEW t \in Flow!Threads, Flow!Thread(t) PROVE FlowState'
  BY <1>2, FlowEnterStep, FlowExecuteActions, FlowDecide, FlowExecuteWorkflow, FlowWait,
     FlowFork, FlowJoin, FlowExitStep, FlowNextStep, FlowCompleteFlow, FlowReturn
     DEF Flow!Thread
<1>3. ASSUME NEW t \in Resumes, Flow!ResumeFlow(t) PROVE FlowState'
  BY <1>3, FlowResumeFlow DEF Flow!Threads
<1>4. ASSUME NEW t \in Cancels, Flow!CancelFlow(t) PROVE FlowState'
  BY <1>4, FlowCancelFlow DEF Flow!Threads
<1>5. ASSUME NEW s \in armed, Flow!Alarm(s) PROVE FlowState' BY <1>5, FlowAlarm
<1>6. CASE UNCHANGED flowVars BY <1>6, FlowStutter
<1>. QED BY <1>1, <1>2, <1>3, <1>4, <1>5, <1>6 DEF Flow!Next

LEMMA FlowHolds ==
    ASSUME FlowState
    PROVE  Flow!TypeOK /\ Flow!MapBehindLog /\ Flow!EndedIsOver
<1>1. Flow!TypeOK
  <2>1. \A t \in Flow!Threads : run[t].step \in Flow!StepIds \cup {""}
                                 /\ run[t].of \in Flow!Threads \cup {""}
    BY DEF FlowState, FlowThread, StepNames
  <2>2. instance = << >> \/ /\ instance.status \in {"Running", "Waiting", "Completed"}
                            /\ instance.version \in Nat
    BY DEF FlowState, ReadFrom, FlowCopy, Statuses
  <2>3. armed \subseteq Flow!StepIds BY FlowSteps DEF FlowState
  <2>. QED BY <2>1, <2>2, <2>3 DEF Flow!TypeOK, FlowState
<1>2. Flow!MapBehindLog BY DEF FlowState, ReadFrom, Flow!MapBehindLog
<1>3. Flow!EndedIsOver BY DEF FlowState, LogIn, Flow!EndedIsOver
<1>. QED BY <1>1, <1>2, <1>3

-----------------------------------------------------------------------------
(***************************************************************************)
(* Runs of actions and entries of steps: each entry is used once, since a  *)
(* thread that has appended one runs the action and moves on.              *)
(***************************************************************************)
\* A thread that is about to run the action of a step has entered it.
Acting(s) == {t \in Flow!Threads : run[t].at = "Action" /\ run[t].step = s}

Ran(s) == {i \in DOMAIN done : done[i] = s}

Counted == \A s \in Flow!StepIds :
    /\ IsFiniteSet(Acting(s))
    /\ Cardinality(Ran(s)) + Cardinality(Acting(s)) <= Cardinality(Flow!Entries(s))

LEMMA FlowCardinality == \A S : Flow!Cardinality(S) = Cardinality(S)
BY Zenon DEF Flow!Cardinality, Cardinality

LEMMA FiniteIndices ==
    ASSUME NEW S, NEW q \in Seq(S), NEW T, T \subseteq DOMAIN q
    PROVE  IsFiniteSet(T)
<1>1. Len(q) \in Nat /\ DOMAIN q = 1 .. Len(q) OBVIOUS
<1>2. IsFiniteSet(1 .. Len(q)) BY <1>1, FS_Interval
<1>. QED BY <1>1, <1>2, FS_Subset

LEMMA CountedFinite ==
    ASSUME FlowState, NEW s
    PROVE  IsFiniteSet(Flow!Entries(s)) /\ IsFiniteSet(Ran(s))
<1>1. flowLog \in Seq(FlowEvent) /\ done \in Seq(Flow!StepIds) BY DEF FlowState, LogIn
<1>2. Flow!Entries(s) \subseteq DOMAIN flowLog /\ Ran(s) \subseteq DOMAIN done
  BY DEF Flow!Entries, Ran
<1>. QED BY <1>1, <1>2, FiniteIndices

LEMMA Smaller ==
    ASSUME NEW S, NEW T, IsFiniteSet(T), S \subseteq T
    PROVE  IsFiniteSet(S) /\ Cardinality(S) \in Nat /\ Cardinality(T) \in Nat
           /\ Cardinality(S) <= Cardinality(T)
BY FS_Subset, FS_CardinalityType

LEMMA EntriesGrow ==
    ASSUME FlowState, NEW e, flowLog' = Append(flowLog, e), NEW s
    PROVE  Flow!Entries(s) \subseteq Flow!Entries(s)'
<1>1. flowLog \in Seq(FlowEvent) BY DEF FlowState, LogIn
<1>2. ASSUME NEW i \in DOMAIN flowLog
      PROVE  i \in DOMAIN flowLog' /\ flowLog'[i] = flowLog[i]
  BY <1>1
<1>. QED BY <1>2 DEF Flow!Entries

LEMMA CountedInit == ASSUME Flow!Init PROVE Counted
<1>1. \A s : Acting(s) = {} BY DEF Flow!Init, Flow!Idle, Acting
<1>2. \A s : Ran(s) = {} /\ Flow!Entries(s) = {} BY DEF Flow!Init, Ran, Flow!Entries
<1>3. IsFiniteSet({}) /\ Cardinality({}) = 0 BY FS_EmptySet
<1>. QED BY <1>1, <1>2, <1>3 DEF Counted

\* Steps in which no thread enters a step with an action.
LEMMA CountedCalm ==
    ASSUME FlowState, Counted, FlowState', done' = done,
           flowLog' = flowLog \/ \E e : flowLog' = Append(flowLog, e),
           \A t \in Flow!Threads : run'[t].at = "Action" => run'[t] = run[t]
    PROVE  Counted'
<1>1. ASSUME NEW s \in Flow!StepIds
      PROVE  /\ IsFiniteSet(Acting(s)')
             /\ Cardinality(Ran(s)') + Cardinality(Acting(s)') <= Cardinality(Flow!Entries(s)')
  <2>1. Acting(s)' \subseteq Acting(s) BY DEF Acting
  <2>2. Ran(s)' = Ran(s) BY DEF Ran
  <2>3. Flow!Entries(s) \subseteq Flow!Entries(s)'
    <3>1. CASE flowLog' = flowLog BY <3>1 DEF Flow!Entries
    <3>. QED BY <3>1, EntriesGrow
  <2>4. IsFiniteSet(Flow!Entries(s)')
    <3>1. flowLog' \in Seq(FlowEvent) BY DEF FlowState, LogIn
    <3>2. Flow!Entries(s)' \subseteq DOMAIN flowLog' BY DEF Flow!Entries
    <3>. QED BY <3>1, <3>2, FiniteIndices
  <2>5. IsFiniteSet(Ran(s)) /\ Cardinality(Ran(s)) \in Nat
    BY CountedFinite, FS_CardinalityType
  <2>6. IsFiniteSet(Acting(s))
        /\ Cardinality(Ran(s)) + Cardinality(Acting(s)) <= Cardinality(Flow!Entries(s))
    BY DEF Counted
  <2>7. IsFiniteSet(Acting(s)') /\ Cardinality(Acting(s)') \in Nat
        /\ Cardinality(Acting(s)) \in Nat /\ Cardinality(Acting(s)') <= Cardinality(Acting(s))
    BY <2>1, <2>6, Smaller
  <2>8. Cardinality(Flow!Entries(s)) \in Nat /\ Cardinality(Flow!Entries(s)') \in Nat
        /\ Cardinality(Flow!Entries(s)) <= Cardinality(Flow!Entries(s)')
    BY <2>3, <2>4, Smaller
  <2>. QED BY <2>2, <2>5, <2>6, <2>7, <2>8
<1>. QED BY <1>1 DEF Counted

LEMMA CountedEnter ==
    ASSUME FlowState, Counted, FlowState', NEW t \in Flow!Threads, Flow!EnterStep(t)
    PROVE  Counted'
<1>. DEFINE e == [type |-> "Enter", step |-> run[t].step, version |-> run[t].copy.version + 1]
            n == Len(flowLog) + 1
<1>1. run[t].at = "enter" /\ done' = done BY DEF Flow!EnterStep
<1>2. CASE ~Flow!Accepts(run[t].copy.version + 1)
  <2>1. flowLog' = flowLog /\ run' = [run EXCEPT ![t].at = "thrown"]
    BY <1>2 DEF Flow!EnterStep, Flow!Emit, Flow!Throw
  <2>2. \A u \in Flow!Threads : run'[u].at = "Action" => run'[u] = run[u]
    BY <2>1 DEF FlowState, FlowThread
  <2>. QED BY <1>1, <2>1, <2>2, CountedCalm
<1>3. CASE Flow!Accepts(run[t].copy.version + 1)
  <2>1. /\ flowLog' = Append(flowLog, e)
        /\ \A u \in Flow!Threads : u # t => run'[u] = run[u]
        /\ run'[t].step = run[t].step
    BY <1>3 DEF Flow!EnterStep, Flow!Emit, Flow!Goto, FlowState, FlowThread
  <2>2. e.type = "Enter" /\ e.step = run[t].step OBVIOUS
  <2>. HIDE DEF e
  <2>3. /\ flowLog \in Seq(FlowEvent) /\ Len(flowLog) \in Nat
        /\ n \in DOMAIN flowLog' /\ n \notin DOMAIN flowLog /\ flowLog'[n] = e
        /\ \A i \in DOMAIN flowLog : i \in DOMAIN flowLog' /\ flowLog'[i] = flowLog[i]
    <3>1. flowLog \in Seq(FlowEvent) BY DEF FlowState, LogIn
    <3>. QED BY <2>1, <3>1
  <2>4. ASSUME NEW s \in Flow!StepIds
        PROVE  /\ IsFiniteSet(Acting(s)')
               /\ Cardinality(Ran(s)') + Cardinality(Acting(s)') <= Cardinality(Flow!Entries(s)')
    <3>1. Ran(s)' = Ran(s) BY <1>1 DEF Ran
    <3>2. IsFiniteSet(Acting(s))
          /\ Cardinality(Ran(s)) + Cardinality(Acting(s)) <= Cardinality(Flow!Entries(s))
      BY DEF Counted
    <3>3. Cardinality(Ran(s)) \in Nat /\ Cardinality(Acting(s)) \in Nat
          /\ IsFiniteSet(Flow!Entries(s)) /\ Cardinality(Flow!Entries(s)) \in Nat
      BY <3>2, CountedFinite, FS_CardinalityType
    <3>4. IsFiniteSet(Flow!Entries(s)')
      <4>1. flowLog' \in Seq(FlowEvent) BY DEF FlowState, LogIn
      <4>2. Flow!Entries(s)' \subseteq DOMAIN flowLog' BY DEF Flow!Entries
      <4>. QED BY <4>1, <4>2, FiniteIndices
    <3>5. CASE s # run[t].step
      <4>1. Acting(s)' \subseteq Acting(s) BY <2>1, <3>5 DEF Acting
      <4>2. Flow!Entries(s) \subseteq Flow!Entries(s)' BY <2>1, EntriesGrow
      <4>3. IsFiniteSet(Acting(s)') /\ Cardinality(Acting(s)') \in Nat
            /\ Cardinality(Acting(s)') <= Cardinality(Acting(s))
        BY <3>2, <4>1, Smaller
      <4>4. Cardinality(Flow!Entries(s)') \in Nat
            /\ Cardinality(Flow!Entries(s)) <= Cardinality(Flow!Entries(s)')
        BY <3>4, <4>2, Smaller
      <4>. QED BY <3>1, <3>2, <3>3, <4>3, <4>4
    <3>6. CASE s = run[t].step
      <4>1. Acting(s)' \subseteq Acting(s) \cup {t} /\ t \notin Acting(s)
        BY <1>1, <2>1 DEF Acting
      <4>2. n \notin Flow!Entries(s) /\ Flow!Entries(s) \cup {n} \subseteq Flow!Entries(s)'
        BY <2>2, <2>3, <3>6 DEF Flow!Entries
      <4>3. IsFiniteSet(Acting(s) \cup {t})
            /\ Cardinality(Acting(s) \cup {t}) = Cardinality(Acting(s)) + 1
        BY <3>2, <4>1, FS_AddElement
      <4>4. IsFiniteSet(Acting(s)') /\ Cardinality(Acting(s)') \in Nat
            /\ Cardinality(Acting(s)') <= Cardinality(Acting(s)) + 1
        BY <4>1, <4>3, Smaller
      <4>5. Cardinality(Flow!Entries(s) \cup {n}) = Cardinality(Flow!Entries(s)) + 1
        BY <3>3, <4>2, FS_AddElement
      <4>6. Cardinality(Flow!Entries(s)') \in Nat
            /\ Cardinality(Flow!Entries(s)) + 1 <= Cardinality(Flow!Entries(s)')
        BY <3>4, <4>2, <4>5, Smaller
      <4>. QED BY <3>1, <3>2, <3>3, <4>4, <4>6
    <3>. QED BY <3>5, <3>6
  <2>. QED BY <2>4 DEF Counted
<1>. QED BY <1>2, <1>3

LEMMA CountedExecute ==
    ASSUME FlowState, Counted, FlowState', NEW t \in Flow!Threads, Flow!ExecuteActions(t)
    PROVE  Counted'
<1>. DEFINE n == Len(done) + 1
<1>1. /\ run[t].at = "Action" /\ done' = Append(done, run[t].step) /\ flowLog' = flowLog
      /\ \A u \in Flow!Threads : u # t => run'[u] = run[u]
      /\ run'[t].at = "exit"
  BY DEF Flow!ExecuteActions, Flow!Goto, FlowState, FlowThread
<1>2. ASSUME NEW s \in Flow!StepIds
      PROVE  /\ IsFiniteSet(Acting(s)')
             /\ Cardinality(Ran(s)') + Cardinality(Acting(s)') <= Cardinality(Flow!Entries(s)')
  <2>1. Flow!Entries(s)' = Flow!Entries(s) BY <1>1 DEF Flow!Entries
  <2>2. IsFiniteSet(Acting(s))
        /\ Cardinality(Ran(s)) + Cardinality(Acting(s)) <= Cardinality(Flow!Entries(s))
    BY DEF Counted
  <2>3. Cardinality(Ran(s)) \in Nat /\ Cardinality(Acting(s)) \in Nat
        /\ IsFiniteSet(Ran(s)) /\ Cardinality(Flow!Entries(s)) \in Nat
    BY <2>2, CountedFinite, FS_CardinalityType
  <2>4. /\ Len(done) \in Nat /\ DOMAIN done = 1 .. Len(done)
        /\ DOMAIN done' = DOMAIN done \cup {n} /\ n \notin DOMAIN done
        /\ done'[n] = run[t].step /\ \A i \in DOMAIN done : done'[i] = done[i]
    <3>1. done \in Seq(Flow!StepIds) /\ run[t].step \in StepNames
      BY DEF FlowState, FlowThread
    <3>2. done' \in Seq(Flow!StepIds) BY DEF FlowState
    <3>. QED BY <1>1, <3>1, <3>2
  <2>5. CASE s # run[t].step
    <3>1. Ran(s)' = Ran(s) BY <2>4, <2>5 DEF Ran
    <3>2. Acting(s)' = Acting(s) BY <1>1, <2>5 DEF Acting
    <3>. QED BY <2>1, <2>2, <3>1, <3>2
  <2>6. CASE s = run[t].step
    <3>1. Ran(s)' = Ran(s) \cup {n} /\ n \notin Ran(s) BY <2>4, <2>6 DEF Ran
    <3>2. Acting(s)' = Acting(s) \ {t} /\ t \in Acting(s) BY <1>1, <2>6 DEF Acting
    <3>3. Cardinality(Ran(s)') = Cardinality(Ran(s)) + 1 BY <2>3, <3>1, FS_AddElement
    <3>4. IsFiniteSet(Acting(s)') /\ Cardinality(Acting(s)') = Cardinality(Acting(s)) - 1
      BY <2>2, <3>2, FS_RemoveElement
    <3>. QED BY <2>1, <2>2, <2>3, <3>3, <3>4
  <2>. QED BY <2>5, <2>6
<1>. QED BY <1>2 DEF Counted

Calm == \A u \in Flow!Threads : run'[u].at = "Action" => run'[u] = run[u]

LEMMA GotoCalm ==
    ASSUME FlowState, NEW t \in Flow!Threads, NEW goal, NEW s, NEW c, goal # "Action",
           Flow!Goto(t, goal, s, c)
    PROVE  Calm
<1>1. run[t] \in FlowThread /\ run \in [Flow!Threads -> FlowThread] BY DEF FlowState
<1>2. run'[t].at = goal /\ \A u \in Flow!Threads : u # t => run'[u] = run[u]
  BY <1>1 DEF Flow!Goto, FlowThread
<1>. QED BY <1>2 DEF Calm

LEMMA ThrowCalm ==
    ASSUME FlowState, NEW t \in Flow!Threads, Flow!Throw(t)
    PROVE  Calm
<1>1. run[t] \in FlowThread /\ run \in [Flow!Threads -> FlowThread] BY DEF FlowState
<1>2. run'[t].at = "thrown" /\ \A u \in Flow!Threads : u # t => run'[u] = run[u]
  BY <1>1 DEF Flow!Throw, FlowThread
<1>. QED BY <1>2 DEF Calm

LEMMA EmitCalm ==
    ASSUME FlowState, NEW t \in Flow!Threads, NEW kind, NEW base, NEW goal, goal # "Action",
           Flow!Emit(t, kind, base, goal)
    PROVE  Calm /\ (flowLog' = flowLog \/ \E e : flowLog' = Append(flowLog, e))
<1>1. CASE Flow!Accepts(base.version + 1)
  <2>1. \E s, c : Flow!Goto(t, goal, s, c) BY <1>1 DEF Flow!Emit
  <2>2. \E e : flowLog' = Append(flowLog, e) BY <1>1 DEF Flow!Emit
  <2>. QED BY <2>1, <2>2, GotoCalm
<1>2. CASE ~Flow!Accepts(base.version + 1)
  BY <1>2, ThrowCalm DEF Flow!Emit
<1>. QED BY <1>1, <1>2

LEMMA CountedNext ==
    ASSUME FlowState, Counted, FlowState', [Flow!Next]_flowVars PROVE Counted'
<1>1. ASSUME done' = done, Calm, flowLog' = flowLog \/ \E e : flowLog' = Append(flowLog, e)
      PROVE  Counted'
  BY <1>1, CountedCalm DEF Calm
<1>2. CASE Flow!StartFlow
  <2>1. done' = done BY <1>2 DEF Flow!StartFlow
  <2>2. Calm
    <3>1. "start" \in Flow!Threads BY DEF Flow!Threads
    <3>2. Flow!Goto("start", "enter", flow.start, Flow!Created) BY <1>2 DEF Flow!StartFlow
    <3>. QED BY <3>1, <3>2, GotoCalm
  <2>3. \E e : flowLog' = Append(flowLog, e)
    <3>1. PICK e : flowLog = << >> /\ flowLog' = <<e>> BY <1>2 DEF Flow!StartFlow
    <3>2. <<e>> = Append(<< >>, e) OBVIOUS
    <3>. QED BY <3>1, <3>2
  <2>. QED BY <1>1, <2>1, <2>2, <2>3
<1>3. ASSUME NEW t \in Flow!Threads, Flow!Thread(t) PROVE Counted'
  <2>1. CASE Flow!EnterStep(t) BY <2>1, CountedEnter
  <2>2. CASE Flow!ExecuteActions(t) BY <2>2, CountedExecute
  <2>3. CASE Flow!Decide(t)
    <3>1. Calm BY <2>3, GotoCalm, ThrowCalm DEF Flow!Decide
    <3>. QED BY <1>1, <2>3, <3>1 DEF Flow!Decide
  <2>4. CASE Flow!ExecuteWorkflow(t)
    <3>1. Calm BY <2>4, GotoCalm DEF Flow!ExecuteWorkflow
    <3>. QED BY <1>1, <2>4, <3>1 DEF Flow!ExecuteWorkflow
  <2>5. CASE Flow!Wait(t)
    <3>1. \E s, c : Flow!Goto(t, "return", s, c) BY <2>5 DEF Flow!Wait
    <3>2. Calm BY <3>1, GotoCalm
    <3>. QED BY <1>1, <2>5, <3>2 DEF Flow!Wait
  <2>6. CASE Flow!Fork(t)
    <3>1. ASSUME NEW u \in Flow!Threads PROVE run'[u].at = "Action" => run'[u] = run[u]
      <4>1. \/ run'[u].at = "enter"
            \/ run'[u] = [run[t] EXCEPT !.at = "join"]
            \/ run'[u] = run[u]
        BY <2>6 DEF Flow!Fork
      <4>2. run[t] \in FlowThread BY DEF FlowState
      <4>. QED BY <4>1, <4>2 DEF FlowThread
    <3>. QED BY <1>1, <2>6, <3>1 DEF Flow!Fork, Calm
  <2>7. CASE Flow!Join(t)
    <3>1. Calm BY <2>7, GotoCalm, ThrowCalm DEF Flow!Join
    <3>. QED BY <1>1, <2>7, <3>1 DEF Flow!Join
  <2>8. CASE Flow!ExitStep(t)
    <3>1. \E goal \in {"complete", "next"} : Flow!Emit(t, "Exit", run[t].copy, goal)
      BY <2>8 DEF Flow!ExitStep
    <3>. QED BY <1>1, <2>8, <3>1, EmitCalm DEF Flow!ExitStep
  <2>9. CASE Flow!NextStep(t)
    <3>1. Calm BY <2>9, GotoCalm, ThrowCalm DEF Flow!NextStep
    <3>. QED BY <1>1, <2>9, <3>1 DEF Flow!NextStep
  <2>10. CASE Flow!CompleteFlow(t)
    <3>1. \E c : \E goal \in {"returned", "return"} : Flow!Emit(t, "Completed", c, goal)
      BY <2>10 DEF Flow!CompleteFlow
    <3>. QED BY <1>1, <2>10, <3>1, EmitCalm DEF Flow!CompleteFlow
  <2>11. CASE Flow!Return(t)
    <3>1. run[t] \in FlowThread /\ run \in [Flow!Threads -> FlowThread] BY DEF FlowState
    <3>2. run'[t].at = "returned" /\ \A u \in Flow!Threads : u # t => run'[u] = run[u]
      BY <2>11, <3>1 DEF Flow!Return, FlowThread
    <3>. QED BY <1>1, <2>11, <3>2 DEF Flow!Return, Calm
  <2>. QED BY <1>3, <2>1, <2>2, <2>3, <2>4, <2>5, <2>6, <2>7, <2>8, <2>9, <2>10, <2>11
           DEF Flow!Thread
<1>4. ASSUME NEW t \in Resumes, Flow!ResumeFlow(t) PROVE Counted'
  <2>1. Calm BY <1>4, GotoCalm DEF Flow!ResumeFlow, Flow!Threads
  <2>. QED BY <1>1, <1>4, <2>1 DEF Flow!ResumeFlow
<1>5. ASSUME NEW t \in Cancels, Flow!CancelFlow(t) PROVE Counted'
  <2>1. Calm BY <1>5, GotoCalm DEF Flow!CancelFlow, Flow!Threads
  <2>. QED BY <1>1, <1>5, <2>1 DEF Flow!CancelFlow
<1>6. ASSUME NEW s \in armed, Flow!Alarm(s) PROVE Counted'
  <2>1. s \in Flow!Threads BY FlowSteps DEF FlowState
  <2>2. Calm
    <3>1. CASE instance.status = "Waiting" BY <1>6, <2>1, <3>1, GotoCalm DEF Flow!Alarm
    <3>2. CASE instance.status # "Waiting"
      <4>1. run[s] \in FlowThread /\ run \in [Flow!Threads -> FlowThread]
        BY <2>1 DEF FlowState
      <4>2. run'[s].at = "returned" /\ \A u \in Flow!Threads : u # s => run'[u] = run[u]
        BY <1>6, <2>1, <3>2, <4>1 DEF Flow!Alarm, FlowThread
      <4>. QED BY <4>2 DEF Calm
    <3>. QED BY <3>1, <3>2
  <2>. QED BY <1>1, <1>6, <2>2 DEF Flow!Alarm
<1>7. CASE UNCHANGED flowVars BY <1>1, <1>7 DEF flowVars, Calm
<1>. QED BY <1>2, <1>3, <1>4, <1>5, <1>6, <1>7 DEF Flow!Next

LEMMA CountedHolds == ASSUME FlowState, Counted PROVE Flow!DoneIsEntered
<1>1. ASSUME NEW s \in Flow!StepIds
      PROVE  Cardinality(Ran(s)) <= Cardinality(Flow!Entries(s))
  <2>1. Cardinality(Ran(s)) \in Nat /\ Cardinality(Acting(s)) \in Nat
        /\ Cardinality(Flow!Entries(s)) \in Nat
    BY <1>1, CountedFinite, FS_CardinalityType DEF Counted
  <2>2. Cardinality(Ran(s)) + Cardinality(Acting(s)) <= Cardinality(Flow!Entries(s))
    BY DEF Counted
  <2>. QED BY <2>1, <2>2
<1>. QED BY <1>1, FlowCardinality DEF Flow!DoneIsEntered, Ran

-----------------------------------------------------------------------------
(***************************************************************************)
(* The engine of the assets is the engine of WorkflowEngine_proofs, with   *)
(* a store that checks versions, no failures and no restarts.              *)
(***************************************************************************)
AssetEngine == INSTANCE WorkflowEngine_proofs WITH
    Transitions <- AssetTransitions, InitialState <- "Created",
    TerminalStates <- AssetTerminal,
    Targets <- {[type |-> "Asset", id |-> "car"]},
    Actors <- {Ann}, Parties <- {}, Principals <- {},
    Roles <- {[actor |-> Ann, role |-> "Admin"]},
    Conditions <- {"has-sale-agreement"},
    VersionChecked <- TRUE, MayFail <- FALSE, MayRestart <- FALSE,
    log <- assetLog, instances <- assets, instancesByAggregate <- assetIds,
    calls <- assetCalls, world <- assetWorld

LEMMA AssetInit == ASSUME Asset!Init PROVE AssetEngine!Init
BY DEF Asset!Init, AssetEngine!Init, Asset!Idle, AssetEngine!Idle

LEMMA AssetNext == ASSUME [Asset!Next]_assetVars PROVE [AssetEngine!Next]_(AssetEngine!vars)
<1>1. ASSUME NEW c \in Calls, NEW target \in {[type |-> "Asset", id |-> "car"]},
             Asset!Start(c, target)
      PROVE  AssetEngine!Start(c, target)
  BY <1>1 DEF Asset!Start, AssetEngine!Start, Asset!FreshIds, AssetEngine!FreshIds,
     Asset!EventsOf, AssetEngine!EventsOf, Asset!Set, AssetEngine!Set,
     Asset!NewInstance, AssetEngine!NewInstance
<1>2. ASSUME NEW c \in Calls, NEW id \in DOMAIN assets, NEW t \in AssetTransitions,
             NEW a \in {Ann}, Asset!Request(c, id, t, a)
      PROVE  AssetEngine!Request(c, id, t, a)
  BY <1>2 DEF Asset!Request, AssetEngine!Request, Asset!Set, AssetEngine!Set
<1>3. ASSUME NEW c \in Calls, Asset!AppendCreated(c) PROVE AssetEngine!AppendCreated(c)
  BY <1>3 DEF Asset!AppendCreated, AssetEngine!AppendCreated, Asset!Accepts,
     AssetEngine!Accepts, Asset!EventsOf, AssetEngine!EventsOf, Asset!Room, AssetEngine!Room,
     Asset!WorkflowEvent, AssetEngine!WorkflowEvent, Asset!Set, AssetEngine!Set,
     Asset!Cardinality, AssetEngine!Cardinality
<1>4. ASSUME NEW c \in Calls, Asset!StoreCreated(c) PROVE AssetEngine!StoreCreated(c)
  BY <1>4 DEF Asset!StoreCreated, AssetEngine!StoreCreated, Asset!Set, AssetEngine!Set,
     Asset!Idle, AssetEngine!Idle
<1>5. ASSUME NEW c \in Calls, Asset!Authorize(c) PROVE AssetEngine!Authorize(c)
  BY <1>5 DEF Asset!Authorize, AssetEngine!Authorize, Asset!Set, AssetEngine!Set,
     Asset!Idle, AssetEngine!Idle, Asset!CheckActorAuthorization,
     AssetEngine!CheckActorAuthorization, Asset!Satisfies, AssetEngine!Satisfies
<1>6. ASSUME NEW c \in Calls, Asset!EvaluateGuards(c) PROVE AssetEngine!EvaluateGuards(c)
  BY <1>6 DEF Asset!EvaluateGuards, AssetEngine!EvaluateGuards, Asset!Set, AssetEngine!Set,
     Asset!Idle, AssetEngine!Idle, Asset!EvaluateGuard, AssetEngine!EvaluateGuard,
     Asset!ConsentGiven, AssetEngine!ConsentGiven
<1>7. ASSUME NEW c \in Calls, Asset!Leave(c) PROVE AssetEngine!Leave(c)
  BY <1>7 DEF Asset!Leave, AssetEngine!Leave, Asset!Set, AssetEngine!Set
<1>8. ASSUME NEW c \in Calls, Asset!AppendTransitioned(c)
      PROVE  AssetEngine!AppendTransitioned(c)
  BY <1>8 DEF Asset!AppendTransitioned, AssetEngine!AppendTransitioned, Asset!Accepts,
     AssetEngine!Accepts, Asset!EventsOf, AssetEngine!EventsOf, Asset!Room, AssetEngine!Room,
     Asset!WorkflowEvent, AssetEngine!WorkflowEvent, Asset!Set, AssetEngine!Set,
     Asset!Cardinality, AssetEngine!Cardinality,
     Asset!UpdatedInstance, AssetEngine!UpdatedInstance
<1>9. ASSUME NEW c \in Calls, Asset!AppendCompleted(c) PROVE AssetEngine!AppendCompleted(c)
  BY <1>9 DEF Asset!AppendCompleted, AssetEngine!AppendCompleted, Asset!Accepts,
     AssetEngine!Accepts, Asset!EventsOf, AssetEngine!EventsOf,
     Asset!WorkflowEvent, AssetEngine!WorkflowEvent, Asset!Set, AssetEngine!Set,
     Asset!Cardinality, AssetEngine!Cardinality
<1>10. ASSUME NEW c \in Calls, Asset!StoreUpdated(c) PROVE AssetEngine!StoreUpdated(c)
  BY <1>10 DEF Asset!StoreUpdated, AssetEngine!StoreUpdated, Asset!Set, AssetEngine!Set,
     Asset!Idle, AssetEngine!Idle
<1>11. ASSUME NEW c \in Calls, Asset!Conflict(c) PROVE AssetEngine!Conflict(c)
  BY <1>11 DEF Asset!Conflict, AssetEngine!Conflict, Asset!Set, AssetEngine!Set,
     Asset!Idle, AssetEngine!Idle, Asset!EventsOf, AssetEngine!EventsOf,
     Asset!Cardinality, AssetEngine!Cardinality,
     Asset!UpdatedInstance, AssetEngine!UpdatedInstance
<1>12. ASSUME NEW c \in Calls PROVE ~Asset!Fail(c) BY DEF Asset!Fail
<1>13. ~Asset!Restart BY DEF Asset!Restart
<1>14. Asset!WorldMoves => AssetEngine!WorldMoves
  BY DEF Asset!WorldMoves, AssetEngine!WorldMoves
<1>15. ASSUME Asset!Next PROVE AssetEngine!Next
  <2>1. ASSUME NEW c \in Calls, Asset!CallStep(c) PROVE AssetEngine!CallStep(c)
    BY <1>3, <1>4, <1>5, <1>6, <1>7, <1>8, <1>9, <1>10, <1>11, <2>1
       DEF Asset!CallStep, AssetEngine!CallStep
  <2>2. CASE \E c \in Calls : \E target \in {[type |-> "Asset", id |-> "car"]} :
                Asset!Start(c, target)
    BY <1>1, <2>2 DEF AssetEngine!Next
  <2>3. CASE \E c \in Calls : \E id \in DOMAIN assets, t \in AssetTransitions, a \in {Ann} :
                Asset!Request(c, id, t, a)
    BY <1>2, <2>3 DEF AssetEngine!Next
  <2>4. CASE \E c \in Calls : Asset!CallStep(c) BY <2>1, <2>4 DEF AssetEngine!Next
  <2>5. CASE Asset!WorldMoves BY <1>14, <2>5 DEF AssetEngine!Next
  <2>. QED BY <1>12, <1>13, <1>15, <2>2, <2>3, <2>4, <2>5 DEF Asset!Next
<1>16. CASE UNCHANGED assetVars BY <1>16 DEF AssetEngine!vars, assetVars
<1>. QED BY <1>15, <1>16

LEMMA AssetBehaves == MCSpec => AssetEngine!Spec
<1>1. MCInit => AssetEngine!Init BY AssetInit DEF MCInit
<1>2. [MCNext]_partVars => [AssetEngine!Next]_(AssetEngine!vars)
  <2>. SUFFICES ASSUME [MCNext]_partVars PROVE [Asset!Next]_assetVars
    BY AssetNext
  <2>. QED BY DEF MCNext, partVars
<1>. QED BY <1>1, <1>2, PTL DEF MCSpec, AssetEngine!Spec

LEMMA AgreementBehaves == MCSpec => Spec
<1>1. MCInit => Init BY DEF MCInit
<1>2. [MCNext]_partVars => [Next]_vars BY DEF MCNext, partVars
<1>. QED BY <1>1, <1>2, PTL DEF MCSpec, Spec

LEMMA AssetHolds ==
    /\ AssetEngine!TypeOK => Asset!TypeOK
    /\ AssetEngine!CacheIsLog => Asset!CacheIsLog
    /\ AssetEngine!LogIsARun => Asset!LogIsARun
    /\ AssetEngine!NothingAfterCompletion => Asset!NothingAfterCompletion
<1>1. AssetEngine!TypeOK => Asset!TypeOK
  BY DEF AssetEngine!TypeOK, Asset!TypeOK, AssetEngine!Instance, Asset!Instance,
     AssetEngine!States, Asset!States, AssetEngine!Names, Asset!Names,
     AssetEngine!Step, Asset!Step
<1>2. AssetEngine!CacheIsLog => Asset!CacheIsLog
  <2>1. \A id \in DOMAIN assets : AssetEngine!Rehydrated(id) = Asset!Rehydrated(id)
    BY DEF AssetEngine!Rehydrated, Asset!Rehydrated, AssetEngine!WorkflowRehydrator,
       Asset!WorkflowRehydrator, AssetEngine!Apply, Asset!Apply,
       AssetEngine!NotCreated, Asset!NotCreated
  <2>. QED BY <2>1 DEF AssetEngine!CacheIsLog, Asset!CacheIsLog
<1>3. AssetEngine!LogIsARun => Asset!LogIsARun
  BY DEF AssetEngine!LogIsARun, Asset!LogIsARun, AssetEngine!EventsOf, Asset!EventsOf,
     AssetEngine!IsBy, Asset!IsBy
<1>4. AssetEngine!NothingAfterCompletion => Asset!NothingAfterCompletion
  BY DEF AssetEngine!NothingAfterCompletion, Asset!NothingAfterCompletion,
     AssetEngine!EventsOf, Asset!EventsOf
<1>. QED BY <1>1, <1>2, <1>3, <1>4

\* The other three parts.
PartsInv ==
    /\ StreamInv /\ ExportInv
    /\ part = "flow" => FlowState /\ Counted

LEMMA PartsInit == ASSUME MCInit PROVE PartsInv
<1>1. Stream!Init BY DEF MCInit, NoStream
<1>2. Export!Init BY DEF MCInit, NoExport
<1>3. part = "flow" => Flow!Init BY DEF MCInit
<1>. QED BY <1>1, <1>2, <1>3, StreamInit, ExportInit, FlowInit, CountedInit DEF PartsInv

LEMMA PartsNext == ASSUME PartsInv, [MCNext]_partVars PROVE PartsInv'
<1>1. [Stream!Next]_streamVars /\ [Export!Next]_exportVars
  BY DEF MCNext, partVars
<1>2. StreamInv' BY <1>1, StreamNext DEF PartsInv
<1>3. ExportInv' BY <1>1, ExportNext DEF PartsInv
<1>4. part' = part /\ (part = "flow" => [Flow!Next]_flowVars)
  BY DEF MCNext, partVars
<1>5. part = "flow" => FlowState' BY <1>4, FlowNext DEF PartsInv
<1>6. part = "flow" => Counted' BY <1>4, <1>5, CountedNext DEF PartsInv
<1>. QED BY <1>2, <1>3, <1>4, <1>5, <1>6 DEF PartsInv

LEMMA PartsInvariance == MCSpec => []PartsInv
<1>1. MCInit => PartsInv BY PartsInit
<1>2. PartsInv /\ [MCNext]_partVars => PartsInv' BY PartsNext
<1>. QED BY <1>1, <1>2, PTL DEF MCSpec

\* The maps, the logs and every copy in flight of the agreements, the assets and
\* the flows, the positions of the streams and the records of the exports keep their types.
THEOREM PartsTypedHold == MCSpec => []PartsTyped
<1>1. PartsInv /\ TypeOK /\ AssetEngine!TypeOK => PartsTyped
  BY AssetHolds, FlowHolds, StreamHolds, ExportHolds DEF PartsInv, PartsTyped
<1>2. AssetEngine!Spec => []AssetEngine!TypeOK BY AssetEngine!TypeCorrect
<1>3. Spec => []TypeOK BY TypeCorrect
<1>. QED BY <1>1, <1>2, <1>3, AgreementBehaves, AssetBehaves, PartsInvariance, PTL

\* Nothing is remembered, said or done that the store does not bear out:
\* whatever fails, the maps of the agreements and of the flows are never ahead
\* of the log; the map of the assets, where no call fails, agrees with it
\* between the calls; an action of a flow runs at most as often as its step was
\* entered; a completed export has all there was when it was asked for.
THEOREM NothingAheadHolds == VersionChecked => (MCSpec => []NothingAhead)
<1>. SUFFICES ASSUME VersionChecked PROVE MCSpec => []NothingAhead
  OBVIOUS
<1>1. ASSUME CacheBehindLog, NothingAfterCompletion, AssetEngine!CacheIsLog,
             AssetEngine!LogIsARun, AssetEngine!NothingAfterCompletion, PartsInv
      PROVE  NothingAhead
  BY <1>1, AssetHolds, FlowHolds, CountedHolds, ExportHolds DEF PartsInv, NothingAhead
<1>2. Spec => []CacheBehindLog BY MapIsBehind
<1>3. Spec => []NothingAfterCompletion BY CompletionIsLast
<1>4. AssetEngine!Spec => []AssetEngine!CacheIsLog BY AssetEngine!CachesAgree
<1>5. AssetEngine!Spec => []AssetEngine!LogIsARun BY AssetEngine!RunsHold
<1>6. AssetEngine!Spec => []AssetEngine!NothingAfterCompletion
  BY AssetEngine!CompletionIsLast
<1>. QED BY <1>1, <1>2, <1>3, <1>4, <1>5, <1>6, AgreementBehaves, AssetBehaves,
            PartsInvariance, PTL

\* Over all its connections a client gets each event at most once and in order,
\* and of those between its first and its last it misses only the ones appended
\* between the query of a replay and the subscription.
THEOREM OnlyUnseenHolds == MCSpec => []OnlyUnseenAreMissed
<1>1. PartsInv => OnlyUnseenAreMissed BY StreamHolds DEF PartsInv, OnlyUnseenAreMissed
<1>. QED BY <1>1, PartsInvariance, PTL

\* An export that has ended stays as it is, whatever step is taken: a worker
\* that goes on after a cancellation does not complete it.
THEOREM ExportsStay == MCSpec => [][part = "export" => Export!EndedStays]_partVars
<1>1. PartsInv /\ [MCNext]_partVars =>
         [part = "export" => Export!EndedStays]_partVars
  <2>. SUFFICES ASSUME PartsInv, [MCNext]_partVars, part = "export" PROVE Export!EndedStays
    OBVIOUS
  <2>1. [Export!Next]_exportVars BY DEF MCNext, partVars
  <2>. QED BY <2>1, ExportNext DEF PartsInv
<1>. QED BY <1>1, PartsInvariance, PTL DEF MCSpec

=============================================================================
