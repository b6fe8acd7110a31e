-------------------------- MODULE VoiceDaemonProofs --------------------------
(***************************************************************************)
(* Proofs about VoiceDaemon, for any retry limits: no mute is lost and     *)
(* none outlives its reason, whatever the card, the bridge and Android do, *)
(* but for what a refused write leaves; and an open path is on the route   *)
(* it should be on.                                                        *)
(***************************************************************************)
EXTENDS VoiceDaemon, TLAPS

\* An uplink route that is on is known to be on, and there for a reason, or its
\* clear is owed.
BridgeInv ==
  /\ ul => "ul" \in set \/ owed
  /\ ul /\ (muteWant = "on" \/ ~enabled) => owed
  /\ ~card => ~ul

\* Between daemon_step's decision and voice_open the path is closed, and the
\* route in hand is the requested one or the one it falls back to.
RouteInv ==
  /\ pc \in {"open", "fallback"} => ~open
  /\ pc = "open" => route = rx \/ (fb = rx /\ route = Fallback)
  /\ fb # "none" => fb # Fallback

\* A refused route is tried again only while it has retries left.
TriesInv == fb # "none" /\ (pc = "fallback" \/ (pc = "open" /\ route = rx)) => tries < FALLBACK_RETRIES

IInv == TypeOK /\ MuteSilences /\ MicAsAsked /\ RouteAsAsked /\ BridgeInv /\ RouteInv /\ TriesInv

-----------------------------------------------------------------------------
(* The bridge routes *)

\* bt_sync_routes keeps types, and leaves the uplink route on only if it should be
\* or its clear was refused.
LEMMA Synced ==
  ASSUME TypeOK, BridgeInv, NEW en \in BOOLEAN, NEW m, syncRoutes(en, m)
  PROVE  /\ set' \in SUBSET {"dl", "ul"} /\ ul' \in BOOLEAN
         /\ btWait' \in BOOLEAN /\ owed' \in BOOLEAN
         /\ ul' => "ul" \in set' \/ owed'
         /\ ul' /\ (m = "on" \/ ~en) => owed'
         /\ ~card => ~ul'
<1> DEFINE goal == IF ~en THEN {} ELSE IF m = "on" THEN {"dl"} ELSE {"dl", "ul"}
           todo == (set \ goal) \cup (goal \ set)
<1>1. PICK bad \in SUBSET todo :
        /\ card \/ bad = todo
        /\ set' = goal \ bad /\ btWait' = (bad # {})
        /\ ul' = IF "ul" \in todo \ bad THEN "ul" \in goal ELSE ul
        /\ owed' = IF "ul" \in bad THEN owed \/ (ul /\ "ul" \notin goal)
                                   ELSE owed /\ "ul" \notin set \cup goal
  BY DEF syncRoutes
<1>2. goal \subseteq {"dl", "ul"} /\ ((m = "on" \/ ~en) => "ul" \notin goal)
  OBVIOUS
<1>3. "ul" \in bad => "ul" \in todo
  OBVIOUS
<1>4. "ul" \in todo <=> ("ul" \in set) # ("ul" \in goal)
  OBVIOUS
<1>5. ul \in BOOLEAN /\ owed \in BOOLEAN
  BY DEF TypeOK
<1> HIDE DEF goal, todo
<1>6. set' \in SUBSET {"dl", "ul"} /\ btWait' \in BOOLEAN
  BY <1>1, <1>2
<1>7. ul' \in BOOLEAN /\ owed' \in BOOLEAN
  <2>1. CASE "ul" \in todo \ bad
    BY <1>1, <1>5, <2>1
  <2>2. CASE "ul" \notin todo \ bad /\ "ul" \in bad
    BY <1>1, <1>5, <2>2
  <2>3. CASE "ul" \notin todo \ bad /\ "ul" \notin bad
    BY <1>1, <1>5, <2>3
  <2> QED BY <2>1, <2>2, <2>3
<1>8. "ul" \in set' <=> "ul" \in goal /\ "ul" \notin bad
  BY <1>1
<1>9. ul' => "ul" \in set' \/ owed'
  BY <1>1, <1>3, <1>4, <1>8 DEF BridgeInv
<1>10. ul' /\ "ul" \notin goal => owed'
  BY <1>1, <1>3, <1>4 DEF BridgeInv
<1>11. ~card => ~ul'
  BY <1>1 DEF BridgeInv
<1> QED BY <1>2, <1>6, <1>7, <1>9, <1>10, <1>11

\* What voice_open does to controls, on any route.
LEMMA Opened ==
  ASSUME TypeOK, BridgeInv, NEW r \in Routes, NEW success \in BOOLEAN, voiceOpen(r, success),
         UNCHANGED <<card, enabled, active, muteWant>>
  PROVE  /\ set' \in SUBSET {"dl", "ul"} /\ ul' \in BOOLEAN
         /\ btWait' \in BOOLEAN /\ owed' \in BOOLEAN
         /\ refused' \in SUBSET {"route", "mute"} /\ port' \in Routes \cup {"none"}
         /\ BridgeInv' /\ txMute' \in BOOLEAN /\ dev' \in BOOLEAN
         /\ route' = r /\ open' = success
         /\ (success /\ "route" \notin refused' => port' = r)
         /\ MuteSilences' /\ MicAsAsked'
<1>1. /\ enabled \in BOOLEAN /\ active \in BOOLEAN /\ txMute \in BOOLEAN /\ dev \in BOOLEAN
      /\ muteWant \in {"none", "on", "off"} /\ card \in BOOLEAN /\ CvpMute \in BOOLEAN
      /\ port \in Routes \cup {"none"}
  BY ConstantsAssumption DEF TypeOK
<1>2. /\ set' \in SUBSET {"dl", "ul"} /\ ul' \in BOOLEAN
      /\ btWait' \in BOOLEAN /\ owed' \in BOOLEAN /\ BridgeInv'
  <2>1. CASE syncRoutes(enabled, muteWant)
    BY <1>1, <2>1, Synced DEF BridgeInv
  <2>2. CASE UNCHANGED <<ul, set, btWait, owed>>
    BY <2>2 DEF BridgeInv, TypeOK
  <2> QED BY <2>1, <2>2 DEF voiceOpen
<1>3. PICK p \in RxPorts(r), accepted \in BOOLEAN :
        /\ success => card /\ (muteWant = "on" => accepted)
        /\ txMute' = IF card /\ AsksTxMute /\ accepted THEN TxMute ELSE txMute
        /\ port' \in IF success THEN {p} ELSE {p, "none"}
        /\ refused' = IF success THEN {x \in {"route", "mute"} : IF x = "route" THEN p # r ELSE ~accepted}
                                 ELSE {}
  BY DEF voiceOpen
<1>4. /\ route' = r /\ open' = success /\ dev' = (dev \/ card)
  BY DEF voiceOpen
<1>5. txMute' \in BOOLEAN /\ dev' \in BOOLEAN
  BY <1>1, <1>3, <1>4 DEF TxMute, AsksTxMute, micMute
<1>6. refused' \in SUBSET {"route", "mute"} /\ port' \in Routes \cup {"none"}
  <2>1. p \in Routes \cup {"none"}
    BY <1>1 DEF RxPorts
  <2> QED BY <1>3, <2>1
<1>7. /\ success /\ "route" \notin refused' => port' = r
      /\ success /\ "mute" \notin refused' => accepted
  BY <1>3
<1>8. MuteSilences'
  BY <1>1, <1>2, <1>3, <1>4 DEF MuteSilences, BridgeInv, TxMute, AsksTxMute
<1>9. MicAsAsked'
  BY <1>1, <1>3, <1>4, <1>7 DEF MicAsAsked, micMute, TxMute, AsksTxMute
<1> QED BY <1>2, <1>4, <1>5, <1>6, <1>7, <1>8, <1>9

-----------------------------------------------------------------------------
(* The steps of the loop *)

LEMMA InitInv == Init => IInv
<1> SUFFICES ASSUME Init PROVE IInv
  OBVIOUS
<1>1. TypeOK
  <2>1. 0 \in 0..RETRY_FAST /\ 0 \in 0..FALLBACK_RETRIES
    BY ConstantsAssumption
  <2> QED BY <2>1 DEF Init, TypeOK, Routes
<1>2. MuteSilences /\ MicAsAsked /\ RouteAsAsked
  BY DEF Init, MuteSilences, MicAsAsked, RouteAsAsked
<1>3. BridgeInv /\ RouteInv /\ TriesInv
  BY DEF Init, BridgeInv, RouteInv, TriesInv
<1> QED BY <1>1, <1>2, <1>3 DEF IInv

LEMMA ReadStep ==
  ASSUME IInv, NEW w \in BOOLEAN, NEW r \in Routes, NEW en \in BOOLEAN, NEW busy \in BOOLEAN,
         Read(w, r, en, busy)
  PROVE  IInv'
<1> USE DEF IInv
<1>1. /\ UNCHANGED <<card, works, port, open, route, dev, muteWant, fails, wait, ok, fb, tries, due>>
      /\ pc' = "step" /\ pc = "read"
      /\ want' = w /\ enabled' = en /\ active' = (en /\ w /\ busy /\ card)
      /\ rx' = IF w /\ ~active' THEN r ELSE "earpiece"
  BY DEF Read, path, retry
<1>2. /\ set' \in SUBSET {"dl", "ul"} /\ ul' \in BOOLEAN
      /\ btWait' \in BOOLEAN /\ owed' \in BOOLEAN /\ BridgeInv'
  <2>1. CASE syncRoutes(en, muteWant)
    BY <1>1, <2>1, Synced DEF BridgeInv
  <2>2. CASE syncLater(en)
    <3>1. UNCHANGED <<ul, set, btWait>> /\ owed' = (owed \/ (ul /\ ~en))
      BY <2>2 DEF syncLater
    <3>2. set' \in SUBSET {"dl", "ul"} /\ ul' \in BOOLEAN /\ btWait' \in BOOLEAN /\ owed' \in BOOLEAN
      BY <3>1 DEF TypeOK
    <3> QED BY <1>1, <3>1, <3>2 DEF BridgeInv
  <2> QED BY <2>1, <2>2 DEF Read
<1>3. txMute' \in BOOLEAN /\ refused' \in SUBSET {"route", "mute"}
  <2>1. txMute \in BOOLEAN /\ refused \in SUBSET {"route", "mute"} /\ active' \in BOOLEAN
    BY <1>1 DEF TypeOK
  <2> QED BY <2>1 DEF Read
<1>4. TypeOK'
  BY <1>1, <1>2, <1>3 DEF TypeOK, Routes
<1>5. MuteSilences'
  <2>1. muteWant = "on" => txMute' = txMute
    BY DEF Read
  <2> QED BY <1>1, <1>2, <2>1 DEF MuteSilences, BridgeInv
<1>6. MicAsAsked'
  <2> SUFFICES ASSUME open, card, "mute" \notin refused', muteWant # "none"
               PROVE  txMute' <=> muteWant = "on" \/ (active' /\ CvpMute)
    BY <1>1 DEF MicAsAsked, micMute
  <2>1. CASE active' # active /\ CvpMute /\ muteWant # "on"
    BY <2>1 DEF Read
  <2>2. CASE ~(active' # active /\ CvpMute /\ muteWant # "on")
    <3>1. txMute' = txMute /\ refused' = refused
      BY <2>2 DEF Read
    <3>2. txMute <=> muteWant = "on" \/ (active /\ CvpMute)
      BY <3>1 DEF MicAsAsked, micMute
    <3> QED BY <2>2, <3>1, <3>2, ConstantsAssumption DEF TypeOK
  <2> QED BY <2>1, <2>2
<1>7. RouteAsAsked' /\ RouteInv' /\ TriesInv'
  <2>1. "route" \notin refused' => "route" \notin refused
    BY DEF Read
  <2> QED BY <1>1, <2>1 DEF RouteAsAsked, RouteInv, TriesInv, Fallback
<1> QED BY <1>2, <1>4, <1>5, <1>6, <1>7

LEMMA HangUpStep ==
  ASSUME IInv, HangUp
  PROVE  IInv'
<1> USE DEF IInv, HangUp, voiceClose, NoRetry, inputs, bridge
<1>1. 0 \in 0..RETRY_FAST /\ 0 \in 0..FALLBACK_RETRIES
  BY ConstantsAssumption
<1>2. TypeOK'
  BY <1>1 DEF TypeOK
<1>3. MuteSilences' /\ MicAsAsked' /\ RouteAsAsked'
  BY DEF MuteSilences, MicAsAsked, RouteAsAsked
<1>4. BridgeInv' /\ RouteInv' /\ TriesInv'
  BY DEF BridgeInv, RouteInv, TriesInv
<1> QED BY <1>2, <1>3, <1>4

\* daemon_step decides on a route that RouteInv allows.
LEMMA TargetRight ==
  ASSUME TypeOK, RouteInv, UNCHANGED <<rx, ok>>, fb' = Refused
  PROVE  /\ Target \in Routes /\ fb' \in Routes \cup {"none"}
         /\ Target = rx \/ (fb' = rx /\ Target = Fallback')
         /\ fb' # "none" => fb' # Fallback'
         /\ fb' # "none" /\ Target = rx => due /\ tries < FALLBACK_RETRIES
<1>1. rx \in Routes /\ Fallback \in Routes /\ Fallback' = Fallback /\ fb \in Routes \cup {"none"}
  BY DEF TypeOK, Fallback, Routes
<1>2. rx # "none"
  BY <1>1 DEF Routes
<1>3. CASE rx = fb
  BY <1>1, <1>2, <1>3 DEF Refused, Target, RouteInv
<1>4. CASE rx # fb
  BY <1>1, <1>4 DEF Refused, Target
<1> QED BY <1>3, <1>4

LEMMA StepStep ==
  ASSUME IInv, Step
  PROVE  IInv'
<1> USE DEF IInv
<1>1. /\ pc = "step" /\ fb' = Refused
      /\ UNCHANGED <<card, works, ul, txMute, want, rx, enabled, active, muteWant, btWait, owed, ok>>
      /\ IF Refused = "none" THEN tries' = 0 /\ due' = FALSE ELSE UNCHANGED <<tries, due>>
  BY DEF Step, inputs
<1>2. /\ Target \in Routes /\ fb' \in Routes \cup {"none"}
      /\ Target = rx \/ (fb' = rx /\ Target = Fallback')
      /\ fb' # "none" => fb' # Fallback'
      /\ fb' # "none" /\ Target = rx => due /\ tries < FALLBACK_RETRIES
  BY <1>1, TargetRight
<1>3. 0 \in 0..RETRY_FAST /\ 0 \in 0..FALLBACK_RETRIES
  BY ConstantsAssumption
<1>4. tries' \in 0..FALLBACK_RETRIES /\ due' \in BOOLEAN
  BY <1>1, <1>3 DEF TypeOK
<1>5. fb' # "none" => tries' = tries
  BY <1>1
<1>6. CASE Reroute /\ voiceClose /\ NoRetry /\ route' = Target /\ pc' = "open" /\ UNCHANGED <<dev, set>>
  <2> USE DEF voiceClose, NoRetry
  <2>0. port' \in Routes \cup {"none"}
    BY <1>6 DEF TypeOK
  <2>1. TypeOK'
    BY <1>1, <1>2, <1>3, <1>4, <1>6, <2>0 DEF TypeOK
  <2>2. MuteSilences' /\ MicAsAsked' /\ RouteAsAsked'
    BY <1>1, <1>6 DEF MuteSilences, MicAsAsked, RouteAsAsked
  <2>3. BridgeInv'
    BY <1>1, <1>6 DEF BridgeInv
  <2>4. RouteInv' /\ TriesInv'
    BY <1>1, <1>2, <1>5, <1>6 DEF RouteInv, TriesInv
  <2> QED BY <2>1, <2>2, <2>3, <2>4
<1>7. CASE /\ open /\ ~pcm_alive /\ voiceClose /\ NoRetry
           /\ set' = {} /\ dev' = FALSE /\ pc' = "serve" /\ UNCHANGED route
  <2> USE DEF voiceClose, NoRetry
  <2>1. set' \in SUBSET {"dl", "ul"}
    BY <1>7
  <2>2. TypeOK'
    BY <1>1, <1>2, <1>3, <1>4, <1>7, <2>1 DEF TypeOK
  <2>3. MuteSilences' /\ MicAsAsked' /\ RouteAsAsked'
    BY <1>1, <1>7 DEF MuteSilences, MicAsAsked, RouteAsAsked
  <2>4. BridgeInv'
    BY <1>1, <1>7 DEF BridgeInv, pcm_alive
  <2>5. RouteInv' /\ TriesInv'
    BY <1>1, <1>2, <1>7 DEF RouteInv, TriesInv
  <2> QED BY <2>2, <2>3, <2>4, <2>5
<1>8. CASE open /\ ~Reroute /\ pc' = "serve" /\ UNCHANGED <<path, port, set, fails, wait, refused>>
  <2> USE DEF path
  <2>1. TypeOK'
    BY <1>1, <1>2, <1>4, <1>8 DEF TypeOK
  <2>2. MuteSilences' /\ MicAsAsked'
    BY <1>1, <1>8 DEF MuteSilences, MicAsAsked, micMute
  <2>3. RouteAsAsked'
    BY <1>1, <1>2, <1>8 DEF RouteAsAsked, Reroute
  <2>4. BridgeInv'
    BY <1>1, <1>8 DEF BridgeInv
  <2>5. RouteInv' /\ TriesInv'
    BY <1>1, <1>2, <1>8 DEF RouteInv, TriesInv
  <2> QED BY <2>1, <2>2, <2>3, <2>4, <2>5
<1>9. CASE /\ ~open
           /\ \/ pc' = "serve" /\ UNCHANGED <<route, wait>>
              \/ pc' = "open" /\ route' = Target /\ wait' = FALSE
           /\ UNCHANGED <<open, dev, port, set, fails, refused>>
  <2>1. TypeOK'
    <3>1. route' \in Routes /\ wait' \in BOOLEAN /\ pc' \in {"serve", "open"}
      BY <1>2, <1>9 DEF TypeOK
    <3> QED BY <1>1, <1>2, <1>4, <1>9, <3>1 DEF TypeOK
  <2>2. MuteSilences' /\ MicAsAsked' /\ RouteAsAsked'
    BY <1>1, <1>9 DEF MuteSilences, MicAsAsked, RouteAsAsked
  <2>3. BridgeInv'
    BY <1>1, <1>9 DEF BridgeInv
  <2>4. RouteInv' /\ TriesInv'
    BY <1>1, <1>2, <1>5, <1>9 DEF RouteInv, TriesInv
  <2> QED BY <2>1, <2>2, <2>3, <2>4
<1> QED BY <1>6, <1>7, <1>8, <1>9 DEF Step

\* Counters of failed opens stay in their range.
LEMMA FailedType == TypeOK => Failed \in 0..RETRY_FAST
  BY ConstantsAssumption DEF TypeOK, Failed

LEMMA BackoffType ==
  ASSUME NEW k \in 0..RETRY_FAST, Backoff(k)
  PROVE  fails' \in 0..RETRY_FAST /\ wait' \in BOOLEAN
<1>1. fails' = k /\ wait' = (k >= RETRY_FAST)
  BY DEF Backoff
<1>2. CASE k >= RETRY_FAST
  BY <1>1, <1>2
<1>3. CASE ~(k >= RETRY_FAST)
  BY <1>1, <1>3
<1> QED BY <1>2, <1>3

LEMMA OpenStep ==
  ASSUME IInv, Open
  PROVE  IInv'
<1> USE DEF IInv
<1>1. PICK success \in BOOLEAN :
        /\ voiceOpen(route, success)
        /\ \/ /\ success /\ pc' = "serve"
              /\ NoRetry /\ ok' = route
              /\ IF route = fb THEN fb' = "none" /\ tries' = 0 /\ due' = FALSE
                               ELSE UNCHANGED <<fb, tries, due>>
           \/ /\ ~success
              /\ IF route = rx THEN pc' = "fallback" /\ fails' = Failed /\ UNCHANGED wait
                               ELSE pc' = "serve" /\ Backoff(Failed)
              /\ UNCHANGED <<ok, fb, tries, due>>
  BY DEF Open
<1>2. /\ pc = "open"
      /\ UNCHANGED <<card, works, want, rx, enabled, active, muteWant>>
  BY DEF Open, inputs
<1>3. route \in Routes
  BY DEF TypeOK
<1>4. /\ set' \in SUBSET {"dl", "ul"} /\ ul' \in BOOLEAN
      /\ btWait' \in BOOLEAN /\ owed' \in BOOLEAN
      /\ refused' \in SUBSET {"route", "mute"} /\ port' \in Routes \cup {"none"}
      /\ BridgeInv' /\ txMute' \in BOOLEAN /\ dev' \in BOOLEAN
      /\ route' = route /\ open' = success
      /\ (success /\ "route" \notin refused' => port' = route)
      /\ MuteSilences' /\ MicAsAsked'
  BY <1>1, <1>2, <1>3, Opened
<1>5. 0 \in 0..RETRY_FAST /\ 0 \in 0..FALLBACK_RETRIES /\ Failed \in 0..RETRY_FAST
  BY ConstantsAssumption, FailedType
<1>6. /\ fails' \in 0..RETRY_FAST /\ wait' \in BOOLEAN /\ ok' \in Routes \cup {"none"}
      /\ fb' \in Routes \cup {"none"} /\ tries' \in 0..FALLBACK_RETRIES /\ due' \in BOOLEAN
      /\ pc' \in {"serve", "fallback"}
  <2>1. /\ wait \in BOOLEAN /\ ok \in Routes \cup {"none"} /\ fb \in Routes \cup {"none"}
        /\ tries \in 0..FALLBACK_RETRIES /\ due \in BOOLEAN
    BY DEF TypeOK
  <2>2. CASE success
    BY <1>1, <1>3, <1>5, <2>1, <2>2 DEF NoRetry
  <2>3. CASE ~success
    <3>1. UNCHANGED <<ok, fb, tries, due>> /\ pc' \in {"serve", "fallback"}
      BY <1>1, <2>3
    <3>2. fails' \in 0..RETRY_FAST /\ wait' \in BOOLEAN
      <4>1. CASE route = rx
        BY <1>1, <1>5, <2>1, <2>3, <4>1
      <4>2. CASE route # rx
        BY <1>1, <1>5, <2>3, <4>2, BackoffType
      <4> QED BY <4>1, <4>2
    <3> QED BY <2>1, <3>1, <3>2
  <2> QED BY <2>2, <2>3
<1>7. TypeOK'
  BY <1>2, <1>3, <1>4, <1>6 DEF TypeOK
<1>8. route = rx \/ (fb = rx /\ route = Fallback)
  BY <1>2 DEF RouteInv
<1>9. CASE success
  <2>1. /\ pc' = "serve" /\ ok' = route /\ Fallback' = route
        /\ fb' = IF route = fb THEN "none" ELSE fb
    BY <1>1, <1>3, <1>9 DEF Fallback, Routes
  <2>2. RouteAsAsked'
    BY <1>2, <1>4, <1>8, <1>9, <2>1 DEF RouteAsAsked
  <2>3. RouteInv' /\ TriesInv'
    BY <2>1 DEF RouteInv, TriesInv
  <2> QED BY <1>4, <1>7, <2>2, <2>3
<1>10. CASE ~success
  <2>1. /\ UNCHANGED <<ok, fb, tries, due>> /\ pc' \in {"serve", "fallback"}
        /\ pc' = "fallback" => route = rx
    BY <1>1, <1>10
  <2>2. RouteAsAsked'
    BY <1>4, <1>10 DEF RouteAsAsked
  <2>3. RouteInv'
    BY <1>4, <1>10, <2>1 DEF RouteInv, Fallback
  <2>4. TriesInv'
    BY <1>2, <2>1 DEF TriesInv
  <2> QED BY <1>4, <1>7, <2>2, <2>3, <2>4
<1> QED BY <1>9, <1>10

LEMMA FallBackStep ==
  ASSUME IInv, FallBack
  PROVE  IInv'
<1> USE DEF IInv
<1>1. PICK success \in BOOLEAN :
        /\ voiceOpen(Fallback, success)
        /\ IF success THEN NoRetry ELSE Backoff(Failed)
  BY DEF FallBack
<1>2. /\ pc = "fallback" /\ pc' = "serve" /\ Fallback # rx
      /\ fb' = rx /\ tries' = (IF fb # "none" THEN tries + 1 ELSE 0) /\ due' = FALSE
      /\ UNCHANGED <<card, works, want, rx, enabled, active, muteWant, ok>>
  BY DEF FallBack, inputs
<1>3. Fallback \in Routes /\ Fallback' = Fallback /\ rx \in Routes
  BY <1>2 DEF TypeOK, Fallback, Routes
<1>4. /\ set' \in SUBSET {"dl", "ul"} /\ ul' \in BOOLEAN
      /\ btWait' \in BOOLEAN /\ owed' \in BOOLEAN
      /\ refused' \in SUBSET {"route", "mute"} /\ port' \in Routes \cup {"none"}
      /\ BridgeInv' /\ txMute' \in BOOLEAN /\ dev' \in BOOLEAN
      /\ route' = Fallback /\ open' = success
      /\ (success /\ "route" \notin refused' => port' = Fallback)
      /\ MuteSilences' /\ MicAsAsked'
  BY <1>1, <1>2, <1>3, Opened
<1>5. fails' \in 0..RETRY_FAST /\ wait' \in BOOLEAN
  <2>1. 0 \in 0..RETRY_FAST /\ Failed \in 0..RETRY_FAST
    BY ConstantsAssumption, FailedType
  <2>2. CASE success
    BY <1>1, <2>1, <2>2 DEF NoRetry
  <2>3. CASE ~success
    BY <1>1, <2>1, <2>3, BackoffType
  <2> QED BY <2>2, <2>3
<1>6. tries' \in 0..FALLBACK_RETRIES
  <2>1. fb # "none" => tries < FALLBACK_RETRIES
    BY <1>2 DEF TriesInv
  <2>2. tries \in Nat /\ FALLBACK_RETRIES \in Nat
    BY ConstantsAssumption DEF TypeOK
  <2> QED BY <1>2, <2>1, <2>2
<1>7. TypeOK'
  BY <1>2, <1>3, <1>4, <1>5, <1>6 DEF TypeOK
<1>8. RouteAsAsked' /\ RouteInv' /\ TriesInv'
  BY <1>2, <1>3, <1>4 DEF RouteAsAsked, RouteInv, TriesInv
<1> QED BY <1>4, <1>7, <1>8

LEMMA NoFallBackStep ==
  ASSUME IInv, NoFallBack
  PROVE  IInv'
<1> USE DEF IInv, NoFallBack, kernel, inputs, path, bridge
<1>1. wait' \in BOOLEAN /\ fails' = fails
  BY DEF Backoff
<1>2. TypeOK'
  BY <1>1 DEF TypeOK
<1>3. MuteSilences' /\ MicAsAsked'
  BY DEF MuteSilences, MicAsAsked, micMute
<1>4. RouteAsAsked' /\ RouteInv' /\ TriesInv'
  BY DEF RouteAsAsked, RouteInv, TriesInv, Fallback
<1>5. BridgeInv'
  BY DEF BridgeInv
<1> QED BY <1>2, <1>3, <1>4, <1>5

\* A request is told whether it was carried out, and only then remembered.
LEMMA MuteStep ==
  ASSUME IInv, NEW m \in {"on", "off"}, Mute(m)
  PROVE  IInv'
<1> USE DEF IInv
<1>1. /\ pc = "serve" /\ pc' = "read"
      /\ UNCHANGED <<card, works, port, want, rx, enabled, active, open, route, dev,
                     fails, wait, ok, fb, tries, due>>
      /\ refused' \in {refused, refused \ {"mute"}}
  BY DEF Mute, inputs, path, retry
<1>2. RouteAsAsked' /\ RouteInv' /\ TriesInv'
  BY <1>1 DEF RouteAsAsked, RouteInv, TriesInv, Fallback
<1>3. CASE /\ card \/ m = "off"
           /\ muteWant' = m
           /\ txMute' = IF card THEN m = "on" \/ micMute ELSE txMute
           /\ refused' = IF card THEN refused \ {"mute"} ELSE refused
           /\ IF enabled THEN syncRoutes(enabled, m) ELSE UNCHANGED <<ul, set, btWait, owed>>
  <2>1. enabled \in BOOLEAN /\ active \in BOOLEAN /\ txMute \in BOOLEAN /\ CvpMute \in BOOLEAN
    BY ConstantsAssumption DEF TypeOK
  <2>2. /\ set' \in SUBSET {"dl", "ul"} /\ ul' \in BOOLEAN
        /\ btWait' \in BOOLEAN /\ owed' \in BOOLEAN /\ BridgeInv'
    <3>1. CASE enabled
      BY <1>1, <1>3, <2>1, <3>1, Synced DEF BridgeInv
    <3>2. CASE ~enabled
      BY <1>1, <1>3, <3>2 DEF BridgeInv, TypeOK
    <3> QED BY <3>1, <3>2
  <2>3. txMute' \in BOOLEAN
    BY <1>3, <2>1 DEF micMute
  <2>4. TypeOK'
    BY <1>1, <1>3, <2>2, <2>3 DEF TypeOK
  <2>5. MuteSilences'
    BY <1>1, <1>3, <2>2 DEF MuteSilences, BridgeInv
  <2>6. MicAsAsked'
    BY <1>1, <1>3 DEF MicAsAsked, micMute
  <2> QED BY <1>2, <2>2, <2>4, <2>5, <2>6
<1>4. CASE UNCHANGED <<muteWant, txMute, refused, ul, set, btWait, owed>>
  <2>1. TypeOK'
    BY <1>1, <1>4 DEF TypeOK
  <2>2. MuteSilences' /\ MicAsAsked'
    BY <1>1, <1>4 DEF MuteSilences, MicAsAsked, micMute
  <2>3. BridgeInv'
    BY <1>1, <1>4 DEF BridgeInv
  <2> QED BY <1>2, <2>1, <2>2, <2>3
<1> QED BY <1>3, <1>4 DEF Mute

-----------------------------------------------------------------------------
(* Time, the sound card, and the routes that work *)

LEMMA TimeStep ==
  ASSUME IInv, Idle \/ BackoffOver \/ BtRetryOver \/ FallbackDue \/ RoutesChange
  PROVE  IInv'
<1> USE DEF IInv
<1>1. /\ UNCHANGED <<card, port, ul, txMute, inputs, path, muteWant, set, owed, fails, ok, fb, tries, refused>>
      /\ works' \in SUBSET Routes /\ wait' \in BOOLEAN /\ btWait' \in BOOLEAN /\ due' \in BOOLEAN
      /\ btWait' => btWait
      /\ pc' = pc \/ pc' = "read"
  <2>1. works \in SUBSET Routes /\ wait \in BOOLEAN /\ btWait \in BOOLEAN /\ due \in BOOLEAN
    BY DEF TypeOK
  <2>2. CASE Idle
    BY <2>1, <2>2 DEF Idle, kernel, bridge, retry
  <2>3. CASE BackoffOver
    BY <2>1, <2>3 DEF BackoffOver, kernel, bridge
  <2>4. CASE BtRetryOver
    BY <2>1, <2>4 DEF BtRetryOver, kernel, retry
  <2>5. CASE FallbackDue
    BY <2>1, <2>5 DEF FallbackDue, kernel, bridge
  <2>6. CASE RoutesChange
    BY <2>1, <2>6 DEF RoutesChange, bridge, retry
  <2> QED BY <2>2, <2>3, <2>4, <2>5, <2>6
<1> USE DEF inputs, path
<1>2. TypeOK'
  BY <1>1 DEF TypeOK
<1>3. MuteSilences' /\ MicAsAsked'
  BY <1>1 DEF MuteSilences, MicAsAsked, micMute
<1>4. RouteAsAsked' /\ RouteInv' /\ TriesInv'
  BY <1>1 DEF RouteAsAsked, RouteInv, TriesInv, Fallback
<1>5. BridgeInv'
  BY <1>1 DEF BridgeInv
<1> QED BY <1>2, <1>3, <1>4, <1>5

\* A card that goes takes every control along; it comes back to a closed path.
LEMMA CardStep ==
  ASSUME IInv, CardLost \/ CardBack
  PROVE  IInv'
<1> USE DEF IInv
<1>1. /\ UNCHANGED <<works, inputs, path, muteWant, set, btWait, retry, pc, refused>>
      /\ txMute' \in BOOLEAN
      /\ \/ card' = FALSE /\ port' = "none" /\ ul' = FALSE /\ owed' = FALSE
         \/ ~card /\ ~open /\ card' = TRUE /\ port' = port /\ ul' = ul /\ owed' = owed
  <2>1. txMute \in BOOLEAN
    BY DEF TypeOK
  <2>2. CASE CardLost
    BY <2>1, <2>2 DEF CardLost
  <2>3. CASE CardBack
    BY <2>1, <2>3 DEF CardBack, bridge
  <2> QED BY <2>2, <2>3
<1> USE DEF inputs, path, bridge, retry
<1>2. TypeOK'
  <2>1. card' \in BOOLEAN /\ port' \in Routes \cup {"none"} /\ ul' \in BOOLEAN /\ owed' \in BOOLEAN
    BY <1>1 DEF TypeOK
  <2> QED BY <1>1, <2>1 DEF TypeOK
<1>3. MuteSilences'
  BY <1>1 DEF MuteSilences, BridgeInv
<1>4. MicAsAsked' /\ RouteAsAsked'
  BY <1>1 DEF MicAsAsked, RouteAsAsked, Fallback
<1>5. RouteInv' /\ TriesInv'
  BY <1>1 DEF RouteInv, TriesInv, Fallback
<1>6. BridgeInv'
  BY <1>1 DEF BridgeInv
<1> QED BY <1>2, <1>3, <1>4, <1>5, <1>6

LEMMA StutterInv == IInv /\ UNCHANGED vars => IInv'
  BY DEF IInv, TypeOK, MuteSilences, MicAsAsked, RouteAsAsked, BridgeInv, RouteInv, TriesInv, micMute,
         Fallback, vars, kernel, inputs, path, bridge, retry

-----------------------------------------------------------------------------
(* The theorems *)

\* Every step of the loop, of time and of the card keeps the invariant.
LEMMA NextInv ==
  IInv /\ [Next]_vars => IInv'
<1> SUFFICES ASSUME IInv, [Next]_vars PROVE IInv'
  OBVIOUS
<1>1. CASE UNCHANGED vars
  BY <1>1, StutterInv
<1>2. ASSUME NEW w \in BOOLEAN, NEW en \in BOOLEAN, NEW busy \in BOOLEAN, NEW r \in Routes,
             Read(w, r, en, busy)
      PROVE  IInv'
  BY <1>2, ReadStep
<1>3. CASE HangUp \/ Step \/ Open
  BY <1>3, HangUpStep, StepStep, OpenStep
<1>4. CASE FallBack \/ NoFallBack
  BY <1>4, FallBackStep, NoFallBackStep
<1>5. CASE Serve
  BY <1>5, MuteStep, TimeStep DEF Serve
<1>6. CASE BackoffOver \/ BtRetryOver \/ FallbackDue \/ RoutesChange
  BY <1>6, TimeStep
<1>7. CASE CardLost \/ CardBack
  BY <1>7, CardStep
<1> QED BY <1>1, <1>2, <1>3, <1>4, <1>5, <1>6, <1>7 DEF Next, Loop

LEMMA Invariant == Spec => []IInv
<1> QED BY InitInv, NextInv, PTL DEF Spec

\* Every variable keeps its type; a refused route is tried again no more often
\* than it should be (daemon_step, rx_fallback).
THEOREM TypeCorrect == Spec => []TypeOK
<1> QED BY Invariant, PTL DEF IInv

\* An accepted mute holds in every call, across lost cards, bridges that come and
\* go, routes that change and opens that fail: for the phone's microphone without
\* exception, for a headset's unless a clear of its route is owed (handle_cmd,
\* voice_open, bt_step, bt_route_one).
THEOREM MuteHolds == Spec => []MuteSilences
<1> QED BY Invariant, PTL DEF IInv

\* And nothing else mutes an open path that Android has spoken about, as long as
\* no change of the mute is refused (voice_open, bt_step).
THEOREM MicFollows == Spec => []MicAsAsked
<1> QED BY Invariant, PTL DEF IInv

\* An open path runs on the requested route, or on the one it fell back to, and
\* has that RX port unless it was refused (daemon_step, rx_fallback, routes).
THEOREM RouteFollows == Spec => []RouteAsAsked
<1> QED BY Invariant, PTL DEF IInv
=============================================================================
