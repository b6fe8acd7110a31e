----------------------------- MODULE VoiceDaemon -----------------------------
(***************************************************************************)
(* kvoice/q6voiced: the daemon that holds the voice PCMs open during a     *)
(* call.  One thread goes round: it reads what Android wants, keeps the    *)
(* routes of the Bluetooth bridge, runs daemon_step (open, close, retry    *)
(* with backoff, fall back to another route), and serves one mute request. *)
(* The sound card goes and comes back (ADSP restart), and routes stop      *)
(* working, between any two steps; any write of a control may be refused.  *)
(***************************************************************************)
EXTENDS Naturals, FiniteSets

CONSTANTS
  CvpMute,           \* the phone's microphone is muted while a call is bridged
  RETRY_FAST,        \* failed opens before the backoff (5)
  FALLBACK_AFTER,    \* failed opens of a route before the fallback (2)
  FALLBACK_RETRIES   \* later retries of a refused route (3)

ASSUME ConstantsAssumption ==
  /\ CvpMute \in BOOLEAN
  /\ RETRY_FAST \in Nat \ {0} /\ FALLBACK_AFTER \in 1..RETRY_FAST /\ FALLBACK_RETRIES \in Nat

Routes == {"earpiece", "speaker"}

VARIABLES
  card, works, port, ul, txMute,   \* kernel: card, routes that can open, RX port, uplink route on, TX mute
  want, rx, enabled, active,       \* what the loop has read: call active, RX route; bt.enabled, bt.active
  open, route, dev,                \* the PCMs, rx_route, and whether the voice PCM has been looked up
  muteWant,                        \* mute_want
  set, btWait,                     \* bridge routes known to be on: dl_set, ul_set = 1; now < bt.retry_ms
  fails, wait, ok, fb, tries, due, \* struct retry: now < next_ms, ok_rx, fb_rx, now >= fb_next_ms
  pc,                              \* step of the loop
  refused,                         \* history: what the kernel has refused to the open path, with a warning only
  owed                             \* history: a clear of the uplink route was refused or put off, not made since

kernel == <<card, works, port, ul, txMute>>
inputs == <<want, rx, enabled, active>>
path == <<open, route, dev>>
bridge == <<set, btWait, owed>>
retry == <<fails, wait, ok, fb, tries, due>>
vars == <<kernel, inputs, path, muteWant, bridge, retry, pc, refused>>

Init ==
  /\ card \in BOOLEAN /\ dev = card
  /\ works = Routes /\ port = "none" /\ ul = FALSE /\ txMute = FALSE
  /\ want = FALSE /\ rx = "earpiece" /\ enabled = FALSE /\ active = FALSE
  /\ open = FALSE /\ route = "earpiece"
  /\ muteWant = "none"
  /\ set = {} /\ btWait = FALSE
  /\ fails = 0 /\ wait = FALSE /\ ok = "none" /\ fb = "none" /\ tries = 0 /\ due = FALSE
  /\ pc = "read" /\ refused = {} /\ owed = FALSE

micMute == active /\ CvpMute                           \* bt_mic_mute
Fallback == IF ok = "none" THEN "earpiece" ELSE ok

-----------------------------------------------------------------------------
(* Helpers *)

\* bt_sync_routes: the routes that are not what they should be are written.  One
\* whose write is refused is not known to be on, and so is not cleared later; "off"
\* and "unknown" make no difference to bt_route_one.
syncRoutes(en, mute) ==
  LET goal == IF ~en THEN {} ELSE IF mute = "on" THEN {"dl"} ELSE {"dl", "ul"}
      todo == (set \ goal) \cup (goal \ set)
  IN  \E bad \in SUBSET todo :
        /\ card \/ bad = todo
        /\ set' = goal \ bad /\ btWait' = (bad # {})
        /\ ul' = IF "ul" \in todo \ bad THEN "ul" \in goal ELSE ul
        /\ owed' = IF "ul" \in bad THEN owed \/ (ul /\ "ul" \notin goal)
                                   ELSE owed /\ "ul" \notin set \cup goal

\* The routes are not looked at while the retry of a refused write is not due.
syncLater(en) == /\ UNCHANGED <<ul, set, btWait>>
                 /\ owed' = (owed \/ (ul /\ ~en))

NoRetry == fails' = 0 /\ wait' = FALSE
Backoff(k) == fails' = k /\ wait' = (k >= RETRY_FAST)
Failed == IF fails < RETRY_FAST THEN fails + 1 ELSE fails

\* voice_close; clearing the RX port may be refused.
voiceClose == /\ open' = FALSE /\ refused' = {}
              /\ IF open THEN port' \in {port, "none"} ELSE UNCHANGED port

\* The RX port after routes(): the other one is cleared, then r is set.
RxPorts(r) == IF ~card THEN {port} ELSE IF port = r THEN {r} ELSE {r, port, "none"}

\* The TX mute that voice_open asks for; an unmute only when Android did.
TxMute == muteWant = "on" \/ micMute
AsksTxMute == muteWant # "none" \/ micMute

\* voice_open on route r: nothing is touched as long as the PCM has not been looked
\* up.  A refused RX port or bridge route is only warned about, and so is a refused
\* TX mute unless Android wants it.  One step: a card that goes between the
\* controls and the PCMs fails the open, and its successor takes longer to come.
voiceOpen(r, success) ==
  /\ route' = r /\ open' = success
  /\ dev' = (dev \/ card)
  /\ IF dev' /\ enabled THEN syncRoutes(enabled, muteWant) ELSE UNCHANGED <<ul, set, btWait, owed>>
  /\ \E p \in RxPorts(r), accepted \in BOOLEAN :
       /\ accepted \/ (card /\ AsksTxMute)
       /\ success => card /\ (muteWant = "on" => accepted) /\ (p = r => r \in works)
       /\ card /\ r \in works => success /\ p = r
       /\ txMute' = IF card /\ AsksTxMute /\ accepted THEN TxMute ELSE txMute
       /\ port' \in IF success THEN {p} ELSE {p, "none"}
       /\ refused' = IF success THEN {x \in {"route", "mute"} : IF x = "route" THEN p # r ELSE ~accepted}
                                ELSE {}

-----------------------------------------------------------------------------
(* The loop *)

\* Mutant: the mute of the bridge is left to the next voice_open.
ReadLeavesMute(w, r, en, busy) ==
  /\ pc = "read" /\ pc' = "step"
  /\ want' = w /\ enabled' = en
  /\ active' = (en /\ w /\ busy /\ card)
  /\ rx' = IF w /\ ~active' THEN r ELSE "earpiece"
  /\ IF btWait THEN syncLater(en) ELSE syncRoutes(en, muteWant)
  /\ UNCHANGED <<card, works, port, txMute, path, muteWant, retry, refused>>

\* Properties, bridge configuration, and bt_step; rx means something in a call only.
Read(w, r, en, busy) ==
  /\ pc = "read" /\ pc' = "step"
  /\ want' = w /\ enabled' = en
  /\ active' = (en /\ w /\ busy /\ card)
  /\ rx' = IF w /\ ~active' THEN r ELSE "earpiece"
  /\ IF btWait THEN syncLater(en) ELSE syncRoutes(en, muteWant)
  /\ IF active' # active /\ open /\ CvpMute /\ muteWant # "on"
     THEN \/ card /\ txMute' = active' /\ refused' = refused \ {"mute"}
          \/ refused' = refused \cup {"mute"} /\ UNCHANGED txMute
     ELSE UNCHANGED <<txMute, refused>>
  /\ UNCHANGED <<card, works, port, path, muteWant, retry>>

\* The call is over.
HangUp ==
  /\ pc = "step" /\ ~want /\ pc' = "serve"
  /\ NoRetry /\ ok' = "none" /\ fb' = "none" /\ tries' = 0 /\ due' = FALSE
  /\ voiceClose
  /\ UNCHANGED <<card, works, ul, txMute, inputs, route, dev, muteWant, bridge>>

\* Another request than the refused one ends the fallback; the refused one is
\* tried again a few times.
Refused == IF rx = fb THEN fb ELSE "none"

\* Mutant: the retries have no end.
TargetForEver == IF Refused = "none" \/ due THEN rx ELSE Fallback
Target == IF Refused = "none" \/ (due /\ tries < FALLBACK_RETRIES) THEN rx ELSE Fallback

\* Mutants: a route change waits for the next call; the PCMs are not probed.
RerouteNever == FALSE
Reroute == open /\ route # Target
pcm_aliveAlways == TRUE
pcm_alive == card

\* daemon_step up to voice_open: the path is closed for another route, or because
\* its card is gone; a closed one is tried when its backoff is over, and at once
\* on another route.
Step ==
  /\ pc = "step" /\ want
  /\ fb' = Refused
  /\ IF Refused = "none" THEN tries' = 0 /\ due' = FALSE ELSE UNCHANGED <<tries, due>>
  /\ \/ /\ Reroute
        /\ voiceClose /\ NoRetry
        /\ route' = Target /\ pc' = "open" /\ UNCHANGED <<dev, set>>
     \/ /\ open /\ ~Reroute /\ ~pcm_alive
        /\ voiceClose /\ NoRetry
        /\ set' = {} /\ dev' = FALSE /\ pc' = "serve" /\ UNCHANGED route
     \/ /\ open /\ ~Reroute /\ pcm_alive
        /\ pc' = "serve" /\ UNCHANGED <<path, port, set, fails, wait, refused>>
     \/ /\ ~open
        /\ IF wait /\ route = Target
           THEN pc' = "serve" /\ UNCHANGED <<route, wait>>
           ELSE pc' = "open" /\ route' = Target /\ wait' = FALSE
        /\ UNCHANGED <<open, dev, port, set, fails, refused>>
  /\ UNCHANGED <<card, works, ul, txMute, inputs, muteWant, btWait, owed, ok>>

\* The requested route, or the fallback, is tried.
Open ==
  /\ pc = "open"
  /\ \E success \in BOOLEAN :
       /\ voiceOpen(route, success)
       /\ \/ /\ success /\ pc' = "serve"
             /\ NoRetry /\ ok' = route
             /\ IF route = fb THEN fb' = "none" /\ tries' = 0 /\ due' = FALSE
                              ELSE UNCHANGED <<fb, tries, due>>
          \/ /\ ~success
             /\ IF route = rx THEN pc' = "fallback" /\ fails' = Failed /\ UNCHANGED wait
                              ELSE pc' = "serve" /\ Backoff(Failed)
             /\ UNCHANGED <<ok, fb, tries, due>>
  /\ UNCHANGED <<card, works, inputs, muteWant>>

\* Mutant: the retries of a refused route are not counted.
FallBackForEver ==
  /\ pc = "fallback" /\ Fallback # rx /\ (fb # "none" \/ fails >= FALLBACK_AFTER)
  /\ pc' = "serve"
  /\ fb' = rx /\ tries' = 0 /\ due' = FALSE
  /\ \E success \in BOOLEAN :
       /\ voiceOpen(Fallback, success)
       /\ IF success THEN NoRetry ELSE Backoff(Failed)
  /\ UNCHANGED <<card, works, inputs, muteWant, ok>>

\* rx_fallback: a route that was refused twice, or again, gives way to the one
\* that worked last in this call.
FallBack ==
  /\ pc = "fallback" /\ Fallback # rx /\ (fb # "none" \/ fails >= FALLBACK_AFTER)
  /\ pc' = "serve"
  /\ fb' = rx /\ tries' = (IF fb # "none" THEN tries + 1 ELSE 0) /\ due' = FALSE
  /\ \E success \in BOOLEAN :
       /\ voiceOpen(Fallback, success)
       /\ IF success THEN NoRetry ELSE Backoff(Failed)
  /\ UNCHANGED <<card, works, inputs, muteWant, ok>>

NoFallBack ==
  /\ pc = "fallback" /\ (Fallback = rx \/ (fb = "none" /\ fails < FALLBACK_AFTER))
  /\ pc' = "serve"
  /\ Backoff(fails)
  /\ UNCHANGED <<kernel, inputs, path, muteWant, bridge, ok, fb, tries, due, refused>>

\* Mutant: what the kernel refuses is remembered all the same.
MuteRemembered(m) ==
  /\ pc = "serve" /\ pc' = "read"
  /\ muteWant' = m
  /\ txMute' \in {txMute, IF card THEN m = "on" \/ micMute ELSE txMute}
  /\ IF enabled THEN syncRoutes(enabled, m) ELSE UNCHANGED <<ul, set, btWait, owed>>
  /\ UNCHANGED <<card, works, port, inputs, path, retry, refused>>

\* handle_cmd "mute": a TX mute the kernel refuses is not remembered; without a
\* card an unmute is.  Whether the uplink route could be cleared changes the reply
\* at most.
Mute(m) ==
  /\ pc = "serve" /\ pc' = "read"
  /\ \/ /\ card \/ m = "off"
        /\ muteWant' = m
        /\ txMute' = IF card THEN m = "on" \/ micMute ELSE txMute
        /\ refused' = IF card THEN refused \ {"mute"} ELSE refused
        /\ IF enabled THEN syncRoutes(enabled, m) ELSE UNCHANGED <<ul, set, btWait, owed>>
     \/ /\ card \/ m = "on"
        /\ UNCHANGED <<muteWant, txMute, refused, ul, set, btWait, owed>>
  /\ UNCHANGED <<card, works, port, inputs, path, retry>>

\* No request within 250 ms, or one that changes nothing here.
Idle ==
  /\ pc = "serve" /\ pc' = "read"
  /\ UNCHANGED <<kernel, inputs, path, muteWant, bridge, retry, refused>>

-----------------------------------------------------------------------------
(* Time, and the sound card *)

BackoffOver == wait /\ wait' = FALSE
                /\ UNCHANGED <<kernel, inputs, path, muteWant, bridge, fails, ok, fb, tries, due, pc, refused>>
BtRetryOver == btWait /\ btWait' = FALSE
                /\ UNCHANGED <<kernel, inputs, path, muteWant, set, owed, retry, pc, refused>>
FallbackDue == fb # "none" /\ ~due /\ due' = TRUE
                /\ UNCHANGED <<kernel, inputs, path, muteWant, bridge, fails, wait, ok, fb, tries, pc, refused>>

\* All controls of the new card are off; the voice driver may keep its mute.
CardLost ==
  /\ card /\ card' = FALSE
  /\ port' = "none" /\ ul' = FALSE /\ txMute' \in {txMute, FALSE} /\ owed' = FALSE
  /\ UNCHANGED <<works, inputs, path, muteWant, set, btWait, retry, pc, refused>>

\* snd_card_disconnect_sync waits until the old PCMs are closed.
CardBack ==
  /\ ~card /\ ~open /\ card' = TRUE
  /\ UNCHANGED <<works, port, ul, txMute, inputs, path, muteWant, bridge, retry, pc, refused>>

RoutesChange ==
  /\ works' \in SUBSET Routes /\ works' # works
  /\ UNCHANGED <<card, port, ul, txMute, inputs, path, muteWant, bridge, retry, pc, refused>>

-----------------------------------------------------------------------------
Serve == (\E m \in {"on", "off"} : Mute(m)) \/ Idle
Loop ==
  \/ \E w, en, busy \in BOOLEAN, r \in Routes : Read(w, r, en, busy)
  \/ HangUp \/ Step \/ Open \/ FallBack \/ NoFallBack \/ Serve

Next == Loop \/ BackoffOver \/ BtRetryOver \/ FallbackDue \/ CardLost \/ CardBack \/ RoutesChange

\* The loop goes round, and time passes; Android and the card do as they like.
Fairness == WF_vars(Loop) /\ WF_vars(BackoffOver) /\ WF_vars(BtRetryOver) /\ WF_vars(FallbackDue)

Spec == Init /\ [][Next]_vars /\ Fairness

-----------------------------------------------------------------------------
(* Correctness *)

\* Every variable has its type.
TypeOK ==
  /\ card \in BOOLEAN /\ works \in SUBSET Routes /\ port \in Routes \cup {"none"}
  /\ ul \in BOOLEAN /\ txMute \in BOOLEAN
  /\ want \in BOOLEAN /\ rx \in Routes /\ enabled \in BOOLEAN /\ active \in BOOLEAN
  /\ open \in BOOLEAN /\ route \in Routes /\ dev \in BOOLEAN
  /\ muteWant \in {"none", "on", "off"}
  /\ set \in SUBSET {"dl", "ul"} /\ btWait \in BOOLEAN
  /\ fails \in 0..RETRY_FAST /\ wait \in BOOLEAN
  /\ ok \in Routes \cup {"none"} /\ fb \in Routes \cup {"none"}
  /\ tries \in 0..FALLBACK_RETRIES /\ due \in BOOLEAN
  /\ pc \in {"read", "step", "open", "fallback", "serve"}
  /\ refused \in SUBSET {"route", "mute"} /\ owed \in BOOLEAN

\* An accepted mute silences the phone's microphone in the DSP, in every call it
\* lasts for, and a headset's by its bridge route, but for one thing the code does:
\* a clear of that route that the kernel refuses is never tried again, and one
\* that falls into the backoff of another write waits (handle_cmd, voice_open,
\* bt_step, bt_route_one).
MuteSilences ==
  muteWant = "on" => /\ open /\ card => txMute
                     /\ active /\ ul => owed

\* Once Android has said what it wants, an open path is muted for that or for
\* the bridge and for nothing else, unless a change of the mute was refused: no
\* mute outlives the card, the bridge or the call it was for (voice_open).
MicAsAsked ==
  open /\ card /\ "mute" \notin refused /\ muteWant # "none" => (txMute <=> muteWant = "on" \/ micMute)

\* The path runs on the route Android wants, or on the one that worked last while
\* that one is refused; and its RX port is that of this route, whatever a refused
\* clear has left behind, unless setting it was refused (daemon_step, routes).
RouteAsAsked ==
  /\ open /\ card /\ "route" \notin refused => port = route
  /\ open /\ pc = "serve" => route = rx \/ (fb = rx /\ route = Fallback)

\* PCMs of a card that is gone do not stay open, in whichever phase of the loop,
\* bridge or fallback it goes: the card cannot come back before they are closed
\* (daemon_step, pcm_alive).
Released == []<>(card \/ ~open)

\* A call whose route stays the same is open in the end, without further gaps,
\* if from some point on the card is there and the route works that worked last
\* in it, or the earpiece when none did (daemon_step, rx_fallback, retry_delay_ms).
HeardInTheEnd ==
  \A r \in Routes : <>[](want /\ rx = r /\ card /\ Fallback \in works) => <>[]open
=============================================================================
