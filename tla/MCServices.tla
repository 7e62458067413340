----------------------------- MODULE MCServices -----------------------------
(***************************************************************************)
(* The services that share no state with one another: a behaviour picks    *)
(* one of them and only that one moves; the rest stays where it starts.    *)
(* The codecs, which have no state, are one more: an input is picked.      *)
(***************************************************************************)
EXTENDS Captures, LogFile, Input, Buzzer, Settings, Pn532, IrService, IrApp, Screens

CONSTANT Services

VARIABLES which, pick

Codecs == INSTANCE MCCodecs

allVars == <<which, pick, capVars, logVars, inputVars, buzzerVars, setVars, pnVars, irVars, irAppVars, scrVars>>

\* Two sets of keys: one with the chord, one without; a slow and a fast repeat.
MCTimings == {[delay |-> 2, interval |-> 2], [delay |-> 4, interval |-> 1]}
MCHands == {{"UP"}, {"OK", "BACK"}}

\* Two categories in the launcher; a reader that comes and goes takes rows with it.
MCCapSets == {{1, 3, 4}, {3}}

MCKeys == <<"volume", "repeat">>
MCMax == [k \in ToSet(MCKeys) |-> IF k = "volume" THEN 2 ELSE 1]

MCScript == <<"detect", "exchange", "exchange", "exchange">>

\* A signal as it should be, one whose gap is too long to repeat it, one that takes too long.
MCSignals == {[timings |-> <<9000, 4500, 560>>, carrier |-> 38000, protocol |-> "NEC"],
              [timings |-> <<300000, 40, 560>>, carrier |-> 38000, protocol |-> "UNKNOWN"],
              [timings |-> <<400000>>, carrier |-> 36000, protocol |-> "UNKNOWN"]}

Init ==
    /\ which \in Services
    /\ CapInit /\ LogInit /\ InputInit /\ BuzzerInit /\ SetInit /\ PnInit /\ IrInit /\ IrAppInit
    /\ ScreensInit /\ Codecs!Init
    /\ IF which = "input" THEN TRUE
       ELSE timing = (CHOOSE t \in Timings : TRUE) /\ hand = (CHOOSE h \in Hands : TRUE)
    /\ IF which = "buzzer" THEN TRUE ELSE duty = "off"
    /\ IF which = "screens" THEN TRUE ELSE scrOn = (CHOOSE on \in CapSets : TRUE)
    /\ IF which = "settings" THEN TRUE ELSE onFlash = << >> /\ ~hasStore

Only(service) ==
    /\ which = service /\ UNCHANGED which
    /\ IF service = "codecs" THEN TRUE ELSE UNCHANGED pick
    /\ IF service = "captures" THEN TRUE ELSE UNCHANGED capVars
    /\ IF service = "log" THEN TRUE ELSE UNCHANGED logVars
    /\ IF service = "input" THEN TRUE ELSE UNCHANGED inputVars
    /\ IF service = "buzzer" THEN TRUE ELSE UNCHANGED buzzerVars
    /\ IF service = "settings" THEN TRUE ELSE UNCHANGED setVars
    /\ IF service = "pn532" THEN TRUE ELSE UNCHANGED pnVars
    /\ IF service = "ir" THEN TRUE ELSE UNCHANGED irVars
    /\ IF service = "irapp" THEN TRUE ELSE UNCHANGED irAppVars
    /\ IF service = "screens" THEN TRUE ELSE UNCHANGED scrVars

Next ==
    \/ Only("codecs") /\ Codecs!Next
    \/ Only("captures") /\ CapNext
    \/ Only("log") /\ LogNext
    \/ Only("input") /\ InputNext
    \/ Only("buzzer") /\ BuzzerNext
    \/ Only("settings") /\ SetNext
    \/ Only("pn532") /\ PnNext
    \/ Only("ir") /\ IrNext
    \/ Only("irapp") /\ IrAppNext
    \/ Only("screens") /\ ScreensNext

\* The infrared task runs when it has something to do, a call that was made returns; the
\* application's worker and the UI task run, and a pending stop is carried out.
Fairness ==
    /\ WF_allVars(Only("ir") /\ IrTaskStep)
    /\ WF_allVars(Only("ir") /\ (TransmitClaim \/ TransmitQueue \/ RxEnable \/ RxArm \/ RxDisable))
    /\ WF_allVars(Only("irapp") /\ IrWorkerStep)
    /\ WF_allVars(Only("irapp") /\ (IrUiStep \/ NoRow \/ Stopped))

Spec == Init /\ [][Next]_allVars /\ Fairness

\* What the codecs write they read back (ir_decode(), ndef_parse() and the others), and what was
\* damaged they refuse: MCCodecs says it input by input.
IrCodecsInvert == Codecs!IrCodecsInvert
NfcCodecsInvert == Codecs!NfcCodecsInvert

==============================================================================
