----------------------------- MODULE RadioPower -----------------------------
(***************************************************************************)
(* The radio power of MediaTekRIL beside its data calls: setRadioPower     *)
(* powers the whole modem off and on around airplane mode, and a single    *)
(* radio otherwise.  The instances of both SIMs share one modem and one    *)
(* property that remembers airplane mode, and call at different times: an  *)
(* off call can be late, and the RIL daemon makes one of its own whenever  *)
(* it connects.  A modem that is powered off takes all data calls with it. *)
(***************************************************************************)
EXTENDS DataCalls

VARIABLES airplane,     \* external: Settings.Global.AIRPLANE_MODE_ON
          persisted,    \* persist.radio.airplane.mode.on
          eboot,        \* gsm.ril.eboot
          modem,        \* external: the modem is powered
          radios,       \* external: the SIMs whose radio is on
          late,         \* external: the SIMs that are still to be turned off
          forgotten     \* history: an off call outside airplane mode cleared
                        \* the property while the modem was off

power == <<airplane, persisted, eboot, modem, radios, late, forgotten>>

Sims == {1, 2}

RadioTypeOK == /\ TypeOK
               /\ airplane \in BOOLEAN /\ persisted \in BOOLEAN
               /\ eboot \in {0, 1} /\ modem \in BOOLEAN
               /\ radios \subseteq Sims /\ late \subseteq Sims
               /\ forgotten \in BOOLEAN

RadioInit == /\ Init
             /\ airplane = FALSE /\ persisted = FALSE /\ eboot = 0
             /\ modem = TRUE /\ radios = {} /\ late = {} /\ forgotten = FALSE

-----------------------------------------------------------------------------
(* External: RIL_REQUEST_RADIO_POWER, which needs the modem. *)
RADIO_POWER(sims, on) ==
  /\ radios' = IF ~modem THEN {} ELSE IF on THEN radios \cup sims ELSE radios \ sims
  /\ UNCHANGED <<eboot, modem>>

(* What the property is set to before anything else.  As elsewhere, a name *)
(* with a suffix is a plausible bug no action uses.                        *)
remembered_WhenOn(on) == IF on THEN airplane ELSE persisted
remembered(on) == airplane

(* For SIMs whose calls come one after the other. *)
setRadioPower(sims, on) ==
  /\ persisted' = remembered(on)
  /\ CASE on /\ persisted /\ ~airplane ->
            eboot' = 0 /\ modem' = TRUE /\ radios' = radios \cup sims
       [] ~on /\ airplane ->
            eboot' = 1 /\ modem' = FALSE /\ radios' = {}
       [] OTHER -> RADIO_POWER(sims, on)
  /\ forgotten' = (~modem' /\ (forgotten \/ (~on /\ ~airplane /\ persisted)))
  /\ UNCHANGED airplane

-----------------------------------------------------------------------------
(* The framework and the daemon, which call it. *)

(* Contexts end with the modem; the table does not hear of it. *)
ContextsFollow == IF modem' THEN UNCHANGED vars
                  ELSE /\ ctx' = [c \in Cids |-> Down]
                       /\ \E gone \in {{}, calls} : calls' = calls \ gone
                       /\ UNCHANGED <<dataCallCids, phone, receiver, mRequestList,
                                      socket, history>>

(* The radios that are on have to be turned off when airplane mode starts. *)
SetAirplaneMode ==
  /\ airplane' = ~airplane
  /\ late' = IF airplane' THEN late \cup radios ELSE late
  /\ UNCHANGED <<persisted, eboot, modem, radios, forgotten, vars>>

TurnOff(s) == /\ s \in late
              /\ late' = late \ {s}
              /\ setRadioPower({s}, FALSE)
              /\ ContextsFollow

TurnOn(s) == /\ ~airplane /\ s \notin radios
             /\ setRadioPower({s}, TRUE)
             /\ UNCHANGED <<late, vars>>

(* The daemon restarts, and turns the radio of each SIM off once it is     *)
(* connected.                                                              *)
RIL_CONNECTED == /\ RildRestart
                 /\ setRadioPower(Sims, FALSE)
                 /\ UNCHANGED late

DataCallStep == \/ PhoneStep \/ ReceiverStep
                \/ \E s \in Serials : \/ ModemReject(s) \/ ModemDeactivate(s)
                                      \/ \E c \in Cids : modem /\ ModemActivate(s, c)
                \/ \E c \in Cids : NetworkDrop(c)

RadioNext == \/ DataCallStep /\ UNCHANGED power
             \/ SetAirplaneMode \/ RIL_CONNECTED
             \/ \E s \in Sims : TurnOff(s) \/ TurnOn(s)

RadioSpec == RadioInit /\ [][RadioNext]_<<vars, power>>

-----------------------------------------------------------------------------
(* Properties. *)

(* While the modem is powered off, persist.radio.airplane.mode.on still    *)
(* says so, and the next power-on call starts it: whichever SIM's calls    *)
(* are late, and however airplane mode is switched in between.  The one    *)
(* exception is an off call that comes when airplane mode is over already, *)
(* a late one or that of a daemon that connects: it clears the property.   *)
ModemCanStart == ~modem => persisted \/ forgotten
=============================================================================
