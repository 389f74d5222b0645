----------------------------- MODULE DriverCmd -----------------------------
(***************************************************************************)
(* The driver commands of wpa_supplicant_8_lib that keep state: MIRACAST   *)
(* and p2p_use_mcc, which put P2P on the channel of the other interfaces   *)
(* (SCC) or back on its own channels (MCC); COUNTRY, which changes the     *)
(* list that MCC goes back to; set_scan_loading and its timeout; and the   *)
(* private commands with their error counter.  Everything runs on the      *)
(* event loop of wpa_supplicant, so a command and a timeout are one step   *)
(* each; what is hard is their order, which of their steps fail, and what  *)
(* the other interfaces do in between.                                     *)
(***************************************************************************)
EXTENDS Integers

CONSTANTS Frequencies,  \* what an interface can be on, or a command can name
          Confs,        \* the channels conf can name for P2P
          Uninitialized,    \* what the two variables hold that nobody wrote
          Countries,    \* the country codes asked for, the first one included
          HomeCountry,  \* the one the driver starts with
          CountryChannels,  \* external: the channels the driver has in each
          DRV_NUMBER_SEQUENTIAL_ERRORS,
          LoadingTime   \* the timeout of set_scan_loading, in ticks

Channel == [op_class : 0 .. 255, op_channel : 0 .. 255]
Ch(c, n) == [op_class |-> c, op_channel |-> n]
NoConf == Ch(0, 0)
Social == {Ch(81, 1), Ch(81, 6), Ch(81, 11)}

ASSUME ChannelsAssumption ==
  Confs \subseteq Channel /\ Uninitialized \subseteq Channel
ASSUME CountriesAssumption ==
  /\ HomeCountry \in Countries
  /\ CountryChannels \in [Countries -> SUBSET Channel]
ASSUME NumbersAssumption ==
  /\ Frequencies \subseteq Nat \ {0}
  /\ DRV_NUMBER_SEQUENTIAL_ERRORS \in Nat /\ LoadingTime \in Nat \ {0}

VARIABLES conf,         \* conf->p2p_oper_reg_class and p2p_oper_channel
          radio,        \* external: the frequency each interface uses, or 0
          hasP2p,       \* whether global->p2p is set
          op,           \* p2p->op_reg_class and p2p->op_channel
          channels,     \* p2p->channels
          cfg_op_channel,   \* p2p->cfg->cfg_op_channel
          cfg_channels,     \* external: p2p->cfg->channels
          p2p_use_mcc,
          timers,       \* the scan loading timeouts pending: ticks left
          drv_errors,
          country,      \* external: the driver's country
          asked,        \* history: the frequency SCC was last set for, or 0
          configured,   \* history: the country when MCC was last set
          loadingAge,   \* history: the time since set_scan_loading
          cutShort      \* history: a timeout came before LoadingTime

others == <<conf, radio, hasP2p>>
p2p == <<op, channels, cfg_op_channel, asked, configured>>
loading == <<timers, loadingAge, cutShort>>
regulatory == <<country, cfg_channels>>
vars == <<others, p2p, p2p_use_mcc, loading, drv_errors, regulatory>>

Interfaces == {1, 2}    \* of one radio, in the order of its list

TypeOK == /\ conf \in Confs
          /\ radio \in [Interfaces -> Frequencies \cup {0}]
          /\ hasP2p \in BOOLEAN
          /\ op \in Channel /\ channels \in SUBSET Channel
          /\ cfg_channels \in SUBSET Channel
          /\ cfg_op_channel \in BOOLEAN /\ p2p_use_mcc \in BOOLEAN
          /\ timers \in SUBSET (1 .. LoadingTime)
          /\ drv_errors \in 0 .. DRV_NUMBER_SEQUENTIAL_ERRORS
          /\ country \in Countries /\ configured \in Countries
          /\ asked \in Frequencies \cup {0}
          /\ loadingAge \in 0 .. LoadingTime /\ cutShort \in BOOLEAN

(* The channel P2P has of its own: the one of conf, or a social channel. *)
OwnChannel == IF conf # NoConf THEN {conf} ELSE Social

Init == /\ conf \in Confs
        /\ radio = [i \in Interfaces |-> 0]
        /\ hasP2p \in BOOLEAN
        /\ op \in OwnChannel
        /\ channels = CountryChannels[HomeCountry] /\ cfg_channels = channels
        /\ cfg_op_channel = (conf # NoConf)
        /\ p2p_use_mcc = FALSE
        /\ timers = {} /\ loadingAge = LoadingTime /\ cutShort = FALSE
        /\ drv_errors = 0 /\ asked = 0
        /\ country = HomeCountry /\ configured = HomeCountry

-----------------------------------------------------------------------------
(* The channel of a frequency: priv_p2p_freq_to_channel. *)

Spaced(freq, base) == (freq - base) % 5 = 0

(* What it stores: one channel, or nothing if the frequency is unknown.    *)
(* As elsewhere, a name with a suffix is a plausible bug no action uses.   *)
freq_to_channel_FromFirst(freq) ==
  CASE freq \in 2412 .. 2472 /\ Spaced(freq, 2407) -> {Ch(81, (freq - 2412) \div 5)}
    [] freq = 2484 -> {Ch(82, 14)}
    [] freq \in 5180 .. 5240 /\ Spaced(freq, 5000) -> {Ch(115, (freq - 5000) \div 5)}
    [] freq \in 5745 .. 5805 /\ Spaced(freq, 5000) -> {Ch(124, (freq - 5000) \div 5)}
    [] OTHER -> {}
freq_to_channel(freq) ==
  CASE freq \in 2412 .. 2472 /\ Spaced(freq, 2407) -> {Ch(81, (freq - 2407) \div 5)}
    [] freq = 2484 -> {Ch(82, 14)}
    [] freq \in 5180 .. 5240 /\ Spaced(freq, 5000) -> {Ch(115, (freq - 5000) \div 5)}
    [] freq \in 5745 .. 5805 /\ Spaced(freq, 5000) -> {Ch(124, (freq - 5000) \div 5)}
    [] OTHER -> {}

(* "Not support p2p." *)
NotSupported == ~hasP2p /\ UNCHANGED p2p

(* Whether the conversion failed is not asked: an unknown frequency puts   *)
(* P2P on whatever the two variables happen to hold.                       *)
config_scc(freq) ==
  \/ NotSupported
  \/ /\ hasP2p
     /\ op' \in (IF freq_to_channel(freq) # {} THEN freq_to_channel(freq)
                 ELSE Uninitialized)
     /\ channels' = {op'}
     /\ asked' = freq
     /\ UNCHANGED <<cfg_op_channel, configured>>

config_mcc ==
  \/ NotSupported
  \/ /\ hasP2p
     /\ op' \in OwnChannel
     /\ cfg_op_channel' = (conf # NoConf)
     /\ channels' = cfg_channels
     /\ asked' = 0 /\ configured' = country

(* mtk_get_shared_radio_freqs with room for one frequency: that of the     *)
(* first interface in a network, unless the driver does not tell the       *)
(* station's BSSID, when it is the next one's; and none (0) if there is no *)
(* memory, or for a group owner whose network names no frequency.          *)
shared_freqs == {radio[i] : i \in Interfaces} \cup {0}

config_shared ==
  \E freq \in shared_freqs : IF freq # 0 THEN config_scc(freq) ELSE config_mcc

-----------------------------------------------------------------------------
(* The commands. *)

(* The ioctl of a command that is not handled here, or not here alone. *)
private_command_NeverReset ==
  \/ drv_errors' = IF drv_errors + 1 > DRV_NUMBER_SEQUENTIAL_ERRORS + 1 THEN 0
                   ELSE drv_errors + 1
  \/ UNCHANGED drv_errors
private_command ==
  \/ drv_errors' = IF drv_errors + 1 > DRV_NUMBER_SEQUENTIAL_ERRORS THEN 0
                   ELSE drv_errors + 1
  \/ drv_errors' = 0

(* 0, 1, and 2 without a frequency follow the other interfaces; 2 can name *)
(* a frequency, of which 0 means MCC.                                      *)
MIRACAST ==
  /\ \/ config_shared
     \/ \E freq \in Frequencies : config_scc(freq)
     \/ config_mcc
  /\ private_command
  /\ UNCHANGED <<others, p2p_use_mcc, loading, regulatory>>

(* MIRACAST with any other value, SETSUSPENDMODE, and what is not handled. *)
other_command == /\ private_command
                 /\ UNCHANGED <<others, p2p, p2p_use_mcc, loading, regulatory>>

(* There is no test for p2p here: without it wpa_supplicant ends.          *)
use_mcc(flag) ==
  /\ hasP2p
  /\ p2p_use_mcc' = flag
  /\ IF flag THEN config_mcc ELSE config_shared
  /\ UNCHANGED <<others, loading, drv_errors, regulatory>>

(* The timeout of an earlier command is cancelled first. *)
set_scan_loading_NotCancelled ==
  /\ timers' = timers \cup {LoadingTime}
  /\ loadingAge' = 0
  /\ UNCHANGED <<others, p2p, p2p_use_mcc, drv_errors, cutShort, regulatory>>
set_scan_loading ==
  /\ timers' = {LoadingTime}
  /\ loadingAge' = 0
  /\ UNCHANGED <<others, p2p, p2p_use_mcc, drv_errors, cutShort, regulatory>>

(* External: EVENT_CHANNEL_LIST_CHANGED makes wpa_supplicant read the      *)
(* driver's channels again.  p2p->channels stays as it was configured.     *)
channel_list_changed ==
  cfg_channels' = IF hasP2p THEN CountryChannels[country'] ELSE cfg_channels

(* EVENT_CHANNEL_LIST_CHANGED ends the loading. *)
scan_loading_timeout ==
  /\ 1 \in timers
  /\ timers' = {t - 1 : t \in timers \ {1}}
  /\ loadingAge' = IF loadingAge < LoadingTime THEN loadingAge + 1 ELSE loadingAge
  /\ cutShort' = (cutShort \/ loadingAge' < LoadingTime)
  /\ UNCHANGED country /\ channel_list_changed
  /\ UNCHANGED <<others, p2p, p2p_use_mcc, drv_errors>>

(* COUNTRY of two letters; anything else is answered 0 and ignored.        *)
set_country_NotNotified(c) ==
  /\ country' = c
  /\ UNCHANGED <<cfg_channels, others, p2p, p2p_use_mcc, loading, drv_errors>>
set_country(c) ==
  /\ \/ country' = c /\ channel_list_changed
     \/ UNCHANGED regulatory
  /\ UNCHANGED <<others, p2p, p2p_use_mcc, loading, drv_errors>>

(* External: a tick at whose end no timeout is due. *)
Tick ==
  /\ 1 \notin timers
  /\ timers' = {t - 1 : t \in timers}
  /\ loadingAge' = IF loadingAge < LoadingTime THEN loadingAge + 1 ELSE loadingAge
  /\ UNCHANGED <<others, p2p, p2p_use_mcc, drv_errors, cutShort, regulatory>>

(* External: an interface joins, leaves or moves; P2P's configuration does *)
(* not follow until the next command.                                      *)
RadioChange(i) ==
  /\ radio' \in {[radio EXCEPT ![i] = f] : f \in Frequencies \cup {0}}
  /\ UNCHANGED <<conf, hasP2p, p2p, p2p_use_mcc, loading, drv_errors, regulatory>>

(* External: wpa_supplicant sets P2P up with the driver's channels, ... *)
P2pInit == /\ ~hasP2p /\ hasP2p' = TRUE
           /\ op' \in OwnChannel /\ cfg_op_channel' = (conf # NoConf)
           /\ cfg_channels' = CountryChannels[country]
           /\ channels' = cfg_channels'
           /\ asked' = 0 /\ configured' = country /\ p2p_use_mcc' = FALSE
           /\ UNCHANGED <<conf, radio, loading, drv_errors, country>>

(* ... and gives it up; commands can still come. *)
P2pDeinit == /\ hasP2p' = FALSE
             /\ UNCHANGED <<conf, radio, p2p, p2p_use_mcc, loading, drv_errors,
                            regulatory>>

(* A command without a drv, its ctx or a conf returns at once: no step.    *)
Next == \/ MIRACAST \/ other_command \/ \E flag \in BOOLEAN : use_mcc(flag)
        \/ set_scan_loading \/ scan_loading_timeout \/ Tick
        \/ \E c \in Countries : set_country(c)
        \/ \E i \in Interfaces : RadioChange(i)
        \/ P2pInit \/ P2pDeinit

Spec == Init /\ [][Next]_vars

-----------------------------------------------------------------------------
(* Properties. *)

(* The channel a frequency stands for, as its operating class defines it. *)
Centre(ch) == CASE ch.op_class = 81 -> 2407 + 5 * ch.op_channel
                [] ch.op_class = 82 -> 2414 + 5 * ch.op_channel
                [] OTHER -> 5000 + 5 * ch.op_channel
KnownFrequency(f) == \/ f = 2484 \/ \E n \in 1 .. 13 : f = 2407 + 5 * n
                     \/ \E n \in (36 .. 48) \cup (149 .. 161) : f = 5000 + 5 * n

(* "Enable SCC": P2P is alone on the very channel SCC was set for, for     *)
(* every frequency of a class the conversion knows.                        *)
SccOnAskedChannel ==
  asked # 0 /\ KnownFrequency(asked) => Centre(op) = asked /\ channels = {op}

(* "Get back to MCC": nothing of any earlier SCC configuration is left,   *)
(* and the list is that of the country the driver obeyed at that moment,   *)
(* whichever COUNTRY commands failed and whichever came during SCC.  (A    *)
(* COUNTRY afterwards leaves P2P's list as it is.)                         *)
MccRestored ==
  asked = 0 => /\ channels = CountryChannels[configured] /\ op \in OwnChannel
               /\ cfg_op_channel = (conf # NoConf)

(* No timeout ends a scan loading before its time, even if a second one is *)
(* asked for during the first.  (COUNTRY updates the list at once, during  *)
(* a loading too: that is no timeout.)                                     *)
LoadingNotCutShort == ~cutShort
=============================================================================
