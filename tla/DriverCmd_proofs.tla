-------------------------- MODULE DriverCmd_proofs --------------------------
(* Theorems about DriverCmd, for any frequencies, channels and countries.  *)
EXTENDS DriverCmd, TLAPS

USE ChannelsAssumption, CountriesAssumption, NumbersAssumption

-----------------------------------------------------------------------------
(* priv_p2p_freq_to_channel. *)

(* What it stores is a channel, and at most one. *)
LEMMA FreqToChannelType ==
  ASSUME NEW f \in Nat
  PROVE  freq_to_channel(f) \subseteq Channel
<1>1. CASE f \in 2412 .. 2472 /\ Spaced(f, 2407)
  <2>1. (f - 2407) \div 5 \in 0 .. 255
    BY <1>1
  <2> QED
    BY <1>1, <2>1 DEF freq_to_channel, Channel, Ch
<1>2. CASE f = 2484
  BY <1>2 DEF freq_to_channel, Channel, Ch
<1>3. CASE f \in 5180 .. 5240 /\ Spaced(f, 5000)
  <2>1. (f - 5000) \div 5 \in 0 .. 255
    BY <1>3
  <2> QED
    BY <1>3, <2>1 DEF freq_to_channel, Channel, Ch
<1>4. CASE f \in 5745 .. 5805 /\ Spaced(f, 5000)
  <2>1. (f - 5000) \div 5 \in 0 .. 255
    BY <1>4
  <2> QED
    BY <1>4, <2>1 DEF freq_to_channel, Channel, Ch
<1> QED
  BY <1>1, <1>2, <1>3, <1>4 DEF freq_to_channel

(* The centre of a channel of each class. *)
LEMMA CentreOf ==
  ASSUME NEW n \in Int
  PROVE  /\ Centre(Ch(81, n)) = 2407 + 5 * n /\ Centre(Ch(82, n)) = 2414 + 5 * n
         /\ Centre(Ch(115, n)) = 5000 + 5 * n /\ Centre(Ch(124, n)) = 5000 + 5 * n
<1>1. \A c : Ch(c, n).op_class = c /\ Ch(c, n).op_channel = n
  BY DEF Ch
<1> QED
  BY <1>1 DEF Centre

(* A frequency of a class it knows becomes the channel with that centre:   *)
(* no known frequency falls through to the uninitialized variables.        *)
LEMMA FreqToChannelCentre ==
  ASSUME NEW f \in Nat, KnownFrequency(f)
  PROVE  /\ freq_to_channel(f) # {}
         /\ \A ch \in freq_to_channel(f) : Centre(ch) = f
<1>1. CASE f = 2484
  <2>1. freq_to_channel(f) = {Ch(82, 14)}
    BY <1>1 DEF freq_to_channel
  <2>2. 14 \in Int /\ 2414 + 5 * 14 = f
    BY <1>1
  <2>3. Centre(Ch(82, 14)) = f
    BY <2>2, CentreOf
  <2> QED
    BY <2>1, <2>3
<1>2. ASSUME NEW n \in 1 .. 13, f = 2407 + 5 * n
      PROVE  /\ freq_to_channel(f) # {}
             /\ \A ch \in freq_to_channel(f) : Centre(ch) = f
  <2>1. f \in 2412 .. 2472 /\ (f - 2407) % 5 = 0 /\ (f - 2407) \div 5 = n
    BY <1>2
  <2>2. freq_to_channel(f) = {Ch(81, n)}
    BY <2>1 DEF freq_to_channel, Spaced
  <2>3. Centre(Ch(81, n)) = f
    BY <1>2, CentreOf
  <2> QED
    BY <2>2, <2>3
<1>3. ASSUME NEW n \in 36 .. 48, f = 5000 + 5 * n
      PROVE  /\ freq_to_channel(f) # {}
             /\ \A ch \in freq_to_channel(f) : Centre(ch) = f
  <2>1. f \in 5180 .. 5240 /\ (f - 5000) % 5 = 0 /\ (f - 5000) \div 5 = n
    BY <1>3
  <2>2. freq_to_channel(f) = {Ch(115, n)}
    BY <2>1 DEF freq_to_channel, Spaced
  <2>3. Centre(Ch(115, n)) = f
    BY <1>3, CentreOf
  <2> QED
    BY <2>2, <2>3
<1>4. ASSUME NEW n \in 149 .. 161, f = 5000 + 5 * n
      PROVE  /\ freq_to_channel(f) # {}
             /\ \A ch \in freq_to_channel(f) : Centre(ch) = f
  <2>1. f \in 5745 .. 5805 /\ (f - 5000) % 5 = 0 /\ (f - 5000) \div 5 = n
    BY <1>4
  <2>2. freq_to_channel(f) = {Ch(124, n)}
    BY <2>1 DEF freq_to_channel, Spaced
  <2>3. Centre(Ch(124, n)) = f
    BY <1>4, CentreOf
  <2> QED
    BY <2>2, <2>3
<1> QED
  BY <1>1, <1>2, <1>3, <1>4 DEF KnownFrequency

-----------------------------------------------------------------------------
(* The configuration of P2P.                                               *)

(* The list MCC goes back to is that of the driver's country, whichever    *)
(* COUNTRY commands failed.                                                *)
CfgInv == hasP2p => cfg_channels = CountryChannels[country]

(* What a command that configures P2P leaves. *)
Configured == /\ op' \in Channel /\ channels' \in SUBSET Channel
              /\ cfg_op_channel' \in BOOLEAN /\ asked' \in Frequencies \cup {0}
              /\ configured' \in Countries
              /\ SccOnAskedChannel' /\ MccRestored'

(* P2P as it is keeps what holds of it. *)
LEMMA P2pUnchanged ==
  ASSUME TypeOK, SccOnAskedChannel, MccRestored, UNCHANGED <<conf, p2p>>
  PROVE  Configured
<1>1. SccOnAskedChannel' /\ MccRestored'
  BY DEF p2p, SccOnAskedChannel, MccRestored, OwnChannel, Centre, KnownFrequency
<1> QED
  BY <1>1 DEF p2p, TypeOK, Configured

(* On the shared frequency: the channel that freq_to_channel computes. *)
LEMMA SccConfigures ==
  ASSUME TypeOK, SccOnAskedChannel, MccRestored, conf' = conf,
         NEW f \in Frequencies, config_scc(f)
  PROVE  Configured
<1>1. CASE NotSupported
  BY <1>1, P2pUnchanged DEF NotSupported
<1>2. CASE ~NotSupported
  <2>1. f \in Nat \ {0}
    OBVIOUS
  <2>2. op' \in Channel
    BY <1>2, <2>1, FreqToChannelType DEF config_scc
  <2>3. /\ channels' = {op'} /\ asked' = f /\ cfg_op_channel' = cfg_op_channel
        /\ configured' = configured
    BY <1>2 DEF config_scc
  <2>4. KnownFrequency(f) => Centre(op') = f
    BY <1>2, <2>1, FreqToChannelCentre DEF config_scc
  <2>5. SccOnAskedChannel' /\ MccRestored'
    BY <2>1, <2>3, <2>4
       DEF SccOnAskedChannel, MccRestored, Centre, KnownFrequency
  <2> QED
    BY <2>2, <2>3, <2>5 DEF Configured, TypeOK
<1> QED
  BY <1>1, <1>2

(* On its own: the channel of the configuration file and the list of the   *)
(* driver's country.                                                       *)
LEMMA MccConfigures ==
  ASSUME TypeOK, SccOnAskedChannel, MccRestored, CfgInv, conf' = conf, config_mcc
  PROVE  Configured
<1>1. CASE NotSupported
  BY <1>1, P2pUnchanged DEF NotSupported
<1>2. CASE ~NotSupported
  <2>1. OwnChannel \subseteq Channel
    BY DEF OwnChannel, TypeOK, Social, Channel, Ch
  <2>2. OwnChannel' = OwnChannel
    BY DEF OwnChannel
  <2>3. channels' = CountryChannels[configured'] /\ configured' = country
    BY <1>2 DEF config_mcc, CfgInv
  <2>4. /\ op' \in OwnChannel /\ cfg_op_channel' = (conf # NoConf) /\ asked' = 0
    BY <1>2 DEF config_mcc
  <2>5. channels' \in SUBSET Channel /\ configured' \in Countries
    BY <2>3 DEF TypeOK
  <2> QED
    BY <2>1, <2>2, <2>3, <2>4, <2>5
       DEF Configured, SccOnAskedChannel, MccRestored
<1> QED
  BY <1>1, <1>2

(* Whichever of the two the shared frequency selects. *)
LEMMA SharedConfigures ==
  ASSUME TypeOK, SccOnAskedChannel, MccRestored, CfgInv, conf' = conf, config_shared
  PROVE  Configured
<1>1. shared_freqs \subseteq Frequencies \cup {0}
  BY DEF shared_freqs, TypeOK
<1> QED
  BY <1>1, SccConfigures, MccConfigures DEF config_shared

-----------------------------------------------------------------------------
(* Scan loading: a pending timeout has exactly the time left that the      *)
(* loading lacks, so that there is never a second one.                     *)
LoadingInv == /\ \A t \in timers : loadingAge + t = LoadingTime
              /\ LoadingNotCutShort

(* A second request cancels and sets the timeout anew; a tick ages both. *)
LEMMA LoadingStep ==
  ASSUME TypeOK, LoadingInv, set_scan_loading \/ scan_loading_timeout \/ Tick
  PROVE  /\ LoadingInv' /\ timers' \in SUBSET (1 .. LoadingTime)
         /\ loadingAge' \in 0 .. LoadingTime /\ cutShort' = FALSE
<1> USE DEF TypeOK, LoadingInv, LoadingNotCutShort
<1>1. CASE set_scan_loading
  BY <1>1 DEF set_scan_loading
<1>2. CASE scan_loading_timeout
  <2>1. loadingAge = LoadingTime - 1
    BY <1>2 DEF scan_loading_timeout
  <2>2. timers' = {}
    <3>1. timers \ {1} = {}
      BY <2>1
    <3> QED
      BY <1>2, <3>1 DEF scan_loading_timeout
  <2>3. loadingAge' = LoadingTime
    BY <1>2, <2>1 DEF scan_loading_timeout
  <2>4. cutShort' = FALSE
    BY <1>2, <2>3 DEF scan_loading_timeout
  <2> QED
    BY <2>2, <2>3, <2>4
<1>3. CASE Tick
  <2>1. \A u \in timers' : \E t \in timers : u = t - 1 /\ t # 1
    BY <1>3 DEF Tick
  <2>2. ASSUME NEW t \in timers
        PROVE  loadingAge < LoadingTime
    OBVIOUS
  <2>3. loadingAge' \in 0 .. LoadingTime /\ cutShort' = FALSE
    BY <1>3 DEF Tick
  <2>4. timers # {} => loadingAge' = loadingAge + 1
    BY <1>3, <2>2 DEF Tick
  <2>5. \A u \in timers' : u \in 1 .. LoadingTime /\ loadingAge' + u = LoadingTime
    BY <2>1, <2>4
  <2> QED
    BY <2>3, <2>5
<1> QED
  BY <1>1, <1>2, <1>3

-----------------------------------------------------------------------------
(* All of them together. *)
DriverInv == TypeOK /\ SccOnAskedChannel /\ MccRestored /\ LoadingInv /\ CfgInv

(* The supplicant's own configuration, and nothing pending. *)
LEMMA DriverInitial == Init => DriverInv
<1> HAVE Init
<1>1. TypeOK
  <2>1. op \in Channel
    BY DEF Init, OwnChannel, Social, Channel, Ch
  <2>2. channels \in SUBSET Channel /\ cfg_channels \in SUBSET Channel
    BY DEF Init
  <2>3. cfg_op_channel \in BOOLEAN
    BY DEF Init
  <2>4. timers \in SUBSET (1 .. LoadingTime) /\ loadingAge \in 0 .. LoadingTime
    BY DEF Init
  <2>5. radio \in [Interfaces -> Frequencies \cup {0}] /\ conf \in Confs
    BY DEF Init
  <2>6. drv_errors \in 0 .. DRV_NUMBER_SEQUENTIAL_ERRORS
    BY DEF Init
  <2>7. p2p_use_mcc \in BOOLEAN /\ cutShort \in BOOLEAN /\ hasP2p \in BOOLEAN
    BY DEF Init
  <2> QED
    BY <2>1, <2>2, <2>3, <2>4, <2>5, <2>6, <2>7 DEF Init, TypeOK
<1>2. SccOnAskedChannel /\ MccRestored /\ LoadingInv /\ CfgInv
  BY DEF Init, SccOnAskedChannel, MccRestored, LoadingInv, LoadingNotCutShort,
         CfgInv
<1> QED
  BY <1>1, <1>2 DEF DriverInv

(* Every command, timeout and change of the stations keeps it. *)
LEMMA DriverStep ==
  ASSUME DriverInv, [Next]_vars
  PROVE  DriverInv'
<1> USE DEF DriverInv
<1>1. ASSUME UNCHANGED loading
      PROVE  LoadingInv'
  BY <1>1 DEF loading, LoadingInv, LoadingNotCutShort
<1>2. ASSUME UNCHANGED <<hasP2p, regulatory>>
      PROVE  CfgInv'
  BY <1>2 DEF regulatory, CfgInv
<1>3. CASE UNCHANGED vars
  BY <1>1, <1>2, <1>3, P2pUnchanged
     DEF vars, others, Configured, loading, regulatory, TypeOK
<1>4. CASE MIRACAST \/ other_command
  <2>1. drv_errors' \in 0 .. DRV_NUMBER_SEQUENTIAL_ERRORS
    BY <1>4 DEF MIRACAST, other_command, private_command, TypeOK
  <2>2. UNCHANGED <<others, p2p_use_mcc, loading, regulatory>>
    BY <1>4 DEF MIRACAST, other_command
  <2>3. Configured
    BY <1>4, <2>2, SccConfigures, MccConfigures, SharedConfigures, P2pUnchanged
       DEF MIRACAST, other_command, others
  <2> QED
    BY <1>1, <1>2, <2>1, <2>2, <2>3
       DEF Configured, TypeOK, others, loading, regulatory
<1>5. ASSUME NEW flag \in BOOLEAN, use_mcc(flag)
      PROVE  DriverInv'
  <2>1. Configured
    BY <1>5, MccConfigures, SharedConfigures DEF use_mcc, others
  <2> QED
    BY <1>1, <1>2, <1>5, <2>1
       DEF Configured, TypeOK, others, loading, regulatory, use_mcc
<1>6. CASE set_scan_loading \/ scan_loading_timeout \/ Tick
  <2>1. /\ LoadingInv' /\ timers' \in SUBSET (1 .. LoadingTime)
        /\ loadingAge' \in 0 .. LoadingTime /\ cutShort' = FALSE
    BY <1>6, LoadingStep
  <2>2. UNCHANGED <<others, p2p, p2p_use_mcc, drv_errors, country>>
    BY <1>6 DEF set_scan_loading, scan_loading_timeout, Tick, regulatory
  <2>3. cfg_channels' \in SUBSET Channel /\ CfgInv'
    <3>1. CASE scan_loading_timeout
      BY <2>2, <3>1 DEF scan_loading_timeout, channel_list_changed, CfgInv, TypeOK,
                        others
    <3>2. CASE set_scan_loading \/ Tick
      BY <1>2, <2>2, <3>2 DEF set_scan_loading, Tick, regulatory, TypeOK, others
    <3> QED
      BY <1>6, <3>1, <3>2
  <2>4. Configured
    BY <2>2, P2pUnchanged DEF others
  <2> QED
    BY <2>1, <2>2, <2>3, <2>4 DEF Configured, TypeOK, others
<1>7. ASSUME NEW c \in Countries, set_country(c)
      PROVE  DriverInv'
  <2>1. UNCHANGED <<others, p2p, p2p_use_mcc, loading, drv_errors>>
    BY <1>7 DEF set_country
  <2>2. country' \in Countries /\ cfg_channels' \in SUBSET Channel /\ CfgInv'
    <3>1. CASE country' = c /\ channel_list_changed
      BY <2>1, <3>1 DEF channel_list_changed, CfgInv, TypeOK, others
    <3>2. CASE UNCHANGED regulatory
      BY <1>2, <2>1, <3>2 DEF regulatory, TypeOK, others
    <3> QED
      BY <1>7, <3>1, <3>2 DEF set_country
  <2>3. Configured
    BY <2>1, P2pUnchanged DEF others
  <2> QED
    BY <1>1, <2>1, <2>2, <2>3 DEF Configured, TypeOK, others, loading
<1>8. ASSUME NEW i \in Interfaces, RadioChange(i)
      PROVE  DriverInv'
  <2>1. radio' \in [Interfaces -> Frequencies \cup {0}]
    BY <1>8 DEF RadioChange, TypeOK
  <2>2. UNCHANGED <<conf, hasP2p, p2p, p2p_use_mcc, loading, drv_errors, regulatory>>
    BY <1>8 DEF RadioChange
  <2>3. Configured
    BY <2>2, P2pUnchanged
  <2> QED
    BY <1>1, <1>2, <2>1, <2>2, <2>3 DEF Configured, TypeOK, loading, regulatory
<1>9. CASE P2pInit
  <2>1. UNCHANGED <<conf, radio, loading, drv_errors, country>>
    BY <1>9 DEF P2pInit
  <2>2. /\ op' \in OwnChannel /\ cfg_op_channel' = (conf # NoConf)
        /\ cfg_channels' = CountryChannels[country] /\ channels' = cfg_channels'
        /\ asked' = 0 /\ configured' = country /\ p2p_use_mcc' = FALSE
        /\ hasP2p' = TRUE
    BY <1>9 DEF P2pInit
  <2>3. op' \in Channel /\ cfg_channels' \in SUBSET Channel
    BY <2>2 DEF OwnChannel, TypeOK, Social, Channel, Ch
  <2>4. SccOnAskedChannel' /\ MccRestored' /\ CfgInv'
    BY <2>1, <2>2 DEF SccOnAskedChannel, MccRestored, OwnChannel, CfgInv
  <2> QED
    BY <1>1, <2>1, <2>2, <2>3, <2>4 DEF TypeOK, loading
<1>10. CASE P2pDeinit
  <2>1. UNCHANGED <<conf, radio, p2p, p2p_use_mcc, loading, drv_errors, regulatory>>
    BY <1>10 DEF P2pDeinit
  <2>2. hasP2p' = FALSE
    BY <1>10 DEF P2pDeinit
  <2>3. Configured
    BY <2>1, P2pUnchanged
  <2> QED
    BY <1>1, <2>1, <2>2, <2>3 DEF Configured, TypeOK, loading, regulatory, CfgInv
<1> QED
  BY <1>3, <1>4, <1>5, <1>6, <1>7, <1>8, <1>9, <1>10 DEF Next

(* Whatever commands, timeouts and changes of the other interfaces follow  *)
(* one another, and whichever of their steps fail: P2P is on the channel   *)
(* SCC was asked for, or wholly back on its own and on the list of the     *)
(* driver's country; no timeout cuts a scan loading short.                 *)
THEOREM DriverCmdSafe ==
  Spec => [](TypeOK /\ SccOnAskedChannel /\ MccRestored /\ LoadingNotCutShort)
<1>1. DriverInv => TypeOK /\ SccOnAskedChannel /\ MccRestored /\ LoadingNotCutShort
  BY DEF DriverInv, LoadingInv
<1> QED
  BY <1>1, DriverInitial, DriverStep, PTL DEF Spec
=============================================================================
