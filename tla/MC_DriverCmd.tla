---------------------------- MODULE MC_DriverCmd ----------------------------
(* A finite instance of DriverCmd: frequencies at the ends of the bands    *)
(* the conversion knows, one that no 5 divides and one of no known class;  *)
(* two countries, one with a channel more.                                 *)
EXTENDS DriverCmd, TLC

CONSTANTS us, de

MC_Frequencies == {2412, 2472, 2474, 2484, 5180, 5240, 5260, 5805}
MC_Countries == {us, de}
MC_CountryChannels == us :> Social \cup {Ch(115, 36), Ch(115, 40)}
                      @@ de :> Social \cup {Ch(115, 36), Ch(115, 40), Ch(81, 13)}
MC_Confs == {NoConf, Ch(115, 40)}
MC_Uninitialized == {Ch(0, 0), Ch(115, 52)}
=============================================================================
