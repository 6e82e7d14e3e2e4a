--------------------------- MODULE MCLibraryProofs ---------------------------
(***************************************************************************)
(* What MCLibrary puts side by side behaves as its parts do: every theorem *)
(* about the specification of a part holds of the behaviours of LibSpec,   *)
(* those that TLC checks.                                                  *)
(***************************************************************************)
EXTENDS MCLibrary, FramingProofs, LibraryProofs, GetAddrInfoProofs

(* A part that is not the one chosen does nothing.                         *)
LEMMA PartsStep ==
    [LibNext]_libVars =>
        /\ [Next]_vars /\ [DgNext]_dgVars /\ [EchoNext]_echoVars /\ [ConnectNext]_connectVars
        /\ [RttNext]_rttVars /\ [ConnNext]_<<gaVars, connVars>> /\ [IfiNext]_ifiVars
        /\ [InetNext]_inetVars
  BY Zenon DEF LibNext, libVars

LEMMA PartsInit ==
    LibInit => /\ Init /\ DgInit /\ EchoInit /\ ConnectInit
               /\ RttInit /\ ConnInit /\ IfiInit /\ InetInit
  BY Zenon DEF LibInit

(* Each behaviour of the whole is a behaviour of every part.               *)
THEOREM PartsAreFollowed ==
    LibSpec => /\ Spec /\ DgSpec /\ EchoSpec /\ ConnectSpec
               /\ RttSpec /\ ConnSpec /\ IfiSpec /\ InetSpec
  BY PartsInit, PartsStep, PTL
     DEF LibSpec, Spec, DgSpec, EchoSpec, ConnectSpec, RttSpec, ConnSpec, IfiSpec, InetSpec

(* The variables of every part keep their types: LibTypeOK is about the    *)
(* ranges of the numbers, among them that what my_read keeps fits into     *)
(* read_buf, that an address as text fits the array it is put together in, *)
(* and that the walk through the answer for the interfaces stops at most   *)
(* one structure behind its end.                                           *)
THEOREM LibTypeCorrect == LibSpec => []LibTypeOK
  <1>1. /\ TypeOK /\ DgTypeOK /\ EchoTypeOK /\ ConnectTypeOK /\ RttTypeOK
        /\ GaTypeOK /\ ConnTypeOK /\ IfiTypeOK /\ InetTypeOK
        => LibTypeOK
    BY Zenon DEF LibTypeOK
  <1> QED
    BY <1>1, PartsAreFollowed, TypeCorrect, DgTypeCorrect, EchoTypeCorrect, ConnectTypeCorrect,
       RttTypeCorrect, ConnTypeCorrect, IfiTypeCorrect, InetTypeCorrect, PTL
=============================================================================
