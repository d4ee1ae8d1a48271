---------------------------- MODULE ErizoStates ----------------------------
(***************************************************************************)
(* The enumerations shared by the sfup-core modules.  The code compares    *)
(* these values with <= and >=, so they keep their numbers.                *)
(***************************************************************************)
EXTENDS Integers

\* NiceConnection.h, enum IceState
NICE_INITIAL             == 0
NICE_CANDIDATES_RECEIVED == 1
NICE_READY               == 2
NICE_FINISHED            == 3
NICE_FAILED              == 4
IceState == NICE_INITIAL .. NICE_FAILED

\* Transport.h, enum TransportState
TRANSPORT_INITIAL  == 0
TRANSPORT_STARTED  == 1
TRANSPORT_GATHERED == 2
TRANSPORT_READY    == 3
TRANSPORT_FINISHED == 4
TRANSPORT_FAILED   == 5
TransportState == TRANSPORT_INITIAL .. TRANSPORT_FAILED

\* WebRtcConnection.h, enum WebRTCEvent: the values globalState_ takes
CONN_INITIAL  == 101
CONN_STARTED  == 102
CONN_GATHERED == 103
CONN_READY    == 104
CONN_FINISHED == 105
CONN_FAILED   == 500
ConnState == {CONN_INITIAL, CONN_STARTED, CONN_GATHERED, CONN_READY,
              CONN_FINISHED, CONN_FAILED}
============================================================================
