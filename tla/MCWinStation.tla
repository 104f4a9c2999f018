---------------------------- MODULE MCWinStation ----------------------------
(***************************************************************************)
(* WinStation for TLC: the station of services and the interactive one with*)
(* a desktop each, a station that does not exist, and lists that are full  *)
(* after two or three calls.                                               *)
(***************************************************************************)
EXTENDS WinStation

MCNames == {Service, "Winsta0", "None", Default}
MCStations == {Service, "Winsta0"}
MCDesktops == {<<Service, Default>>, <<"Winsta0", Default>>}
MCHome == <<Service, Default>>
=============================================================================
