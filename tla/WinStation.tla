----------------------------- MODULE WinStation -----------------------------
(***************************************************************************)
(* src/Win32-Daemon/CWinStation.cpp and the functions of Daemon.xs that use*)
(* it: ShowService, HideService and RestoreService, which move the process *)
(* to another window station and the Perl thread to a desktop of it.       *)
(*                                                                         *)
(* A call is one step, since only the Perl thread makes them; what takes   *)
(* several steps to go wrong is the sequence of the calls, with Windows    *)
(* refusing any part of each, for reasons of its own: access, memory, a    *)
(* thread that has windows.  Windows keeps two things apart: the station   *)
(* of the process and the desktop of the thread, which should be in that   *)
(* station.                                                                *)
(***************************************************************************)
EXTENDS Naturals, Sequences

CONSTANTS
  Names,     \* names of stations and desktops, those scripts ask for included
  Stations,  \* the window stations there are
  Desktops,  \* the desktops there are, each <<station, name>>
  Home,      \* the desktop the service starts on
  MaxAces    \* what fits into an access control list (65535 bytes of them)

Service == "Service-x0-3e7$"
Default == "Default"

ASSUME DesktopAssumption ==
  /\ Stations \cup {Service, Default} \subseteq Names
  /\ Desktops \subseteq Stations \X Names
  /\ Home \in Desktops
ASSUME AceAssumption == MaxAces \in Nat

VARIABLES
  station,  \* the window station of the process
  desktop,  \* the desktop of the Perl thread
  home,     \* m_hWinStation and m_hDesktop
  aces,     \* entries in the list of every station and desktop
  last      \* the last call, the desktop it was for, what it returned, and
            \* which part of it Windows refused

vars == <<station, desktop, home, aces, last>>

Objects == {<<w>> : w \in Stations} \cup Desktops

\* The constructor and GetThisStation, when the extension is loaded
Init ==
  /\ station = Home[1]
  /\ desktop = Home
  /\ home = Home
  /\ aces = [o \in Objects |-> 0]
  /\ last = [call |-> "none", asked |-> Home, ok |-> TRUE, refused |-> "none"]

\* AddSecurityPrivileges makes room for two entries, whatever it is going to
\* add, and the larger list must be one that InitializeAcl takes.
\* Mutant of HasRoom: room for one is enough.
HasRoomForOne(o) == aces[o] < MaxAces
HasRoom(o) == aces[o] + 2 <= MaxAces

\* What a success leaves: the entries are added once more each time, and never
\* taken away; but for a list that GetAclInformation cannot tell the size of, the
\* object gets none.
AddSecurityPrivileges(o, new) == {n \in {aces[o] + new, 0} : HasRoom(o) \/ n = 0}

\* On the station: two entries, and a failure of any kind is passed over.
StationPrivileges(w) ==
  \E n \in AddSecurityPrivileges(<<w>>, 2) \cup {aces[<<w>>]} :
    aces' = [aces EXCEPT ![<<w>>] = n]

\* And on the desktop: one.
BothPrivileges(w, d) ==
  \E n \in AddSecurityPrivileges(<<w>>, 2) \cup {aces[<<w>>]}, m \in AddSecurityPrivileges(d, 1) :
    aces' = [aces EXCEPT ![<<w>>] = n, ![d] = m]

Return(call, d, ok, refused) ==
  last' = [call |-> call, asked |-> d, ok |-> ok, refused |-> refused]

-----------------------------------------------------------------------------
\* CWinStation::Set, by how far it gets.

\* OpenWindowStation fails.
NotOpened(call, d) ==
  /\ Return(call, d, FALSE, "station")
  /\ UNCHANGED <<station, desktop, home, aces>>

\* SetProcessWindowStation fails.
NotAssigned(call, d) ==
  /\ d[1] \in Stations
  /\ StationPrivileges(d[1])
  /\ Return(call, d, FALSE, "station")
  /\ UNCHANGED <<station, desktop, home>>

\* OpenDesktop fails, with no such desktop or a refusal: the process stays in
\* the station.
\* Mutant of DesktopNotOpened: the result is set before the desktop is opened.
DesktopAssumed(call, d) ==
  /\ d[1] \in Stations
  /\ station' = d[1]
  /\ StationPrivileges(d[1])
  /\ Return(call, d, TRUE, "desktop")
  /\ UNCHANGED <<desktop, home>>
DesktopNotOpened(call, d) ==
  /\ d[1] \in Stations
  /\ station' = d[1]
  /\ StationPrivileges(d[1])
  /\ Return(call, d, FALSE, "desktop")
  /\ UNCHANGED <<desktop, home>>

\* AddSecurityPrivileges fails for the desktop, whether its list is full, or
\* could not be read, or not be written: the thread is not moved, and fResult
\* is still TRUE.
DesktopNotGranted(call, d) ==
  /\ d \in Desktops
  /\ station' = d[1]
  /\ StationPrivileges(d[1])
  /\ Return(call, d, TRUE, "privileges")
  /\ UNCHANGED <<desktop, home>>

\* SetThreadDesktop fails: the process goes back, if it may, and the entries
\* stay.
\* Mutant of DesktopNotSet: the station is not put back.
DesktopNotSetStays(call, d) ==
  /\ d \in Desktops
  /\ station' = d[1]
  /\ BothPrivileges(d[1], d)
  /\ Return(call, d, FALSE, "thread")
  /\ UNCHANGED <<desktop, home>>
DesktopNotSet(call, d) ==
  /\ d \in Desktops
  /\ BothPrivileges(d[1], d)
  /\ \/ Return(call, d, FALSE, "thread") /\ UNCHANGED station
     \/ Return(call, d, FALSE, "back") /\ station' = d[1]
  /\ UNCHANGED <<desktop, home>>

\* Mutant of Moved: GetThisStation is called again.
MovedHome(call, d) ==
  /\ d \in Desktops
  /\ station' = d[1]
  /\ desktop' = d
  /\ home' = d
  /\ BothPrivileges(d[1], d)
  /\ Return(call, d, TRUE, "none")
Moved(call, d) ==
  /\ d \in Desktops
  /\ station' = d[1]
  /\ desktop' = d
  /\ BothPrivileges(d[1], d)
  /\ Return(call, d, TRUE, "none")
  /\ UNCHANGED home

Set(call, d) ==
  \/ NotOpened(call, d) \/ NotAssigned(call, d)
  \/ DesktopNotOpened(call, d) \/ DesktopNotGranted(call, d)
  \/ DesktopNotSet(call, d) \/ Moved(call, d)

-----------------------------------------------------------------------------
\* The desktop's name is read from ST(0), which is the station's.
ShowService(w, named) ==
  Set("ShowService", <<w, IF named THEN w ELSE Default>>)

HideService == Set("HideService", <<Service, Default>>)

\* CWinStation::Restore.  With SetThreadDesktop failing the process is home
\* and the thread is not.
RestoreService ==
  /\ \/ /\ Return("RestoreService", home, FALSE, "station")
        /\ UNCHANGED <<station, desktop>>
     \/ /\ station' = home[1]
        /\ Return("RestoreService", home, FALSE, "thread")
        /\ UNCHANGED desktop
     \/ /\ station' = home[1]
        /\ desktop' = home
        /\ Return("RestoreService", home, TRUE, "none")
  /\ UNCHANGED <<home, aces>>

Next ==
  \/ \E w \in Names, named \in BOOLEAN : ShowService(w, named)
  \/ HideService
  \/ RestoreService

Spec == Init /\ [][Next]_vars

-----------------------------------------------------------------------------
\* Type invariant: no access control list grows past what Windows accepts.
Calls == {"none", "ShowService", "HideService", "RestoreService"}

Parts == {"none", "station", "desktop", "privileges", "thread", "back"}

TypeOK ==
  /\ station \in Stations
  /\ desktop \in Desktops
  /\ home \in Desktops
  /\ aces \in [Objects -> 0 .. MaxAces]
  /\ last \in [call : Calls, asked : Names \X Names, ok : BOOLEAN, refused : Parts]

\* RestoreService that reports success has brought the process and the thread
\* to where the service started, whatever was called before and failed.
RestoredHome ==
  last.call = "RestoreService" /\ last.ok => station = Home[1] /\ desktop = Home

\* A call that reports success has moved the process to the station it was asked
\* for, and the thread to the desktop, unless AddSecurityPrivileges failed for
\* the desktop: of all refusals this one alone is reported as success.
SuccessMoves ==
  last.ok => /\ station = last.asked[1]
             /\ \/ desktop = last.asked
                \/ last.call # "RestoreService" /\ last.refused = "privileges"

\* The thread's desktop is in the station of the process.  These refusals part
\* them: of the desktop, of the privileges on it, and of SetThreadDesktop when
\* the service is to be restored.  That of SetThreadDesktop in Set does not, as
\* long as the process may go back.
Whole == station = desktop[1]

StaysWhole ==
  [][Whole => \/ Whole'
              \/ last'.refused \in {"desktop", "privileges", "back"}
              \/ last'.call = "RestoreService" /\ last'.refused = "thread"]_vars
=============================================================================
