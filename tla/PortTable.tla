----------------------------- MODULE PortTable ------------------------------
(***************************************************************************)
(* rs232-win.c: the table of COM ports and the handles behind it.          *)
(***************************************************************************)
EXTENDS Integers, Sequences, FiniteSets

CONSTANTS
  MaxPorts,  \* COM_MAXDEVICES
  Handles,   \* bound: handle values, which Windows gives out again
  DosLists   \* bound: lists of device names QueryDosDeviceA may return

NoHandle == 0

\* A name of the list is the number behind COM, 0 where there is none, or
\* NotCom for any other name.
NotCom == -1

ASSUME PortAssumption ==
  /\ MaxPorts \in Nat \ {0}
  /\ Handles \subseteq Nat \ {0}
  /\ DosLists \subseteq Seq(Nat \cup {NotCom})

VARIABLES
  dosList,  \* what QueryDosDeviceA has returned
  ports,    \* comDevices[].port
  handle,   \* comDevices[].handle
  openOn    \* the device an open handle is on, 0 for a value not in use

portVars == <<dosList, ports, handle, openOn>>

PortTypeOK ==
  /\ dosList \in Seq(Nat \cup {NotCom})
  /\ DOMAIN ports \subseteq 1..Len(dosList)
  /\ ports \in [DOMAIN ports -> Nat \ {0}]
  /\ handle \in [DOMAIN ports -> Handles \cup {NoHandle}]
  /\ openOn \in [Handles -> Nat]

\* findPattern() gathers the number in a char.
InChar(n) == IF n % 256 < 128 THEN n % 256 ELSE (n % 256) - 256

\* Mutant of Seen: another kind of name ends the search.
SeenUpToOther(list) ==
  {i \in 1..Len(list) : /\ \A j \in 1..i : list[j] # NotCom
                        /\ list[i] < 100 \/ i = Len(list)}

\* Where findPattern() stops.  "COM???" takes up to three digits, but a name's end
\* ends the search only while it wants another one: COM100 and above are seen at
\* the end of the list only.
Seen(list) == {i \in 1..Len(list) : list[i] # NotCom /\ (list[i] < 100 \/ i = Len(list))}

\* comEnumerate() goes on while the number is positive and the table has room.
\* A port's index is taken for its place in the list.  Behind the last name it reads
\* the memory that follows: names found there count as names of the list.
Enumerated(list) ==
  {i \in Seen(list) : /\ \A j \in Seen(list) : j <= i => InChar(list[j]) > 0
                      /\ Cardinality({j \in Seen(list) : j < i}) < MaxPorts}

PortsInit(list) ==
  /\ dosList = list
  /\ ports = [i \in Enumerated(list) |-> InChar(list[i])]
  /\ handle = [i \in Enumerated(list) |-> NoHandle]
  /\ openOn = [h \in Handles |-> 0]

\* comFindPort(): the first entry of that name.
Entries(d) == {i \in DOMAIN ports : ports[i] = d}
HasPort(d) == Entries(d) # {}
FirstOf(d, i) == i \in Entries(d) /\ \A j \in Entries(d) : i <= j

\* comClose(): whatever handle value the entry holds is closed.
CloseEntry(i) ==
  /\ openOn' = IF handle[i] = NoHandle THEN openOn ELSE [openOn EXCEPT ![handle[i]] = 0]
  /\ handle' = [handle EXCEPT ![i] = NoHandle]
  /\ UNCHANGED <<dosList, ports>>

\* CreateFileA() without sharing: the port must exist and not be open.
MayCreate(i, there) ==
  ports[i] \in there /\ \A h \in Handles : openOn[h] # ports[i]

CreateOn(i) ==
  /\ \E h \in Handles :
       /\ openOn[h] = 0
       /\ openOn' = [openOn EXCEPT ![h] = ports[i]]
       /\ handle' = [handle EXCEPT ![i] = h]
  /\ UNCHANGED <<dosList, ports>>

\* SetCommState() has failed: the handle is closed and its value stays in the
\* table.
CloseKeepsValue(i) ==
  /\ openOn' = [openOn EXCEPT ![handle[i]] = 0]
  /\ UNCHANGED <<dosList, ports, handle>>

\* The device that comRead() and comWrite() of an entry reach, 0 for none.
Reached(i) == IF handle[i] = NoHandle THEN 0 ELSE openOn[handle[i]]
=============================================================================
