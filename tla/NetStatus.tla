----------------------------- MODULE NetStatus -----------------------------
(***************************************************************************)
(* From power-up to the service loop of init_thread (main.cpp), and what   *)
(* the panel says of the network meanwhile: the address and the online     *)
(* flag of DisplayAgent and the LED that RGBLEDMgr and init_thread share.  *)
(*                                                                         *)
(* init_thread (priority 8) sleeps, or waits for the network, only between *)
(* the steps below.  The MQTT agent (priority 2) calls the observer        *)
(* RGBLEDMgr, which sets the LED first and the display's flag afterwards;  *)
(* init_thread can run between the two.                                    *)
(*                                                                         *)
(* External, from their use: EthHelper::init brings the chip up in the     *)
(* order of w5x00_spi.c; isJoined means a link and a lease; dhcpClient     *)
(* leaves a lease or none; the MQTT agent connects while joined and tells  *)
(* its observer.  A RGBModeOnce flash (MQTTSend, MQTTRecv) returns to the  *)
(* colour set before, so the LED is the colour of the last RGBModeOn.      *)
(***************************************************************************)
EXTENDS Integers

CONSTANTS
  Day,         \* rounds between two DHCP renewals: 60*60*24
  Interval,    \* rounds between two updateClock calls: 10
  MaxChanges   \* bound: times the network comes or goes

ASSUME DayAssumption ==
  /\ Interval \in Nat \ {0, 1}
  /\ Day \in Nat \ {0}
  /\ Day % Interval = 0
ASSUME ChangesAssumption == MaxChanges \in Nat

VARIABLES
  chip,     \* the Ethernet chip answers
  net,      \* link up and the network there
  changes,  \* times net has changed
  lease,    \* EthHelper holds a DHCP lease
  pc,       \* next step of main and init_thread
  count,    \* rounds since the last renewal
  since,    \* rounds since the last updateClock (history)
  session,  \* MQTT session: none before doMQTT, then offline or online
  telling,  \* what the observer has set the LED for and not yet the display
  led,      \* colour of the LED
  hasIP,    \* DisplayAgent's xIP is not zero
  xOnline   \* DisplayAgent's flag

vars == <<chip, net, changes, lease, pc, count, since, session, telling,
          led, hasIP, xOnline>>
world == <<chip, net, changes>>
clock == <<count, since>>
panel == <<led, hasIP, xOnline>>
mqtt == <<session, telling>>

Boot == {"init", "phy", "check", "halt"}
Start == {"begin", "dhcp", "sntp", "mqtt"}
Loop == {"delay", "test", "redial", "retest", "renew", "resync", "count"}

Joined == net /\ lease

\* Screen 50 of the carousel.
NetText == IF ~hasIP THEN "NO IP" ELSE IF xOnline THEN "Online" ELSE "Offline"

Init ==
  /\ chip \in BOOLEAN /\ net \in BOOLEAN /\ changes = 0
  /\ lease = FALSE
  /\ pc = "init"
  /\ count = 0 /\ since = 0
  /\ session = "none" /\ telling = "nothing"
  /\ led = "off" /\ hasIP = FALSE /\ xOnline = FALSE

GoTo(from, to) == pc = from /\ pc' = to

-----------------------------------------------------------------------------
(***************************************************************************)
(* Before the scheduler: gEth.init.  A chip that does not answer may fail  *)
(* any command; its version is wrong.                                      *)
(***************************************************************************)

\* ctlwizchip fails: wizchip_initialize returns and the check follows.
InitFails ==
  /\ ~chip
  /\ pc \in {"init", "phy"}
  /\ pc' = "check"
  /\ UNCHANGED <<world, lease, clock, panel, mqtt>>

InitChip ==
  /\ GoTo("init", "phy")
  /\ UNCHANGED <<world, lease, clock, panel, mqtt>>

\* A slip: the loop runs while the link is up.
PollLinkInverted ==
  /\ GoTo("phy", IF net THEN "phy" ELSE "check")
  /\ UNCHANGED <<world, lease, clock, panel, mqtt>>

\* The do-while over the link is left once the link is up.
PollLink ==
  /\ GoTo("phy", IF net THEN "check" ELSE "phy")
  /\ UNCHANGED <<world, lease, clock, panel, mqtt>>

CheckVersion ==
  /\ GoTo("check", IF chip THEN "begin" ELSE "halt")
  /\ UNCHANGED <<world, lease, clock, panel, mqtt>>

-----------------------------------------------------------------------------
(***************************************************************************)
(* init_thread.                                                            *)
(***************************************************************************)

\* dhcpClient: a lease if the network answers, none if it fails.
DhcpAnswers == net /\ lease' = TRUE
DhcpFails == lease' = FALSE
Dhcp == DhcpAnswers \/ DhcpFails

\* The other tasks are started; the LED is red until there is an address.
LightRed ==
  /\ GoTo("begin", "dhcp")
  /\ led' = "red"
  /\ UNCHANGED <<world, lease, clock, hasIP, xOnline, mqtt>>

\* The first lease: its result is not tested and what getIPAddress returns is
\* shown, which without a lease need not be zero.
FirstDhcp ==
  /\ GoTo("dhcp", "sntp")
  /\ Dhcp
  /\ hasIP' \in BOOLEAN
  /\ lease' => hasIP'
  /\ led' = "amber"
  /\ UNCHANGED <<world, clock, xOnline, mqtt>>

FirstSync ==
  /\ GoTo("sntp", "mqtt")
  /\ UNCHANGED <<world, lease, clock, panel, mqtt>>

StartMqtt ==
  /\ GoTo("mqtt", "delay")
  /\ session' = "offline"
  /\ UNCHANGED <<world, lease, clock, panel, telling>>

Delay ==
  /\ GoTo("delay", "test")
  /\ UNCHANGED <<world, lease, clock, panel, mqtt>>

\* A slip: the address stays on the display.
FindLostShown ==
  /\ ~Joined
  /\ GoTo("test", "redial")
  /\ led' = "red"
  /\ UNCHANGED <<world, lease, clock, hasIP, xOnline, mqtt>>

FindLost ==
  /\ ~Joined
  /\ GoTo("test", "redial")
  /\ hasIP' = FALSE
  /\ led' = "red"
  /\ UNCHANGED <<world, lease, clock, xOnline, mqtt>>

FindJoined ==
  /\ Joined
  /\ GoTo("test", IF count >= Day THEN "renew" ELSE "count")
  /\ count' = IF count >= Day THEN 0 ELSE count
  /\ UNCHANGED <<world, lease, since, panel, mqtt>>

Redial ==
  /\ GoTo("redial", "retest")
  /\ Dhcp
  /\ UNCHANGED <<world, clock, panel, mqtt>>

\* A slip: the address is shown without the second test.
RetestUntested ==
  /\ GoTo("retest", "count")
  /\ led' = "amber"
  /\ hasIP' = TRUE
  /\ UNCHANGED <<world, lease, clock, xOnline, mqtt>>

\* A slip: the LED tells of the recovery, the display does not.
RetestUnshown ==
  /\ GoTo("retest", "count")
  /\ led' = IF Joined THEN "amber" ELSE led
  /\ UNCHANGED <<world, lease, clock, hasIP, xOnline, mqtt>>

Retest ==
  /\ GoTo("retest", "count")
  /\ led' = IF Joined THEN "amber" ELSE led
  /\ hasIP' = (Joined \/ hasIP)
  /\ UNCHANGED <<world, lease, clock, xOnline, mqtt>>

\* The result is only printed, the address shown is left alone.
Renew ==
  /\ GoTo("renew", "resync")
  /\ Dhcp
  /\ UNCHANGED <<world, clock, panel, mqtt>>

Resync ==
  /\ GoTo("resync", "count")
  /\ UNCHANGED <<world, lease, clock, panel, mqtt>>

\* A slip: an outage starts the count again.
CountedWhileJoined(c) == IF hasIP THEN c + 1 ELSE 1

\* A slip: ticks are counted, not rounds.
CountedInTicks(c) == c + 1000

\* Bound: past Day the count is wrapped onto values of the same remainder.
Counted(c) == IF c = Day + Interval THEN Day + 1 ELSE c + 1

Count ==
  /\ GoTo("count", "delay")
  /\ count' = Counted(count)
  /\ since' = IF Counted(count) % Interval = 0 THEN 0 ELSE since + 1
  /\ UNCHANGED <<world, lease, panel, mqtt>>

-----------------------------------------------------------------------------
(***************************************************************************)
(* The MQTT agent and its observer; the network.                           *)
(***************************************************************************)

\* MQTTOnline and MQTTOffline, first half: the LED.
Tell(what, colour) ==
  /\ telling = "nothing"
  /\ session' = what
  /\ telling' = what
  /\ led' = colour
  /\ UNCHANGED <<world, lease, pc, clock, hasIP, xOnline>>

MQTTOnline == session = "offline" /\ Joined /\ Tell("online", "blue")
MQTTOffline == session # "none" /\ Tell("offline", "amber")

\* Second half: the display.
TellDisplay ==
  /\ telling # "nothing"
  /\ telling' = "nothing"
  /\ xOnline' = (telling = "online")
  /\ UNCHANGED <<world, lease, pc, clock, session, led, hasIP>>

NetChanges ==
  /\ changes < MaxChanges
  /\ net' = ~net
  /\ changes' = changes + 1
  /\ UNCHANGED <<chip, lease, pc, clock, panel, mqtt>>

Booting == InitFails \/ InitChip \/ PollLink \/ CheckVersion
Starting == LightRed \/ FirstDhcp \/ FirstSync \/ StartMqtt
Round == Delay \/ FindLost \/ FindJoined \/ Redial \/ Retest \/ Renew
           \/ Resync \/ Count
Observer == MQTTOnline \/ MQTTOffline \/ TellDisplay

\* A halted board waits for its owner.
Halted == pc = "halt" /\ UNCHANGED vars

Next == Booting \/ Starting \/ Round \/ Observer \/ NetChanges \/ Halted

\* A network that is there answers dhcpClient in the end.
Fairness ==
  /\ WF_vars(Booting)
  /\ WF_vars(Starting)
  /\ WF_vars(Round)
  /\ WF_vars(TellDisplay)
  /\ SF_vars(Redial /\ DhcpAnswers)

Spec == Init /\ [][Next]_vars /\ Fairness

-----------------------------------------------------------------------------
(***************************************************************************)
(* Properties.                                                             *)
(***************************************************************************)

TypeOK ==
  /\ {chip, net, lease, hasIP, xOnline} \subseteq BOOLEAN
  /\ changes \in 0..MaxChanges
  /\ pc \in Boot \cup Start \cup Loop
  /\ count \in 0..(Day + Interval)
  /\ since \in Nat
  /\ session \in {"none", "offline", "online"}
  /\ telling \in {"nothing", "offline", "online"}
  /\ led \in {"off", "red", "amber", "blue"}

\* Whatever the network does, updateClock (main.cpp:312) comes again within two
\* intervals of rounds, although a renewal put off by an outage starts the
\* count again in the middle of an interval (main.cpp:297).
ClockIsSteady == since <= 2 * Interval - 2

\* Between two rounds the display claims an address only with a lease behind
\* it; a renewal that failed is noticed one round later (main.cpp:284, :299).
NoFalseAddress == (pc = "delay" /\ count > 1 /\ hasIP) => lease

\* The one way to a lease that the display denies, and stays silent about for good
\* (NoIPEnds): the link drops between dhcpClient's answer and the second test
\* (main.cpp:288 to 289).  Neither the first lease, nor a renewal, nor an outage
\* that is noticed, nor the observer leads there.
Denied == lease /\ ~hasIP /\ pc \notin {"redial", "retest"}
DeniedOnlyByRetest == [][(~Denied /\ Denied') => (pc = "retest" /\ ~net)]_vars

\* A board whose link comes up starts MQTT, with or without a lease
\* (w5x00_spi.c:210, main.cpp:256-265).
StartsWhenLinked == (chip /\ <>[]net) => <>(session # "none")

\* While the network is gone the display says so, and the LED is red again and
\* again although the MQTT observer sets the same LED (main.cpp:285-287).
LossIsShown ==
  (<>[]~net /\ <>(pc \in Loop)) => (<>[](NetText = "NO IP") /\ []<>(led = "red"))

\* A loss that init_thread has seen ends on the display once the network is
\* back for good, however often dhcpClient fails before (main.cpp:289-292).
RecoveryIsShown == ((pc = "delay" /\ ~lease) /\ []net) ~> hasIP

\* A device that keeps its address stops saying NO IP: noIP, "Show No IP address
\* is currently available" (DisplayAgent.h:61).  The address is shown only in the
\* round that gets it: one that the second test (main.cpp:289) finds out of reach
\* is not shown when the link returns, nor by any renewal after it.
NoIPEnds == <>[]Joined => <>[]hasIP

=============================================================================
