------------------------------ MODULE BoardParts -----------------------------
(* The bindings that tell an application what the board does and keep what it  *)
(* was told: the WiFi stations, the preferences and GCM. They are the parts of *)
(* MCParts that BoardProofs is about, and the lists of the preferences. A      *)
(* behaviour is that of one part, named by the variable part, and the parts    *)
(* share one pool of variables: those a part does not have stay zero.          *)
EXTENDS Integers, Sequences

CONSTANTS LoopCap, PsTypes, MaxCalls, QueueCap, MaxFound,       \* WiFi
          Clients, None, NsNames, KeyNames, NameCap, SeenCap,   \* preferences
          PrefLen, MaxStamp, Spaces, SpaceKeys, ListStamps,
          Nonces, Ads, TextBlocks, MaxBlocks, MaxSent, TagCap   \* crypto

\* no task of the preferences is the mark of none
ASSUME ClientsAssumption == None \notin Clients

\* names are texts, with separators in them or not
ASSUME NamesAssumption == NsNames \subseteq Seq(STRING) /\ KeyNames \subseteq Seq(STRING)

VARIABLES part, v1, v2, v3, v4, v5, v6, v7, v8, v9, v10, v11, v12, v13, v14, v15, v16

----------------------------------------------------------------------------
(* The parts.                                                               *)
EspWifi == INSTANCE EspWifiSta WITH radio <- v1, loop <- v2, boot <- v3, own
    <- v4, ini <- v5, started <- v6, st <- v7, ps <- v8, pc <- v9, calls <-
    v10, queue <- v11, task <- v12, handler <- v13, ip <- v14, lost <- v15,
    psErr <- v16
BkWifi == INSTANCE BkWifiSta WITH radio <- v1, loop <- v2, ini <- v3, started
    <- v4, st <- v5, ps <- v6, pc <- v7, calls <- v8, task <- v9, handler <-
    v10, ip <- v11, psErr <- v12, guessed <- v13
EspPref == INSTANCE EspPrefs WITH MaxLen <- PrefLen, up <- v1, db <- v2, disk
    <- v3, clock <- v4, pc <- v5, acked <- v6, got <- v7, handle <- v8
BkPref == INSTANCE BkPrefs WITH MaxLen <- PrefLen, up <- v1, db <- v2, clock
    <- v3, pc <- v4, acked <- v5, got <- v6, holder <- v7, guarded <- v8, cut
    <- v9
PrefList == INSTANCE PrefLists WITH Names <- SpaceKeys, MaxLen <- PrefLen, MaxStamp
    <- ListStamps, board <- v1, db <- v2, clock <- v3, list <- v4
Gcm == INSTANCE EspGcm WITH Blocks <- TextBlocks, gcm <- v1, wire <- v2,
    accepted <- v3

----------------------------------------------------------------------------
(* The rest of the pool: what a part does not use.                          *)
Rest13 == <<v14, v15, v16>>
Rest11 == <<v12, v13, Rest13>>
Rest9 == <<v10, v11, Rest11>>
Rest8 == <<v9, Rest9>>
Rest7 == <<v8, Rest8>>
Rest5 == <<v6, v7, Rest7>>
Rest4 == <<v5, Rest5>>
Rest3 == <<v4, Rest4>>
Rest1 == <<v2, v3, Rest3>>
Zero13 == v14 = 0 /\ v15 = 0 /\ v16 = 0
Zero11 == v12 = 0 /\ v13 = 0 /\ Zero13
Zero9 == v10 = 0 /\ v11 = 0 /\ Zero11
Zero8 == v9 = 0 /\ Zero9
Zero7 == v8 = 0 /\ Zero8
Zero5 == v6 = 0 /\ v7 = 0 /\ Zero7
Zero4 == v5 = 0 /\ Zero5
Zero3 == v4 = 0 /\ Zero4
Zero1 == v2 = 0 /\ v3 = 0 /\ Zero3
vars == <<part, v1, Rest1>>

BoardInit == \/ part = "esp wifi" /\ EspWifi!Init
             \/ part = "bk wifi" /\ BkWifi!Init /\ Zero13
             \/ part = "esp prefs" /\ EspPref!Init /\ Zero8
             \/ part = "bk prefs" /\ BkPref!Init /\ Zero9
             \/ part = "pref lists" /\ PrefList!Init /\ Zero4
             \/ part = "gcm" /\ Gcm!Init /\ Zero3

BoardNext == \/ part = "esp wifi" /\ EspWifi!Next /\ UNCHANGED part
             \/ part = "bk wifi" /\ BkWifi!Next /\ UNCHANGED <<part, Rest13>>
             \/ part = "esp prefs" /\ EspPref!Next /\ UNCHANGED <<part, Rest8>>
             \/ part = "bk prefs" /\ BkPref!Next /\ UNCHANGED <<part, Rest9>>
             \/ part = "pref lists" /\ PrefList!Next /\ UNCHANGED <<part, Rest4>>
             \/ part = "gcm" /\ Gcm!Next /\ UNCHANGED <<part, Rest3>>

BoardSpec == BoardInit /\ [][BoardNext]_vars

----------------------------------------------------------------------------
(* What they promise. Each part states its share in its own module.          *)
\* What the station's state claims (connected, connecting, scanning) has its
\* cause in the radio or in an event under way; the exceptions are named.
StateIsBacked ==
    /\ part = "esp wifi" => EspWifi!StateIsBacked
    /\ part = "bk wifi" => BkWifi!StateIsBacked

\* The application's address is the station's, or word of its loss is due.
IpIsCurrent ==
    /\ part = "esp wifi" => EspWifi!IpIsCurrent
    /\ part = "bk wifi" => BkWifi!IpIsCurrent

\* What the preferences acknowledged survives any loss of power.
AckedSurvives ==
    /\ part = "esp prefs" => EspPref!AckedSurvives
    /\ part = "bk prefs" => BkPref!AckedSurvives

\* A get that succeeds returned a value that was there; a list that
\* succeeds has what stood while it was filled and nothing that was gone before.
AnswersAreTrue ==
    /\ part = "esp prefs" => EspPref!GetIsTrue
    /\ part = "bk prefs" => BkPref!GetIsTrue
    /\ part = "pref lists" => PrefList!ListsAreExact

\* The flash does not stay unprotected.
ProtectionBack ==
    /\ part = "bk prefs" => BkPref!ProtectionBack

\* A call on the preferences leaves the other namespaces alone.
NamespacesApart ==
    [][/\ part = "esp prefs" => EspPref!OnlyOwn
       /\ part = "bk prefs" => BkPref!OnlyOwn]_vars

\* What a GCM context accepts was encrypted, in that order, under that nonce.
AcceptedIsAuthentic ==
    /\ part = "gcm" => Gcm!AcceptedIsAuthentic
=============================================================================
