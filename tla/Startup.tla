------------------------------ MODULE Startup -------------------------------
(***************************************************************************)
(* main.c: the options file is read, then the command line, one option     *)
(* after the other, and then the tries are built and the servers started,  *)
(* each on a thread of its own.  The init functions of vrep_video.c,       *)
(* webcam_video.c, vrep_navdata.c, vrep_control.c and print_control.c set  *)
(* the functions of data_options that the servers call.                    *)
(***************************************************************************)
EXTENDS ConfigFile

CONSTANT MaxInput   \* bound: options on the command line, with the lines read before them

ASSUME StartupAssumption ==
    /\ MaxInput \in Nat
    /\ None \notin {"video", "navdata", "control", "vrep", "webcam", "print"}

VARIABLES
    status,         \* "running", "exit" (exit, error() or -h), "fault"
    stage,          \* what main does next
    parsed,         \* the options parsed: the server each is for, and its source
    vrep_init,      \* simxStart was called and connected
    connections,    \* how often
    source,         \* which init function set the functions of a server
    client_id,      \* the client id each server got from main
    flip_video,
    tries, threads  \* the command tries that were built, the servers started

Servers == {"video", "navdata", "control"}

optionVars == <<vrep_init, connections, source, client_id, flip_video>>
serverVars == <<tries, threads>>
startupVars == <<configVars, status, stage, parsed, optionVars, serverVars>>

Init ==
    /\ ConfigInit
    /\ status = "running" /\ stage = "config"
    /\ parsed = <<>>
    /\ vrep_init = FALSE /\ connections = 0
    /\ source = [s \in Servers |-> None]
    /\ client_id = [s \in Servers |-> None]
    /\ flip_video = FALSE
    /\ tries = {} /\ threads = {}

Goto(from, to) == status = "running" /\ stage = from /\ stage' = to

-----------------------------------------------------------------------------
(* config_read_options                                                      *)

ReadConfig ==
    /\ Goto("config", "config")
    /\ (\E l \in Lines : ReadLine(l)) \/ (\E l \in Strays : ReadStray(l))
    /\ UNCHANGED <<status, parsed, optionVars, serverVars>>

ConfigRead ==
    /\ Goto("config", "options")
    /\ UNCHANGED <<configVars, status, parsed, optionVars, serverVars>>

\* fopen returned NULL, and fseek gets it.
NoConfigFile ==
    /\ Goto("config", "config") /\ file = <<>> /\ strayed = 0
    /\ status' = "fault"
    /\ UNCHANGED <<configVars, parsed, optionVars, serverVars>>

-----------------------------------------------------------------------------
(* The switch over the options                                              *)

Option(s, m) ==
    /\ Goto("options", "options")
    /\ Len(file) + strayed + Len(parsed) < MaxInput
    /\ parsed' = Append(parsed, [server |-> s, source |-> m])
    /\ UNCHANGED <<configVars, serverVars>>

\* usage() and error(), exit(1) for an option getopt does not know, and the
\* return after -h.
Stop == status' = "exit" /\ UNCHANGED optionVars

\* -h, or an unknown option
Refuse == Option(None, None) /\ Stop

\* A second option for the same server
Again(s) == Option(s, None) /\ source[s] # None /\ Stop

\* simxStart timed out.
NoSimulator(s) == Option(s, None) /\ ~vrep_init /\ s # "navdata" /\ source[s] = None /\ Stop

\* Slip: that a connection exists is not remembered.
ForgetConnection ==
    /\ vrep_init' = FALSE
    /\ connections' = connections + 1

\* simxStart, unless another option called it.
Connect ==
    /\ vrep_init' = TRUE
    /\ connections' = IF vrep_init THEN connections ELSE connections + 1

\* -p, -i, -n or -c with a method main does not know: nothing that counts here.
Ignore == Option(None, None) /\ UNCHANGED <<status, optionVars>>

\* -v, -c vrep
FromVrep(s) ==
    /\ Option(s, "vrep")
    /\ s # "navdata" /\ source[s] = None
    /\ Connect
    /\ source' = [source EXCEPT ![s] = "vrep"]
    /\ client_id' = [client_id EXCEPT ![s] = "connected"]
    /\ flip_video' = (flip_video \/ s = "video")
    /\ UNCHANGED status

\* -n vrep does not connect: vrep_client_id may not have a value.
NavdataFromVrep ==
    /\ Option("navdata", "vrep")
    /\ source["navdata"] = None
    /\ source' = [source EXCEPT !["navdata"] = "vrep"]
    /\ client_id' = [client_id EXCEPT !["navdata"] = IF vrep_init THEN "connected" ELSE "unset"]
    /\ UNCHANGED <<status, vrep_init, connections, flip_video>>

Elsewhere(s) == IF s = "video" THEN "webcam" ELSE "print"

\* -w, -c print
FromElsewhere(s) ==
    /\ Option(s, Elsewhere(s))
    /\ s # "navdata" /\ source[s] = None
    /\ source' = [source EXCEPT ![s] = Elsewhere(s)]
    /\ UNCHANGED <<status, vrep_init, connections, client_id, flip_video>>

-----------------------------------------------------------------------------
(* The servers                                                              *)

Prepares(from, to) ==
    /\ Goto(from, to)
    /\ UNCHANGED <<configVars, status, parsed, optionVars>>

\* create_ftp_command_trie, create_control_command_trie
BuildTrie(s, from, to) ==
    /\ Prepares(from, to)
    /\ tries' = tries \cup {s}
    /\ UNCHANGED threads

\* pthread_create; with Servers, only if an option asked for s.
Wanted(s) == s \in Servers => source[s] # None
Start(s, from, to) ==
    /\ Prepares(from, to)
    /\ Wanted(s)
    /\ threads' = threads \cup {s}
    /\ UNCHANGED tries

PassOver(s, from, to) == Prepares(from, to) /\ ~Wanted(s) /\ UNCHANGED serverVars

BuildFtpTrie == BuildTrie("ftp", "options", "ftp")
StartFtp == Start("ftp", "ftp", "comm")
StartComm == Start("controlcomm", "comm", "video")
StartVideo == Start("video", "video", "navdata") \/ PassOver("video", "video", "navdata")
StartNavdata ==
    Start("navdata", "navdata", "control_trie") \/ PassOver("navdata", "navdata", "control_trie")

BuildControlTrie ==
    \/ Wanted("control") /\ BuildTrie("control", "control_trie", "control")
    \/ PassOver("control", "control_trie", "join")
StartControl == Start("control", "control", "join")

Next ==
    \/ ReadConfig \/ ConfigRead \/ NoConfigFile
    \/ Refuse \/ Ignore \/ NavdataFromVrep
    \/ \E s \in Servers : Again(s) \/ NoSimulator(s) \/ FromVrep(s) \/ FromElsewhere(s)
    \/ BuildFtpTrie \/ StartFtp \/ StartComm
    \/ StartVideo \/ StartNavdata \/ BuildControlTrie \/ StartControl

\* Only main runs yet, and it does.
Spec == Init /\ [][Next]_startupVars /\ WF_startupVars(Next)

-----------------------------------------------------------------------------
(* Properties                                                               *)

\* The option at place i of the command line is one that connects.
Connects(i) == parsed[i].server \in {"video", "control"} /\ parsed[i].source = "vrep"

\* Whatever the options and their order, what main starts is what was asked
\* for: a thread finds its trie built and the functions of the option that
\* names it; the picture is flipped exactly when it comes from the simulator;
\* there is one connection if an option needs one, however many do; and a
\* server that uses the simulator has the connected id, but navdata when no
\* option before its own connects (main.c:96): it gets one that nobody set.
Wiring ==
    status = "running" =>
        /\ threads \cap {"ftp", "control"} \subseteq tries
        /\ \A s \in threads \cap Servers :
              \E i \in DOMAIN parsed : parsed[i] = [server |-> s, source |-> source[s]]
        /\ flip_video <=> \E i \in DOMAIN parsed : Connects(i) /\ parsed[i].server = "video"
        /\ connections = IF \E i \in DOMAIN parsed : Connects(i) THEN 1 ELSE 0
        /\ \A i \in DOMAIN parsed : parsed[i].source = "vrep" =>
              client_id[parsed[i].server] =
                  IF \E j \in 1..i : Connects(j) THEN "connected" ELSE "unset"
        /\ stage = "join" =>
              threads = {"ftp", "controlcomm"} \cup
                        {s \in Servers : \E i \in DOMAIN parsed : parsed[i].server = s}
=============================================================================
