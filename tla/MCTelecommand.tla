--------------------------- MODULE MCTelecommand ---------------------------
(* Telecommand with the payloads a ground operator can produce: the        *)
(* commands in the layout the handler decodes, one of each branch; the     *)
(* layouts the mission database encodes where they differ; base commands   *)
(* that stop after N; and headers whose PUS version is not 1.              *)
EXTENDS Telecommand

(* PUS version 1, acceptance and completion requested, source 0.           *)
Tc(service, subtype, fields) == <<25, service, subtype, 0, 0>> \o fields

PowerCommands ==
    {Tc(2, 1, <<1, 0, 0, 0, address>>) : address \in 0..3}

DeviceCommands ==
    {Tc(2, 7, <<0, 1, device[1], device[2], 0, device[3]>>) :
        device \in {<<2, 0, 0>>, <<2, 1, 0>>, <<5, 0, 9>>, <<5, 1, 0>>,
                    <<5, 3, 0>>, <<7, 0, 1>>, <<7, 0, 3>>, <<7, 0, 4>>,
                    <<7, 2, 0>>, <<7, 5, 0>>, <<9, 0, 0>>}}
    \cup {Tc(2, 7, <<0, 2, 7, 0, 0, 1>>)}

FlagCommands ==
    {Tc(3, 5, <<0, 1, 0, sid>>) : sid \in {1, 2}}
    \cup {Tc(3, 6, <<0, 1, 0, 1>>)}
    \cup {Tc(5, 5, <<0, 1, 0, id>>) : id \in {1, 2}}
    \cup {Tc(5, 6, <<0, 1, 0, 1>>)}

(* The mission database's TC[3,5] (one-byte N, four-byte SID) and its base *)
(* commands, which carry nothing after N.                                  *)
DatabaseCommands ==
    {Tc(3, 5, <<1, 0, 0, 0, 1>>), Tc(3, 5, <<1>>), Tc(5, 5, <<1>>),
     Tc(2, 7, <<1>>)}

OtherCommands ==
    {Tc(17, 1, <<>>), Tc(17, 3, <<>>), Tc(23, 1, <<>>), Tc(2, 2, <<1>>),
     Tc(3, 1, <<>>), Tc(5, 1, <<>>), Tc(8, 1, <<>>),
     <<16, 17, 1, 0, 0>>, <<41, 17, 1, 0, 0>>,
     <<41, 3, 5, 0, 0, 0, 1, 0, 1>>}

MCCommands == PowerCommands \cup DeviceCommands \cup FlagCommands
              \cup DatabaseCommands \cup OtherCommands
=============================================================================
