-------------------------- MODULE MCDeviceCache ---------------------------
(* Instances of DeviceCache for TLC: the parser with one connection, or    *)
(* the parser and the replay service with one device of the day.           *)
EXTENDS DeviceCache, TLC

CONSTANTS parser, replay, conn, day, i1, i2

ConnServer == conn :> parser
ConnImei   == conn :> i1
DayServer  == day :> replay
DayImei    == day :> i1

WriteFaults == {"insert", "hset", "api"}
=============================================================================
