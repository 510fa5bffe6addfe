------------------------------- MODULE MCH3 --------------------------------
(* HTTP/3 with six clients: one that uploads in two DATA frames and sends  *)
(* trailers and a priority update, two with a longer and an empty DATA     *)
(* frame, one with a QPACK and a reserved stream, one with two requests,   *)
(* and one with a frame that is too long.                                  *)
EXTENDS H3

Frame(type, payload) == <<<<"frame", type>>, <<"len", Len(payload)>>>> \o payload
Headers == Frame("HEADERS", <<<<"h", 0>>>>)
Data(n) == Frame("DATA", [i \in 1 .. n |-> <<"d", 0>>])
Control(frames) == <<<<"stream", "control">>>> \o Frame("SETTINGS", <<>>) \o frames
Other(type) == <<<<"stream", type>>, <<"other", 0>>>>
Stream(units, ends) == [units |-> units, ends |-> ends]

Uploads ==
    0 :> Stream(Headers \o Data(1) \o Data(1) \o Headers, {"fin", "reset"})
 @@ 2 :> Stream(Control(Frame("PRIORITY_UPDATE", <<<<"id", 0>>>>)), {"fin"})
Fills ==
    0 :> Stream(Headers \o Data(2) \o Data(0) \o Data(1), {"fin", "reset"})
Pauses ==
    0 :> Stream(Headers \o Data(0) \o Data(2), {"fin"})
Opens ==
    0 :> Stream(Headers \o Data(0), {"fin"})
 @@ 6 :> Stream(Other("encoder"), {"fin", "reset"})
 @@ 10 :> Stream(Other("grease"), {"fin"})
Asks ==
    0 :> Stream(Headers, {"fin", "reset"})
 @@ 4 :> Stream(Headers, {"fin"})

Bloats ==
    0 :> Stream(Headers \o Frame("reserved", <<<<"other", 0>>, <<"other", 0>>>>), {"fin"})

MCClients == {Uploads, Fills, Pauses, Opens, Asks, Bloats}
============================================================================
