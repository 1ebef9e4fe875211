------------------------- MODULE MC_ClientLifecycle -------------------------
(* One error of every consequence in the phase where it comes: retried,    *)
(* waiting for credentials, final, counted as a protocol failure.          *)
EXTENDS ClientLifecycle

Op(k, op) == [Plain(k) EXCEPT !.op = op]
MCFails ==
    [resolve |-> {Plain("AuthenticationError")},
     tls |-> {Plain("ConfigurationError")},
     connect |-> {Plain("TCPConnectionFailure"),
                  [Plain("MqttConnectError") EXCEPT !.rc = 134]},
     restoring |-> {Op("ECNConnectionError", "restore_subscription")},
     serving |-> {Op("ECNConnectionError", "receive"), Op("ProtocolError", "receive")}]
=============================================================================
