--------------------------- MODULE FailureClasses ---------------------------
(***************************************************************************)
(* What the recovery supervisor makes of a failed attempt                  *)
(* (_transport/mqtt.py, _classify_failure and its helpers): an ordered     *)
(* list of rules over the class of the exception, where the first that     *)
(* matches decides whether to retry, to wait for credentials or to stop.   *)
(* An exception matches the rule of a class it inherits from, so the order *)
(* matters wherever one class is a subclass of another.                    *)
(***************************************************************************)
EXTENDS Integers, Sequences, FiniteSetsExt

(* The classes an attempt may end with, each with the classes it inherits  *)
(* from that some rule asks for.                                           *)
Inherits ==
    [ TransportBoundaryError |-> {"ECNConnectionError", "ECNClientError"},
      DNSResolutionFailure |-> {"MqttError"},
      TCPConnectionFailure |-> {"MqttError"},
      TLSTransportFailure |-> {"MqttError"},
      TLSPeerVerificationFailure |-> {"MqttError"},
      SSLCertVerificationError |-> {"SSLError", "ValueError", "OSError"},
      ConnectionPhaseTimeout |-> {"TimeoutError", "OSError"},
      TLSMaterialLoadTimeout |-> {"ConfigurationError", "ECNClientError"},
      ConfigurationError |-> {"ECNClientError"},
      ValueError |-> {},
      CredentialResolutionTimeout |-> {"AuthenticationError", "ECNClientError"},
      AuthenticationError |-> {"ECNClientError"},
      ECNConnectionError |-> {"ECNClientError"},
      AuthorizationError |-> {"ECNClientError"},
      ResourceLimitError |-> {"ECNClientError"},
      ProtocolError |-> {"ECNClientError"},
      ConnackProtocolFailure |-> {"MqttError"},
      MqttConnectError |-> {"MqttError"},
      gaierror |-> {"OSError"},
      SSLError |-> {"OSError"},
      TimeoutError |-> {"OSError"},
      OSError |-> {},
      MqttError |-> {},
      ECNClientError |-> {} ]

Kinds == DOMAIN Inherits
Is(e, class) == e.kind = class \/ class \in Inherits[e.kind]

(* The operation of an error (mqtt.connect, mqtt.receive, ...), or the     *)
(* phase of a timeout; the reason code of a refused CONNECT; whether the   *)
(* error is about a CONNACK.                                               *)
Phases == {"resolve_credentials", "configure", "dns", "tcp", "tls", "connect"}
Operations == {"connect", "receive", "subscribe", "restore_subscription"}
NoReason == -1
Plain(k) == [kind |-> k, op |-> "connect", rc |-> NoReason, connack |-> FALSE]

AuthenticationRejected == {134}
AuthorizationDenied == {135, 138}
ConfigurationInvalid == {133, 140}
ConnectionRejected == {128, 131}
BrokerUnavailable == {136}
ServerBusy == {137, 159}
ResourceLimit == {151}
ConnackProtocol == {129, 130, 132, 144, 149, 153, 154, 155}
ServerReference == {156, 157}

Transient == {"dns_unavailable", "tcp_unavailable", "tls_unavailable",
              "broker_unavailable", "server_busy", "connection_lost"}

Retried(code, operation) ==
    [code |-> code, operation |-> operation, terminal |-> FALSE,
     waiting |-> FALSE, immediate |-> FALSE, print |-> <<>>]
Final(code, operation) == [Retried(code, operation) EXCEPT !.terminal = TRUE]

PhaseTimeout(phase, terminal) ==
    IF phase = "resolve_credentials" THEN Final("credentials_unavailable", phase)
    ELSE IF phase = "configure" THEN Final("configuration_invalid", phase)
    ELSE [Retried(CASE phase = "dns" -> "dns_unavailable"
                    [] phase = "tcp" -> "tcp_unavailable"
                    [] phase = "tls" -> "tls_unavailable"
                    [] OTHER -> "broker_unavailable", phase)
          EXCEPT !.terminal = terminal]

Restoring(e) == e.op = "restore_subscription"
Subscribing(e) == e.op \in {"subscribe", "restore_subscription"}
Rejects(e) == e.kind = "MqttConnectError" /\ e.rc \in AuthenticationRejected
Refers(e) == e.kind = "MqttConnectError" /\ e.rc \in ServerReference

(* A CONNECT refused for its credentials: terminal unless the transport    *)
(* was ready before; then one immediate retry, then wait for new ones.     *)
Unauthenticated(everReady, retryUsed) ==
    IF ~everReady THEN Final("authentication_rejected", "connect")
    ELSE [Retried("authentication_rejected", "connect")
          EXCEPT !.waiting = TRUE, !.immediate = ~retryUsed]

Refused(e, everReady, retryUsed) ==
    CASE Rejects(e) -> Unauthenticated(everReady, retryUsed)
      [] e.rc \in AuthorizationDenied -> Final("connection_authorization_denied", "connect")
      [] e.rc \in ConfigurationInvalid -> Final("configuration_invalid", "configure")
      [] e.rc \in ConnectionRejected -> Final("connection_rejected", "connect")
      [] e.rc \in ServerBusy -> Retried("server_busy", "connect")
      [] e.rc \in BrokerUnavailable -> Retried("broker_unavailable", "connect")
      [] e.rc \in ResourceLimit -> Final("connection_resource_limit", "connect")
      [] OTHER -> [Final("protocol_failure", "connect") EXCEPT !.print = <<"connack", e.rc>>]

Unprotocolled(e) ==
    LET atConnack == e.op = "connect" /\ e.connack IN
    [Retried("protocol_failure",
             IF Subscribing(e) THEN "restore_subscription"
             ELSE IF atConnack THEN "connect" ELSE "receive")
     EXCEPT !.terminal = atConnack, !.print = <<"protocol_error", e.op>>]

(* The rules in the order of the code.                                     *)
Rules(e, everReady, retryUsed, wasReady) ==
    << [if |-> Refers(e), then |-> Final("server_reference_requires_review", "connect")],
       [if |-> Is(e, "TransportBoundaryError"),
        then |-> [Retried("dns_unavailable", "dns") EXCEPT !.terminal = ~everReady]],
       [if |-> Is(e, "DNSResolutionFailure"), then |-> Retried("dns_unavailable", "dns")],
       [if |-> Is(e, "TCPConnectionFailure"), then |-> Retried("tcp_unavailable", "tcp")],
       [if |-> Is(e, "TLSTransportFailure"), then |-> Retried("tls_unavailable", "tls")],
       [if |-> Is(e, "SSLCertVerificationError") \/ Is(e, "TLSPeerVerificationFailure"),
        then |-> Final("tls_peer_verification_failed", "tls")],
       [if |-> Is(e, "ConnectionPhaseTimeout"), then |-> PhaseTimeout(e.op, FALSE)],
       [if |-> Is(e, "TLSMaterialLoadTimeout"),
        then |-> Final("configuration_invalid", "resolve_credentials")],
       [if |-> Is(e, "ConfigurationError")
               \/ (Is(e, "ValueError") /\ ~Is(e, "AuthenticationError")),
        then |-> Final("configuration_invalid", "configure")],
       [if |-> Is(e, "AuthenticationError"),
        then |-> Final("credentials_unavailable", "resolve_credentials")],
       [if |-> Is(e, "ECNConnectionError") /\ Restoring(e),
        then |-> Retried("broker_unavailable", "restore_subscription")],
       [if |-> Is(e, "AuthorizationError"),
        then |-> Final("subscription_denied", "restore_subscription")],
       [if |-> Is(e, "ResourceLimitError") /\ Subscribing(e),
        then |-> Final("subscription_resource_limit", "restore_subscription")],
       [if |-> Is(e, "ProtocolError"), then |-> Unprotocolled(e)],
       [if |-> Is(e, "ConnackProtocolFailure"),
        then |-> [Final("protocol_failure", "connect") EXCEPT !.print = <<"connack", e.rc>>]],
       [if |-> Is(e, "MqttConnectError"), then |-> Refused(e, everReady, retryUsed)],
       [if |-> Is(e, "gaierror"), then |-> Retried("dns_unavailable", "dns")],
       [if |-> Is(e, "SSLError"), then |-> Retried("tls_unavailable", "tls")],
       [if |-> Is(e, "TimeoutError"), then |-> Retried("broker_unavailable", "connect")],
       [if |-> Is(e, "OSError"), then |-> Retried("tcp_unavailable", "tcp")],
       [if |-> Is(e, "ECNConnectionError") /\ e.op = "receive",
        then |-> Retried("connection_lost", "receive")],
       [if |-> Is(e, "MqttError"),
        then |-> IF wasReady THEN Retried("connection_lost", "receive")
                 ELSE Retried("broker_unavailable", "connect")],
       [if |-> TRUE, then |-> Retried("broker_unavailable", "connect")] >>

Classify(e, everReady, retryUsed, wasReady) ==
    LET rules == Rules(e, everReady, retryUsed, wasReady) IN
    rules[Min({i \in DOMAIN rules : rules[i].if})].then

(* _apply_protocol_failure_limit: how many equal protocol failures there   *)
(* were in a row; the third is final.                                      *)
Streak(c, print, prints) ==
    IF c.code # "protocol_failure" THEN 0 ELSE IF c.print = print THEN prints + 1 ELSE 1
Limited(c, print, prints) ==
    IF Streak(c, print, prints) >= 3 THEN Final(c.code, c.operation) ELSE c

(* _budget_exhaustion_classification: transient failures run out, others   *)
(* keep their code.                                                        *)
OutOfBudget(code) ==
    Final(IF code \in Transient \cup {"none"} THEN "retry_exhausted" ELSE code, "connect")
=============================================================================
