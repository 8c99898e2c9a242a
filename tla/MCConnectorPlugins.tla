------------------------- MODULE MCConnectorPlugins -------------------------
(* The plugins of the RPC flavor, then those of the connectors' flavor. *)
EXTENDS ConnectorPlugins
MCOrder == <<"http", "probe", "prometheus", "grpc", "etcd", "kafka", "redis", "cassandra">>
=============================================================================
