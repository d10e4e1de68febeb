----------------------------- MODULE AmqpMethods -----------------------------
(* The methods of AMQP 0-9-1 as rabbitmq-c has them: the structs of           *)
(* framing.h, the order in which amqp_framing.c writes their fields and reads *)
(* them back, the content properties, and the requests behind the functions   *)
(* a client calls.  The three tables are translated separately, each from its *)
(* own part of the library; AmqpCodec checks that they agree.                 *)
EXTENDS AmqpTable, FiniteSets, TLC

------------------------------------------------------------------------------
(* The structs: the fields of each method and their types. *)

StructConnectionHandshake ==
  [connection_start |-> [version_major |-> "uint8", version_minor |-> "uint8",
      server_properties |-> "table", mechanisms |-> "bytes", locales |-> "bytes"],
   connection_start_ok |-> [client_properties |-> "table", mechanism |-> "bytes",
      response |-> "bytes", locale |-> "bytes"],
   connection_secure |-> [challenge |-> "bytes"],
   connection_secure_ok |-> [response |-> "bytes"]]

StructConnectionOpen ==
  [connection_tune |-> [channel_max |-> "uint16", frame_max |-> "uint32", heartbeat |-> "uint16"],
   connection_tune_ok |-> [channel_max |-> "uint16", frame_max |-> "uint32",
      heartbeat |-> "uint16"],
   connection_open |-> [virtual_host |-> "bytes", capabilities |-> "bytes", insist |-> "boolean"],
   connection_open_ok |-> [known_hosts |-> "bytes"]]

StructConnectionClose ==
  [connection_close |-> [reply_code |-> "uint16", reply_text |-> "bytes", class_id |-> "uint16",
      method_id |-> "uint16"],
   connection_close_ok |-> <<>>,
   connection_blocked |-> [reason |-> "bytes"],
   connection_unblocked |-> <<>>,
   connection_update_secret |-> [new_secret |-> "bytes", reason |-> "bytes"],
   connection_update_secret_ok |-> <<>>]

StructChannel ==
  [channel_open |-> [out_of_band |-> "bytes"],
   channel_open_ok |-> [channel_id |-> "bytes"],
   channel_flow |-> [active |-> "boolean"],
   channel_flow_ok |-> [active |-> "boolean"],
   channel_close |-> [reply_code |-> "uint16", reply_text |-> "bytes", class_id |-> "uint16",
      method_id |-> "uint16"],
   channel_close_ok |-> <<>>]

StructAccess ==
  [access_request |-> [realm |-> "bytes", exclusive |-> "boolean", passive |-> "boolean",
      active |-> "boolean", write |-> "boolean", read |-> "boolean"],
   access_request_ok |-> [ticket |-> "uint16"]]

StructExchange ==
  [exchange_declare |-> [ticket |-> "uint16", exchange |-> "bytes", type |-> "bytes",
      passive |-> "boolean", durable |-> "boolean", auto_delete |-> "boolean",
      internal |-> "boolean", nowait |-> "boolean", arguments |-> "table"],
   exchange_declare_ok |-> <<>>,
   exchange_delete |-> [ticket |-> "uint16", exchange |-> "bytes", if_unused |-> "boolean",
      nowait |-> "boolean"],
   exchange_delete_ok |-> <<>>]

StructExchangeBind ==
  [exchange_bind |-> [ticket |-> "uint16", destination |-> "bytes", source |-> "bytes",
      routing_key |-> "bytes", nowait |-> "boolean", arguments |-> "table"],
   exchange_bind_ok |-> <<>>,
   exchange_unbind |-> [ticket |-> "uint16", destination |-> "bytes", source |-> "bytes",
      routing_key |-> "bytes", nowait |-> "boolean", arguments |-> "table"],
   exchange_unbind_ok |-> <<>>]

StructQueueDeclare ==
  [queue_declare |-> [ticket |-> "uint16", queue |-> "bytes", passive |-> "boolean",
      durable |-> "boolean", exclusive |-> "boolean", auto_delete |-> "boolean",
      nowait |-> "boolean", arguments |-> "table"],
   queue_declare_ok |-> [queue |-> "bytes", message_count |-> "uint32",
      consumer_count |-> "uint32"],
   queue_bind |-> [ticket |-> "uint16", queue |-> "bytes", exchange |-> "bytes",
      routing_key |-> "bytes", nowait |-> "boolean", arguments |-> "table"],
   queue_bind_ok |-> <<>>]

StructQueueDelete ==
  [queue_purge |-> [ticket |-> "uint16", queue |-> "bytes", nowait |-> "boolean"],
   queue_purge_ok |-> [message_count |-> "uint32"],
   queue_delete |-> [ticket |-> "uint16", queue |-> "bytes", if_unused |-> "boolean",
      if_empty |-> "boolean", nowait |-> "boolean"],
   queue_delete_ok |-> [message_count |-> "uint32"],
   queue_unbind |-> [ticket |-> "uint16", queue |-> "bytes", exchange |-> "bytes",
      routing_key |-> "bytes", arguments |-> "table"],
   queue_unbind_ok |-> <<>>]

StructBasicConsume ==
  [basic_qos |-> [prefetch_size |-> "uint32", prefetch_count |-> "uint16", global |-> "boolean"],
   basic_qos_ok |-> <<>>,
   basic_consume |-> [ticket |-> "uint16", queue |-> "bytes", consumer_tag |-> "bytes",
      no_local |-> "boolean", no_ack |-> "boolean", exclusive |-> "boolean", nowait |-> "boolean",
      arguments |-> "table"],
   basic_consume_ok |-> [consumer_tag |-> "bytes"],
   basic_cancel |-> [consumer_tag |-> "bytes", nowait |-> "boolean"],
   basic_cancel_ok |-> [consumer_tag |-> "bytes"]]

StructBasicDeliver ==
  [basic_publish |-> [ticket |-> "uint16", exchange |-> "bytes", routing_key |-> "bytes",
      mandatory |-> "boolean", immediate |-> "boolean"],
   basic_return |-> [reply_code |-> "uint16", reply_text |-> "bytes", exchange |-> "bytes",
      routing_key |-> "bytes"],
   basic_deliver |-> [consumer_tag |-> "bytes", delivery_tag |-> "uint64",
      redelivered |-> "boolean", exchange |-> "bytes", routing_key |-> "bytes"]]

StructBasicGet ==
  [basic_get |-> [ticket |-> "uint16", queue |-> "bytes", no_ack |-> "boolean"],
   basic_get_ok |-> [delivery_tag |-> "uint64", redelivered |-> "boolean", exchange |-> "bytes",
      routing_key |-> "bytes", message_count |-> "uint32"],
   basic_get_empty |-> [cluster_id |-> "bytes"]]

StructBasicAck ==
  [basic_ack |-> [delivery_tag |-> "uint64", multiple |-> "boolean"],
   basic_reject |-> [delivery_tag |-> "uint64", requeue |-> "boolean"],
   basic_recover_async |-> [requeue |-> "boolean"],
   basic_recover |-> [requeue |-> "boolean"],
   basic_recover_ok |-> <<>>,
   basic_nack |-> [delivery_tag |-> "uint64", multiple |-> "boolean", requeue |-> "boolean"]]

StructTx ==
  [tx_select |-> <<>>,
   tx_select_ok |-> <<>>,
   tx_commit |-> <<>>,
   tx_commit_ok |-> <<>>,
   tx_rollback |-> <<>>,
   tx_rollback_ok |-> <<>>]

StructConfirm ==
  [confirm_select |-> [nowait |-> "boolean"],
   confirm_select_ok |-> <<>>]

MethodNumber ==
  [connection_start |-> <<10, 10>>, connection_start_ok |-> <<10, 11>>,
   connection_secure |-> <<10, 20>>, connection_secure_ok |-> <<10, 21>>,
   connection_tune |-> <<10, 30>>, connection_tune_ok |-> <<10, 31>>,
   connection_open |-> <<10, 40>>, connection_open_ok |-> <<10, 41>>,
   connection_close |-> <<10, 50>>, connection_close_ok |-> <<10, 51>>,
   connection_blocked |-> <<10, 60>>, connection_unblocked |-> <<10, 61>>,
   connection_update_secret |-> <<10, 70>>, connection_update_secret_ok |-> <<10, 71>>,
   channel_open |-> <<20, 10>>, channel_open_ok |-> <<20, 11>>, channel_flow |-> <<20, 20>>,
   channel_flow_ok |-> <<20, 21>>, channel_close |-> <<20, 40>>, channel_close_ok |-> <<20, 41>>,
   access_request |-> <<30, 10>>, access_request_ok |-> <<30, 11>>,
   exchange_declare |-> <<40, 10>>, exchange_declare_ok |-> <<40, 11>>,
   exchange_delete |-> <<40, 20>>, exchange_delete_ok |-> <<40, 21>>,
   exchange_bind |-> <<40, 30>>, exchange_bind_ok |-> <<40, 31>>, exchange_unbind |-> <<40, 40>>,
   exchange_unbind_ok |-> <<40, 51>>, queue_declare |-> <<50, 10>>,
   queue_declare_ok |-> <<50, 11>>, queue_bind |-> <<50, 20>>, queue_bind_ok |-> <<50, 21>>,
   queue_purge |-> <<50, 30>>, queue_purge_ok |-> <<50, 31>>, queue_delete |-> <<50, 40>>,
   queue_delete_ok |-> <<50, 41>>, queue_unbind |-> <<50, 50>>, queue_unbind_ok |-> <<50, 51>>,
   basic_qos |-> <<60, 10>>, basic_qos_ok |-> <<60, 11>>, basic_consume |-> <<60, 20>>,
   basic_consume_ok |-> <<60, 21>>, basic_cancel |-> <<60, 30>>, basic_cancel_ok |-> <<60, 31>>,
   basic_publish |-> <<60, 40>>, basic_return |-> <<60, 50>>, basic_deliver |-> <<60, 60>>,
   basic_get |-> <<60, 70>>, basic_get_ok |-> <<60, 71>>, basic_get_empty |-> <<60, 72>>,
   basic_ack |-> <<60, 80>>, basic_reject |-> <<60, 90>>, basic_recover_async |-> <<60, 100>>,
   basic_recover |-> <<60, 110>>, basic_recover_ok |-> <<60, 111>>, basic_nack |-> <<60, 120>>,
   tx_select |-> <<90, 10>>, tx_select_ok |-> <<90, 11>>, tx_commit |-> <<90, 20>>,
   tx_commit_ok |-> <<90, 21>>, tx_rollback |-> <<90, 30>>, tx_rollback_ok |-> <<90, 31>>,
   confirm_select |-> <<85, 10>>, confirm_select_ok |-> <<85, 11>>]

Struct == StructConnectionHandshake @@ StructConnectionOpen @@ StructConnectionClose @@
      StructChannel @@ StructAccess @@ StructExchange @@ StructExchangeBind @@
      StructQueueDeclare @@ StructQueueDelete @@ StructBasicConsume @@ StructBasicDeliver @@
      StructBasicGet @@ StructBasicAck @@ StructTx @@ StructConfirm

Methods == DOMAIN Struct

------------------------------------------------------------------------------
(* The layouts: the items of a method on the wire, in order. *)

Octet(f) == [as |-> "octet", of |-> f]
Short(f) == [as |-> "short", of |-> f]
Long(f) == [as |-> "long", of |-> f]
LongLong(f) == [as |-> "longlong", of |-> f]
ShortStr(f) == [as |-> "shortstr", of |-> f]
LongStr(f) == [as |-> "longstr", of |-> f]
Table(f) == [as |-> "table", of |-> f]
\* Flags share an octet, the first in its lowest bit.
Bits(fs) == [as |-> "bits", of |-> fs]

(* Written by amqp_encode_method. *)

EncodeConnectionHandshake ==
  [connection_start |-> <<Octet("version_major"), Octet("version_minor"),
      Table("server_properties"), LongStr("mechanisms"), LongStr("locales")>>,
   connection_start_ok |-> <<Table("client_properties"), ShortStr("mechanism"), LongStr("response"),
      ShortStr("locale")>>,
   connection_secure |-> <<LongStr("challenge")>>,
   connection_secure_ok |-> <<LongStr("response")>>]

EncodeConnectionOpen ==
  [connection_tune |-> <<Short("channel_max"), Long("frame_max"), Short("heartbeat")>>,
   connection_tune_ok |-> <<Short("channel_max"), Long("frame_max"), Short("heartbeat")>>,
   connection_open |-> <<ShortStr("virtual_host"), ShortStr("capabilities"), Bits(<<"insist">>)>>,
   connection_open_ok |-> <<ShortStr("known_hosts")>>]

EncodeConnectionClose ==
  [connection_close |-> <<Short("reply_code"), ShortStr("reply_text"), Short("class_id"),
      Short("method_id")>>,
   connection_close_ok |-> <<>>,
   connection_blocked |-> <<ShortStr("reason")>>,
   connection_unblocked |-> <<>>,
   connection_update_secret |-> <<LongStr("new_secret"), ShortStr("reason")>>,
   connection_update_secret_ok |-> <<>>]

EncodeChannel ==
  [channel_open |-> <<ShortStr("out_of_band")>>,
   channel_open_ok |-> <<LongStr("channel_id")>>,
   channel_flow |-> <<Bits(<<"active">>)>>,
   channel_flow_ok |-> <<Bits(<<"active">>)>>,
   channel_close |-> <<Short("reply_code"), ShortStr("reply_text"), Short("class_id"),
      Short("method_id")>>,
   channel_close_ok |-> <<>>]

EncodeAccess ==
  [access_request |-> <<ShortStr("realm"),
      Bits(<<"exclusive", "passive", "active", "write", "read">>)>>,
   access_request_ok |-> <<Short("ticket")>>]

EncodeExchange ==
  [exchange_declare |-> <<Short("ticket"), ShortStr("exchange"), ShortStr("type"),
      Bits(<<"passive", "durable", "auto_delete", "internal", "nowait">>), Table("arguments")>>,
   exchange_declare_ok |-> <<>>,
   exchange_delete |-> <<Short("ticket"), ShortStr("exchange"), Bits(<<"if_unused", "nowait">>)>>,
   exchange_delete_ok |-> <<>>]

EncodeExchangeBind ==
  [exchange_bind |-> <<Short("ticket"), ShortStr("destination"), ShortStr("source"),
      ShortStr("routing_key"), Bits(<<"nowait">>), Table("arguments")>>,
   exchange_bind_ok |-> <<>>,
   exchange_unbind |-> <<Short("ticket"), ShortStr("destination"), ShortStr("source"),
      ShortStr("routing_key"), Bits(<<"nowait">>), Table("arguments")>>,
   exchange_unbind_ok |-> <<>>]

EncodeQueueDeclare ==
  [queue_declare |-> <<Short("ticket"), ShortStr("queue"),
      Bits(<<"passive", "durable", "exclusive", "auto_delete", "nowait">>), Table("arguments")>>,
   queue_declare_ok |-> <<ShortStr("queue"), Long("message_count"), Long("consumer_count")>>,
   queue_bind |-> <<Short("ticket"), ShortStr("queue"), ShortStr("exchange"),
      ShortStr("routing_key"), Bits(<<"nowait">>), Table("arguments")>>,
   queue_bind_ok |-> <<>>]

EncodeQueueDelete ==
  [queue_purge |-> <<Short("ticket"), ShortStr("queue"), Bits(<<"nowait">>)>>,
   queue_purge_ok |-> <<Long("message_count")>>,
   queue_delete |-> <<Short("ticket"), ShortStr("queue"),
      Bits(<<"if_unused", "if_empty", "nowait">>)>>,
   queue_delete_ok |-> <<Long("message_count")>>,
   queue_unbind |-> <<Short("ticket"), ShortStr("queue"), ShortStr("exchange"),
      ShortStr("routing_key"), Table("arguments")>>,
   queue_unbind_ok |-> <<>>]

EncodeBasicConsume ==
  [basic_qos |-> <<Long("prefetch_size"), Short("prefetch_count"), Bits(<<"global">>)>>,
   basic_qos_ok |-> <<>>,
   basic_consume |-> <<Short("ticket"), ShortStr("queue"), ShortStr("consumer_tag"),
      Bits(<<"no_local", "no_ack", "exclusive", "nowait">>), Table("arguments")>>,
   basic_consume_ok |-> <<ShortStr("consumer_tag")>>,
   basic_cancel |-> <<ShortStr("consumer_tag"), Bits(<<"nowait">>)>>,
   basic_cancel_ok |-> <<ShortStr("consumer_tag")>>]

EncodeBasicDeliver ==
  [basic_publish |-> <<Short("ticket"), ShortStr("exchange"), ShortStr("routing_key"),
      Bits(<<"mandatory", "immediate">>)>>,
   basic_return |-> <<Short("reply_code"), ShortStr("reply_text"), ShortStr("exchange"),
      ShortStr("routing_key")>>,
   basic_deliver |-> <<ShortStr("consumer_tag"), LongLong("delivery_tag"), Bits(<<"redelivered">>),
      ShortStr("exchange"), ShortStr("routing_key")>>]

EncodeBasicGet ==
  [basic_get |-> <<Short("ticket"), ShortStr("queue"), Bits(<<"no_ack">>)>>,
   basic_get_ok |-> <<LongLong("delivery_tag"), Bits(<<"redelivered">>), ShortStr("exchange"),
      ShortStr("routing_key"), Long("message_count")>>,
   basic_get_empty |-> <<ShortStr("cluster_id")>>]

EncodeBasicAck ==
  [basic_ack |-> <<LongLong("delivery_tag"), Bits(<<"multiple">>)>>,
   basic_reject |-> <<LongLong("delivery_tag"), Bits(<<"requeue">>)>>,
   basic_recover_async |-> <<Bits(<<"requeue">>)>>,
   basic_recover |-> <<Bits(<<"requeue">>)>>,
   basic_recover_ok |-> <<>>,
   basic_nack |-> <<LongLong("delivery_tag"), Bits(<<"multiple", "requeue">>)>>]

EncodeTx ==
  [tx_select |-> <<>>,
   tx_select_ok |-> <<>>,
   tx_commit |-> <<>>,
   tx_commit_ok |-> <<>>,
   tx_rollback |-> <<>>,
   tx_rollback_ok |-> <<>>]

EncodeConfirm ==
  [confirm_select |-> <<Bits(<<"nowait">>)>>,
   confirm_select_ok |-> <<>>]

EncodeLayout == EncodeConnectionHandshake @@ EncodeConnectionOpen @@ EncodeConnectionClose @@
      EncodeChannel @@ EncodeAccess @@ EncodeExchange @@ EncodeExchangeBind @@
      EncodeQueueDeclare @@ EncodeQueueDelete @@ EncodeBasicConsume @@ EncodeBasicDeliver @@
      EncodeBasicGet @@ EncodeBasicAck @@ EncodeTx @@ EncodeConfirm

(* Read by amqp_decode_method. *)

DecodeConnectionHandshake ==
  [connection_start |-> <<Octet("version_major"), Octet("version_minor"),
      Table("server_properties"), LongStr("mechanisms"), LongStr("locales")>>,
   connection_start_ok |-> <<Table("client_properties"), ShortStr("mechanism"), LongStr("response"),
      ShortStr("locale")>>,
   connection_secure |-> <<LongStr("challenge")>>,
   connection_secure_ok |-> <<LongStr("response")>>]

DecodeConnectionOpen ==
  [connection_tune |-> <<Short("channel_max"), Long("frame_max"), Short("heartbeat")>>,
   connection_tune_ok |-> <<Short("channel_max"), Long("frame_max"), Short("heartbeat")>>,
   connection_open |-> <<ShortStr("virtual_host"), ShortStr("capabilities"), Bits(<<"insist">>)>>,
   connection_open_ok |-> <<ShortStr("known_hosts")>>]

DecodeConnectionClose ==
  [connection_close |-> <<Short("reply_code"), ShortStr("reply_text"), Short("class_id"),
      Short("method_id")>>,
   connection_close_ok |-> <<>>,
   connection_blocked |-> <<ShortStr("reason")>>,
   connection_unblocked |-> <<>>,
   connection_update_secret |-> <<LongStr("new_secret"), ShortStr("reason")>>,
   connection_update_secret_ok |-> <<>>]

DecodeChannel ==
  [channel_open |-> <<ShortStr("out_of_band")>>,
   channel_open_ok |-> <<LongStr("channel_id")>>,
   channel_flow |-> <<Bits(<<"active">>)>>,
   channel_flow_ok |-> <<Bits(<<"active">>)>>,
   channel_close |-> <<Short("reply_code"), ShortStr("reply_text"), Short("class_id"),
      Short("method_id")>>,
   channel_close_ok |-> <<>>]

DecodeAccess ==
  [access_request |-> <<ShortStr("realm"),
      Bits(<<"exclusive", "passive", "active", "write", "read">>)>>,
   access_request_ok |-> <<Short("ticket")>>]

DecodeExchange ==
  [exchange_declare |-> <<Short("ticket"), ShortStr("exchange"), ShortStr("type"),
      Bits(<<"passive", "durable", "auto_delete", "internal", "nowait">>), Table("arguments")>>,
   exchange_declare_ok |-> <<>>,
   exchange_delete |-> <<Short("ticket"), ShortStr("exchange"), Bits(<<"if_unused", "nowait">>)>>,
   exchange_delete_ok |-> <<>>]

\* Mutant: source and destination are read in the wrong order.
DecodeExchangeBindSwapped ==
  LET Layout == <<Short("ticket"), ShortStr("source"), ShortStr("destination"),
                  ShortStr("routing_key"), Bits(<<"nowait">>), Table("arguments")>>
  IN  [exchange_bind |-> Layout, exchange_bind_ok |-> <<>>,
       exchange_unbind |-> Layout, exchange_unbind_ok |-> <<>>]

DecodeExchangeBind ==
  [exchange_bind |-> <<Short("ticket"), ShortStr("destination"), ShortStr("source"),
      ShortStr("routing_key"), Bits(<<"nowait">>), Table("arguments")>>,
   exchange_bind_ok |-> <<>>,
   exchange_unbind |-> <<Short("ticket"), ShortStr("destination"), ShortStr("source"),
      ShortStr("routing_key"), Bits(<<"nowait">>), Table("arguments")>>,
   exchange_unbind_ok |-> <<>>]

DecodeQueueDeclare ==
  [queue_declare |-> <<Short("ticket"), ShortStr("queue"),
      Bits(<<"passive", "durable", "exclusive", "auto_delete", "nowait">>), Table("arguments")>>,
   queue_declare_ok |-> <<ShortStr("queue"), Long("message_count"), Long("consumer_count")>>,
   queue_bind |-> <<Short("ticket"), ShortStr("queue"), ShortStr("exchange"),
      ShortStr("routing_key"), Bits(<<"nowait">>), Table("arguments")>>,
   queue_bind_ok |-> <<>>]

DecodeQueueDelete ==
  [queue_purge |-> <<Short("ticket"), ShortStr("queue"), Bits(<<"nowait">>)>>,
   queue_purge_ok |-> <<Long("message_count")>>,
   queue_delete |-> <<Short("ticket"), ShortStr("queue"),
      Bits(<<"if_unused", "if_empty", "nowait">>)>>,
   queue_delete_ok |-> <<Long("message_count")>>,
   queue_unbind |-> <<Short("ticket"), ShortStr("queue"), ShortStr("exchange"),
      ShortStr("routing_key"), Table("arguments")>>,
   queue_unbind_ok |-> <<>>]

DecodeBasicConsume ==
  [basic_qos |-> <<Long("prefetch_size"), Short("prefetch_count"), Bits(<<"global">>)>>,
   basic_qos_ok |-> <<>>,
   basic_consume |-> <<Short("ticket"), ShortStr("queue"), ShortStr("consumer_tag"),
      Bits(<<"no_local", "no_ack", "exclusive", "nowait">>), Table("arguments")>>,
   basic_consume_ok |-> <<ShortStr("consumer_tag")>>,
   basic_cancel |-> <<ShortStr("consumer_tag"), Bits(<<"nowait">>)>>,
   basic_cancel_ok |-> <<ShortStr("consumer_tag")>>]

DecodeBasicDeliver ==
  [basic_publish |-> <<Short("ticket"), ShortStr("exchange"), ShortStr("routing_key"),
      Bits(<<"mandatory", "immediate">>)>>,
   basic_return |-> <<Short("reply_code"), ShortStr("reply_text"), ShortStr("exchange"),
      ShortStr("routing_key")>>,
   basic_deliver |-> <<ShortStr("consumer_tag"), LongLong("delivery_tag"), Bits(<<"redelivered">>),
      ShortStr("exchange"), ShortStr("routing_key")>>]

DecodeBasicGet ==
  [basic_get |-> <<Short("ticket"), ShortStr("queue"), Bits(<<"no_ack">>)>>,
   basic_get_ok |-> <<LongLong("delivery_tag"), Bits(<<"redelivered">>), ShortStr("exchange"),
      ShortStr("routing_key"), Long("message_count")>>,
   basic_get_empty |-> <<ShortStr("cluster_id")>>]

DecodeBasicAck ==
  [basic_ack |-> <<LongLong("delivery_tag"), Bits(<<"multiple">>)>>,
   basic_reject |-> <<LongLong("delivery_tag"), Bits(<<"requeue">>)>>,
   basic_recover_async |-> <<Bits(<<"requeue">>)>>,
   basic_recover |-> <<Bits(<<"requeue">>)>>,
   basic_recover_ok |-> <<>>,
   basic_nack |-> <<LongLong("delivery_tag"), Bits(<<"multiple", "requeue">>)>>]

DecodeTx ==
  [tx_select |-> <<>>,
   tx_select_ok |-> <<>>,
   tx_commit |-> <<>>,
   tx_commit_ok |-> <<>>,
   tx_rollback |-> <<>>,
   tx_rollback_ok |-> <<>>]

DecodeConfirm ==
  [confirm_select |-> <<Bits(<<"nowait">>)>>,
   confirm_select_ok |-> <<>>]

DecodeLayout == DecodeConnectionHandshake @@ DecodeConnectionOpen @@ DecodeConnectionClose @@
      DecodeChannel @@ DecodeAccess @@ DecodeExchange @@ DecodeExchangeBind @@
      DecodeQueueDeclare @@ DecodeQueueDelete @@ DecodeBasicConsume @@ DecodeBasicDeliver @@
      DecodeBasicGet @@ DecodeBasicAck @@ DecodeTx @@ DecodeConfirm

------------------------------------------------------------------------------
(* The client functions: a request whose fields are arguments of the call or  *)
(* fixed, and the replies the call waits for.                                 *)

Rpc(request, replies, args, fixed) ==
  [request |-> request, replies |-> replies, args |-> args, fixed |-> fixed]

ConnectionCalls ==
  [connection_update_secret |-> Rpc("connection_update_secret", {"connection_update_secret_ok"},
      {"new_secret", "reason"}, <<>>),
   channel_open |-> Rpc("channel_open", {"channel_open_ok"}, {}, [out_of_band |-> <<>>]),
   channel_flow |-> Rpc("channel_flow", {"channel_flow_ok"}, {"active"}, <<>>)]

ExchangeCalls ==
  [exchange_declare |-> Rpc("exchange_declare", {"exchange_declare_ok"},
      {"exchange", "type", "passive", "durable", "auto_delete", "internal", "arguments"},
      [ticket |-> 0, nowait |-> FALSE]),
   exchange_delete |-> Rpc("exchange_delete", {"exchange_delete_ok"}, {"exchange", "if_unused"},
      [ticket |-> 0, nowait |-> FALSE]),
   exchange_bind |-> Rpc("exchange_bind", {"exchange_bind_ok"},
      {"destination", "source", "routing_key", "arguments"}, [ticket |-> 0, nowait |-> FALSE]),
   exchange_unbind |-> Rpc("exchange_unbind", {"exchange_unbind_ok"},
      {"destination", "source", "routing_key", "arguments"}, [ticket |-> 0, nowait |-> FALSE])]

QueueCalls ==
  [queue_declare |-> Rpc("queue_declare", {"queue_declare_ok"},
      {"queue", "passive", "durable", "exclusive", "auto_delete", "arguments"},
      [ticket |-> 0, nowait |-> FALSE]),
   queue_bind |-> Rpc("queue_bind", {"queue_bind_ok"},
      {"queue", "exchange", "routing_key", "arguments"}, [ticket |-> 0, nowait |-> FALSE]),
   queue_purge |-> Rpc("queue_purge", {"queue_purge_ok"}, {"queue"},
      [ticket |-> 0, nowait |-> FALSE]),
   queue_delete |-> Rpc("queue_delete", {"queue_delete_ok"}, {"queue", "if_unused", "if_empty"},
      [ticket |-> 0, nowait |-> FALSE]),
   queue_unbind |-> Rpc("queue_unbind", {"queue_unbind_ok"},
      {"queue", "exchange", "routing_key", "arguments"}, [ticket |-> 0])]

BasicCalls ==
  [basic_qos |-> Rpc("basic_qos", {"basic_qos_ok"}, {"prefetch_size", "prefetch_count", "global"},
      <<>>),
   basic_consume |-> Rpc("basic_consume", {"basic_consume_ok"},
      {"queue", "consumer_tag", "no_local", "no_ack", "exclusive", "arguments"},
      [ticket |-> 0, nowait |-> FALSE]),
   basic_cancel |-> Rpc("basic_cancel", {"basic_cancel_ok"}, {"consumer_tag"}, [nowait |-> FALSE]),
   basic_recover |-> Rpc("basic_recover", {"basic_recover_ok"}, {"requeue"}, <<>>)]

TxCalls ==
  [tx_select |-> Rpc("tx_select", {"tx_select_ok"}, {}, <<>>),
   tx_commit |-> Rpc("tx_commit", {"tx_commit_ok"}, {}, <<>>),
   tx_rollback |-> Rpc("tx_rollback", {"tx_rollback_ok"}, {}, <<>>),
   confirm_select |-> Rpc("confirm_select", {"confirm_select_ok"}, {}, [nowait |-> FALSE])]

CloseCalls ==
  [channel_close |-> Rpc("channel_close", {"channel_close_ok"}, {"reply_code", "reply_text"},
      [class_id |-> 0, method_id |-> 0]),
   connection_close |-> Rpc("connection_close", {"connection_close_ok"},
      {"reply_code", "reply_text"}, [class_id |-> 0, method_id |-> 0])]

DeliveryCalls ==
  [basic_publish |-> Rpc("basic_publish", {}, {"exchange", "routing_key", "mandatory", "immediate"},
      [ticket |-> 0]),
   basic_ack |-> Rpc("basic_ack", {}, {"delivery_tag", "multiple"}, <<>>),
   basic_get |-> Rpc("basic_get", {"basic_get_ok", "basic_get_empty"}, {"queue", "no_ack"},
      [ticket |-> 0]),
   basic_reject |-> Rpc("basic_reject", {}, {"delivery_tag", "requeue"}, <<>>),
   basic_nack |-> Rpc("basic_nack", {}, {"delivery_tag", "multiple", "requeue"}, <<>>)]

Calls == ConnectionCalls @@ CloseCalls @@ DeliveryCalls @@ ExchangeCalls @@ QueueCalls @@
      BasicCalls @@ TxCalls

------------------------------------------------------------------------------
(* The content properties.  A property is present when its flag is; flags are *)
(* sent as words of fifteen, the lowest bit of a word says another follows.   *)

PropertyFlag == [content_type |-> 15, content_encoding |-> 14, headers |-> 13,
  delivery_mode |-> 12, priority |-> 11, correlation_id |-> 10, reply_to |-> 9, expiration |-> 8,
  message_id |-> 7, timestamp |-> 6, type |-> 5, user_id |-> 4, app_id |-> 3, cluster_id |-> 2]

EncodePropertyItems == <<ShortStr("content_type"), ShortStr("content_encoding"), Table("headers"),
  Octet("delivery_mode"), Octet("priority"), ShortStr("correlation_id"), ShortStr("reply_to"),
  ShortStr("expiration"), ShortStr("message_id"), LongLong("timestamp"), ShortStr("type"),
  ShortStr("user_id"), ShortStr("app_id"), ShortStr("cluster_id")>>

DecodePropertyItems == <<ShortStr("content_type"), ShortStr("content_encoding"), Table("headers"),
  Octet("delivery_mode"), Octet("priority"), ShortStr("correlation_id"), ShortStr("reply_to"),
  ShortStr("expiration"), ShortStr("message_id"), LongLong("timestamp"), ShortStr("type"),
  ShortStr("user_id"), ShortStr("app_id"), ShortStr("cluster_id")>>

\* The classes without properties of their own: only flags travel.
PlainClasses == {10, 20, 30, 40, 50, 90, 85}
BasicClass == 60

------------------------------------------------------------------------------
(* Encoding *)

EncodeFlags(flags) ==
  FoldLeft(LAMBDA n, i : n + (IF flags[i + 1] THEN 2 ^ i ELSE 0), 0, [i \in DOMAIN flags |-> i - 1])

EncodeItem(item, fields) ==
  LET v == fields[item.of]
  IN  CASE item.as = "octet"    -> Write(<<v>>, "BAD_AMQP_DATA")
        [] item.as = "short"    -> Write(EncodeShort(v), "BAD_AMQP_DATA")
        [] item.as \in {"long", "longlong"} -> Write(EncodeLimbs(v), "BAD_AMQP_DATA")
        [] item.as = "shortstr" -> IF Len(v) > 255 THEN Refuse("BAD_AMQP_DATA")
                                   ELSE Write(<<Len(v)>> \o v, "BAD_AMQP_DATA")
        [] item.as = "longstr"  -> Write(EncodeSize(Len(v)) \o v, "BAD_AMQP_DATA")
        [] item.as = "table"    -> EncodeTable(v)
        [] item.as = "bits"     -> Write(<<EncodeFlags([i \in DOMAIN item.of |-> fields[item.of[i]]])>>,
                                         "BAD_AMQP_DATA")

EncodeItems(items, fields) == FlattenSeq([i \in DOMAIN items |-> EncodeItem(items[i], fields)])

EncodeMethod(m, fields, room) == Written(EncodeItems(EncodeLayout[m], fields), room)

\* The flags of p are the properties it has.
EncodeProperties(class, p, room) ==
  LET word == MapThenSumSet(LAMBDA f : 2 ^ PropertyFlag[f], DOMAIN p)
      present == SelectSeq(EncodePropertyItems, LAMBDA item : item.of \in DOMAIN p)
  IN  Written(Write(EncodeShort(word), "BAD_AMQP_DATA") \o
              IF class = BasicClass THEN EncodeItems(present, p)
              ELSE IF class \in PlainClasses THEN <<>> ELSE Refuse("UNKNOWN_CLASS"), room)

------------------------------------------------------------------------------
(* Decoding *)

DecodeItem(b, at, item) ==
  LET Field(r) == Got(item.of :> r.value, r.at)
  IN  CASE item.as = "octet"    -> Then(DecodeOctet(b, at), Field)
        [] item.as = "short"    -> Then(DecodeShort(b, at), Field)
        [] item.as = "long"     -> Then(DecodeLimbs(b, at, 2), Field)
        [] item.as = "longlong" -> Then(DecodeLimbs(b, at, 4), Field)
        [] item.as = "shortstr" -> Then(DecodeOctet(b, at), LAMBDA n :
                                     Then(Take(b, n.at, n.value), Field))
        [] item.as = "longstr"  -> Then(DecodeSize(b, at), LAMBDA n :
                                     Then(Take(b, n.at, n.value), Field))
        [] item.as = "table"    -> Then(DecodeTable(b, at), Field)
        [] item.as = "bits"     -> Then(DecodeOctet(b, at), LAMBDA r :
             Got([f \in Range(item.of) |->
                    (r.value \div 2 ^ (CHOOSE i \in 0..7 : item.of[i + 1] = f)) % 2 = 1], r.at))

DecodeItems(b, at, items) ==
  FoldLeft(LAMBDA read, item : Then(read, LAMBDA r :
             Then(DecodeItem(b, r.at, item), LAMBDA next : Got(r.value @@ next.value, next.at))),
           Got(<<>>, at), items)

DecodeMethod(m, b) == DecodeItems(b, 0, DecodeLayout[m])

RECURSIVE DecodeFlagWords(_, _)

\* The first flag word, after all words that follow it.
DecodeFlagWords(b, at) ==
  Then(DecodeShort(b, at), LAMBDA w :
    IF w.value % 2 = 0 THEN w
    ELSE Then(DecodeFlagWords(b, w.at), LAMBDA rest : Got(w.value, rest.at)))

DecodeProperties(class, b) ==
  Then(DecodeFlagWords(b, 0), LAMBDA w :
    LET Present(item) == (w.value \div 2 ^ PropertyFlag[item.of]) % 2 = 1
    IN  IF class = BasicClass THEN DecodeItems(b, w.at, SelectSeq(DecodePropertyItems, Present))
        ELSE IF class \in PlainClasses THEN Got(<<>>, w.at) ELSE Bad("UNKNOWN_CLASS"))
==============================================================================
