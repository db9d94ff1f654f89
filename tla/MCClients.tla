------------------------------ MODULE MCClients ------------------------------
(***************************************************************************)
(* Instance of Clients.tla for TLC: an I2C interface that answers at once, *)
(* beside an SPI or UART interface whose callbacks may hold a request up;  *)
(* three objects of the older client, two of which it may do without.      *)
(***************************************************************************)
EXTENDS Clients

Req(type, ack) == [type |-> type, ack |-> ack]

MCRequests == [i2c  |-> { Req("I2C_READ", FALSE), Req("I2C_WRITE", FALSE) },
               spi  |-> { Req("SPI_CS", FALSE), Req("SPI_TX", FALSE) },
               uart |-> { Req("UART_TX", FALSE) }]

MCHolds == [i2c |-> {}, spi |-> {"stall", "part"}, uart |-> {"stall"}]

MCPlans == { <<"list">>, <<"spi", "i2c">>, <<"uart", "i2c">> }

MCListed == <<"i2c", "spi", "uart">>

MCObjects == <<"uart0", "pin0", "pin1">>
=============================================================================
