SPECIFICATION FairSpec
CONSTANTS
    Main = Main
    Producer = Producer
    Consumer = Consumer
    Nobody = Nobody
    Bytes = {0, 1}
    BufSize = 3
    Totals = {5}
INVARIANTS AssertionsHold
PROPERTIES ImplementsFifo AllArrive
