SPECIFICATION Spec
CONSTANTS
    Main = Main
    Producer = Producer
    Consumer = Consumer
    Nobody = Nobody
    Bytes = {0, 1}
    BufSize = 4
    Totals = {7}
INVARIANTS OneIsAwake
